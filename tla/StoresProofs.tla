------------------------------ MODULE StoresProofs ------------------------------
(***************************************************************************)
(* Theorems about the stores and the threads that keep them: the SQLite    *)
(* backend; the note store and the knowledge graph that live in JSONL      *)
(* files; the entity index with its flush timer, the cleanup of LanceDB's  *)
(* tables and the consolidation runs; and last their composition, of which *)
(* a behaviour is one of each.  For any notes, contents, graph, threads,   *)
(* tables, old files and bounds.                                           *)
(***************************************************************************)
EXTENDS MCStores, WellFoundedInduction, FiniteSetTheorems, TLAPS

-----------------------------------------------------------------------------
(* The SQLite backend: numbers, fetches and commits *)

\* A nonempty set of numbers up to N has a greatest one: the numbers' distances to N have a least.
LEMMA MaxOfBounded ==
  ASSUME NEW N \in Nat, NEW S \in SUBSET (0..N), S # {}
  PROVE Max(S) \in S /\ \A y \in S : Max(S) >= y
<1> DEFINE D == {N - x : x \in S}
           R == OpToRel(<, Nat)
<1>1. D \subseteq Nat /\ D # {}
  <2> HIDE DEF R
  <2>1. \A x \in S : N - x \in Nat OBVIOUS
  <2> QED BY <2>1
<1>2. IsWellFoundedOn(R, Nat) BY NatLessThanWellFounded
<1>3. PICK d \in D : \A e \in D : <<e, d>> \notin R
  <2> HIDE DEF D, R
  <2> QED BY <1>1, <1>2, WFMin
<1>4. PICK m \in S : d = N - m OBVIOUS
<1>5. ASSUME NEW y \in S PROVE m >= y
  <2>1. N - y \in D /\ N - y \in Nat /\ d \in Nat /\ <<N - y, d>> \notin R BY <1>1, <1>3
  <2>2. ~(N - y < d) BY <2>1 DEF OpToRel
  <2> QED BY <2>2, <1>4
<1> HIDE DEF D, R
<1> QED BY <1>5 DEF Max

\* The next rowid is positive and above every rowid in use.
LEMMA NextRowidAbove ==
  ASSUME NEW db \in Tables
  PROVE NextRowid(db) \in Nat \ {0} /\ \A r \in Rowids(db) : r < NextRowid(db)
<1> DEFINE S == Rowids(db) \cup {0}
<1>1. S \in SUBSET (0..MaxRowid) /\ S # {}
  BY SqliteConstants DEF Tables, Row, Rowids, Present
<1>2. Max(S) \in S /\ \A y \in S : Max(S) >= y BY <1>1, MaxOfBounded, SqliteConstants
<1>3. NextRowid(db) = Max(S) + 1 BY DEF NextRowid
<1> HIDE DEF S
<1>4. Max(S) \in 0..MaxRowid BY <1>1, <1>2
<1>5. \A y \in Rowids(db) : y \in S BY DEF S
<1>6. \A y \in S : y \in 0..MaxRowid BY <1>1
<1> QED BY <1>2, <1>3, <1>4, <1>5, <1>6, SqliteConstants

-----------------------------------------------------------------------------
(* Types *)

CursorsOK == scan \in [Scanners -> Cursor]
HistoryOK ==
  /\ returned \in [Notes -> Versions \cup {Gone}]
  /\ raised \in [Notes -> SUBSET (Versions \cup {Gone})]

\* What the writing calls make of the tables are tables.
LEMMA TablesAfterRow ==
  ASSUME NEW db \in Tables, NEW n \in Notes, NEW r \in Row
  PROVE [db EXCEPT !.row[n] = r] \in Tables
BY DEF Tables

\* What INSERT makes of the tables are tables: a row with both nodes.
LEMMA TablesAfterInsert ==
  ASSUME NEW k \in EdgeKeys, live \in Tables
  PROVE NextInsert(k) \in Tables
<1>1. k[1] \in Nodes /\ k[2] \in Nodes BY SqliteConstants
<1> QED BY <1>1 DEF Tables, NextInsert

\* Statements and commit, if they leave tables, leave everything else of its type.
LEMMA CommitTyped ==
  ASSUME SqliteTypeOK, NEW new \in Tables, CommitReturns(new) \/ CommitRaises(new)
  PROVE /\ conn' = conn /\ closes' = closes
        /\ live' \in Tables /\ durable' \in Tables
        /\ scan' \in [Scanners -> Cursor]
        /\ failures' \in 0..MaxFailures
<1>1. Idle \in Cursor BY SqliteConstants DEF Idle, Cursor
<1>2. [s \in Scanners |-> Idle] \in [Scanners -> Cursor] BY <1>1
<1>3. [s \in Scanners |-> [scan[s] EXCEPT !.stay = @ \cap Present(new)]] \in [Scanners -> Cursor]
  BY DEF SqliteTypeOK, Cursor
<1>4. CASE CommitReturns(new)
  BY <1>3, <1>4 DEF CommitReturns, Execute, SqliteTypeOK
<1>5. CASE CommitRaises(new)
  <2>1. failures' \in 0..MaxFailures BY <1>5, SqliteConstants DEF CommitRaises, SqliteTypeOK
  <2> QED BY <1>2, <1>3, <1>5, <2>1 DEF CommitRaises, Execute, SqliteTypeOK
<1> QED BY <1>4, <1>5

\* A call on a note, if it leaves tables and a content.
LEMMA NoteCallTyped ==
  ASSUME SqliteTypeOK, NEW n \in Notes, NEW new \in Tables, NEW c \in Versions \cup {Gone},
         NoteCall(n, new, c)
  PROVE SqliteTypeOK'
<1>1. CommitReturns(new) \/ CommitRaises(new) BY DEF NoteCall
<1>2. adding' = adding BY DEF NoteCall
<1>3. returned' \in [Notes -> Versions \cup {Gone}] BY DEF NoteCall, SqliteTypeOK
<1>4. raised' \in [Notes -> SUBSET (Versions \cup {Gone})]
  <2>1. raised \in [Notes -> SUBSET (Versions \cup {Gone})] BY DEF SqliteTypeOK
  <2>2. raised' = [raised EXCEPT ![n] = {}] \/ raised' = [raised EXCEPT ![n] = raised[n] \cup {c}]
    BY DEF NoteCall
  <2> QED BY <2>1, <2>2
<1> QED BY <1>1, <1>2, <1>3, <1>4, CommitTyped DEF SqliteTypeOK

\* The rows a fetch stands on are rows, and the last of them is the greatest.
LEMMA ChunkBounded ==
  ASSUME SqliteTypeOK, NEW s \in Scanners, Chunk(scan[s]) # {}
  PROVE LET m == Max(Chunk(scan[s])) IN
        /\ m \in 0..MaxRowid /\ m \in Chunk(scan[s])
        /\ \A r \in Chunk(scan[s]) : m >= r
<1>1. Chunk(scan[s]) \in SUBSET (0..MaxRowid)
  BY DEF SqliteTypeOK, Tables, Row, Rowids, Present, Chunk, Ahead
<1> QED BY <1>1, MaxOfBounded, SqliteConstants

\* Every step keeps the types.
LEMMA TypeStep ==
  ASSUME SqliteTypeOK, [SqliteNext]_sqliteVars
  PROVE SqliteTypeOK'
<1>1. ASSUME NEW n \in Notes, DeleteNote(n) PROVE SqliteTypeOK'
  <2>1. [rowid |-> 0, content |-> Gone] \in Row BY SqliteConstants DEF Row
  <2>2. [live EXCEPT !.row[n] = [rowid |-> 0, content |-> Gone]] \in Tables
    BY <2>1, TablesAfterRow DEF SqliteTypeOK
  <2> QED BY <1>1, <2>2, NoteCallTyped DEF DeleteNote
<1>2. ASSUME NEW n \in Notes, NEW v \in Versions, WriteNote(n, v) PROVE SqliteTypeOK'
  <2>1. [rowid |-> NextRowid(live), content |-> v] \in Row
    BY <1>2, NextRowidAbove, SqliteConstants DEF Row, WriteNote, SqliteTypeOK
  <2>2. [live EXCEPT !.row[n] = [rowid |-> NextRowid(live), content |-> v]] \in Tables
    BY <2>1, TablesAfterRow DEF SqliteTypeOK
  <2> QED BY <1>2, <2>2, NoteCallTyped DEF WriteNote
<1>3. ASSUME NEW n \in Notes, NEW v \in Versions, UpdateColumns(n, v) PROVE SqliteTypeOK'
  <2> DEFINE r == [live.row[n] EXCEPT !.content = v]
  <2>1. r \in Row BY DEF SqliteTypeOK, Tables, Row
  <2>2. [live EXCEPT !.row[n].content = v] = [live EXCEPT !.row[n] = r] OBVIOUS
  <2>3. [live EXCEPT !.row[n] = r] \in Tables
    <3> HIDE DEF r
    <3> QED BY <2>1, TablesAfterRow DEF SqliteTypeOK
  <2>4. [live EXCEPT !.row[n].content = v] \in Tables BY <2>2, <2>3
  <2> QED BY <1>3, <2>4, NoteCallTyped DEF UpdateColumns
<1>4. ASSUME NEW k \in EdgeKeys, BeginEdge(k) PROVE SqliteTypeOK'
  BY <1>4 DEF BeginEdge, SqliteTypeOK
<1>5. CASE AddKgEdge
  <2>1. adding \in EdgeKeys BY <1>5 DEF AddKgEdge, SqliteTypeOK
  <2>2. NextInsert(adding) \in Tables BY <2>1, TablesAfterInsert DEF SqliteTypeOK
  <2>3. CommitReturns(NextInsert(adding)) \/ CommitRaises(NextInsert(adding)) BY <1>5 DEF AddKgEdge
  <2>4. adding' \in EdgeKeys \cup {NoCall} /\ UNCHANGED <<returned, raised>>
    BY <1>5, <2>1 DEF AddKgEdge
  <2> QED BY <2>2, <2>3, <2>4, CommitTyped DEF SqliteTypeOK
<1>6. ASSUME NEW s \in Scanners, ScanStart(s) PROVE SqliteTypeOK'
  <2>1. [on |-> TRUE, pos |-> 0, seen |-> {}, stay |-> Present(live)] \in Cursor
    BY SqliteConstants DEF Cursor, Present
  <2> QED BY <1>6, <2>1 DEF ScanStart, SqliteTypeOK
<1>7. ASSUME NEW s \in Scanners, ScanFetch(s) PROVE SqliteTypeOK'
  <2>1. Idle \in Cursor BY SqliteConstants DEF Idle, Cursor
  <2> DEFINE c == scan[s]
             after == IF Chunk(c) = {} THEN Idle
                      ELSE [c EXCEPT !.pos = Max(Chunk(c)),
                                     !.seen = @ \cup {n \in Present(live) : live.row[n].rowid \in Chunk(c)}]
  <2>2. c \in Cursor /\ Present(live) \subseteq Notes BY DEF SqliteTypeOK, Present
  <2>3. Chunk(c) # {} => Max(Chunk(c)) \in 0..MaxRowid BY ChunkBounded
  <2>4. after \in Cursor BY <2>1, <2>2, <2>3 DEF Cursor
  <2>5. scan' = [scan EXCEPT ![s] = after] BY <1>7 DEF ScanFetch
  <2> HIDE DEF after
  <2> QED BY <1>7, <2>4, <2>5 DEF ScanFetch, SqliteTypeOK
<1>8. CASE Close \/ Crash
  <2>1. Idle \in Cursor BY SqliteConstants DEF Idle, Cursor
  <2>2. closes' \in 0..MaxCloses BY <1>8, SqliteConstants DEF Close, Crash, Shut, SqliteTypeOK
  <2> QED BY <1>8, <2>1, <2>2 DEF Close, Crash, Shut, SqliteTypeOK
<1>9. CASE Initialize BY <1>9 DEF Initialize, SqliteTypeOK
<1>10. CASE UNCHANGED sqliteVars BY <1>10 DEF sqliteVars, SqliteTypeOK
<1> QED BY <1>1, <1>2, <1>3, <1>4, <1>5, <1>6, <1>7, <1>8, <1>9, <1>10 DEF SqliteNext

\* The empty database is of its type.
LEMMA TypeInit ==
  ASSUME SqliteInit
  PROVE SqliteTypeOK
<1>1. live \in Tables BY SqliteConstants DEF SqliteInit, Tables, Row
<1>2. Idle \in Cursor BY SqliteConstants DEF Idle, Cursor
<1> QED BY <1>1, <1>2, SqliteConstants DEF SqliteInit, SqliteTypeOK

\* The tables, the open transaction and the cursors of the connection keep their shape in every
\* call, fetch, close and crash: edges only of known keys, positions only within the rowids
\* (sqlite_backend.py, every method that writes, and iterate_notes).
THEOREM SqliteTypeCorrect == SqliteSpec => []SqliteTypeOK
<1>1. SqliteInit => SqliteTypeOK BY TypeInit
<1>2. SqliteTypeOK /\ [SqliteNext]_sqliteVars => SqliteTypeOK' BY TypeStep
<1> QED BY <1>1, <1>2, PTL DEF SqliteSpec

-----------------------------------------------------------------------------
(* What the writing calls change *)

\* A commit leaves the connection with the new tables or with the committed ones, and commits
\* the new tables or nothing.
LEMMA CommitOutcomes ==
  ASSUME NEW new, CommitReturns(new) \/ CommitRaises(new)
  PROVE live' \in {new, durable} /\ durable' \in {new, durable}
BY DEF CommitReturns, CommitRaises, Execute

\* Replacing one row changes the row of that note and no other, and nothing of the graph.
LEMMA OneRowChanged ==
  ASSUME NEW db \in Tables, NEW n \in Notes, NEW r \in Row
  PROVE LET new == [db EXCEPT !.row[n] = r] IN
        /\ new.row[n] = r /\ \A m \in Notes \ {n} : new.row[m] = db.row[m]
        /\ new.nodes = db.nodes /\ new.edges = db.edges
<1>1. db.row \in [Notes -> Row] BY DEF Tables
<1>2. [db EXCEPT !.row[n] = r].row = [db.row EXCEPT ![n] = r] BY DEF Tables
<1>3. [db EXCEPT !.row[n] = r].nodes = db.nodes /\ [db EXCEPT !.row[n] = r].edges = db.edges
  BY DEF Tables
<1> QED BY <1>1, <1>2, <1>3

\* The row a call leaves its note: gone, changed in place, or at the next rowid.
NewRow(n, r) ==
  \/ r = [rowid |-> 0, content |-> Gone]
  \/ r.rowid = live.row[n].rowid
  \/ r.rowid = NextRowid(live)

\* Every call on a note is of one form: one row replaced, and the content of that row noted.
LEMMA NoteCallForm ==
  ASSUME SqliteTypeOK, NEW n \in Notes,
         DeleteNote(n) \/ \E v \in Versions : WriteNote(n, v) \/ UpdateColumns(n, v)
  PROVE \E r \in Row : NewRow(n, r) /\ NoteCall(n, [live EXCEPT !.row[n] = r], r.content)
<1>1. CASE DeleteNote(n)
  <2>1. [rowid |-> 0, content |-> Gone] \in Row BY SqliteConstants DEF Row
  <2> QED BY <1>1, <2>1 DEF DeleteNote, NewRow
<1>2. ASSUME NEW v \in Versions, WriteNote(n, v)
      PROVE \E r \in Row : NewRow(n, r) /\ NoteCall(n, [live EXCEPT !.row[n] = r], r.content)
  <2>1. [rowid |-> NextRowid(live), content |-> v] \in Row
    BY <1>2, NextRowidAbove, SqliteConstants DEF Row, WriteNote, SqliteTypeOK
  <2> QED BY <1>2, <2>1 DEF WriteNote, NewRow
<1>3. ASSUME NEW v \in Versions, UpdateColumns(n, v)
      PROVE \E r \in Row : NewRow(n, r) /\ NoteCall(n, [live EXCEPT !.row[n] = r], r.content)
  <2> DEFINE r == [live.row[n] EXCEPT !.content = v]
  <2>1. live.row[n] \in Row BY DEF SqliteTypeOK, Tables
  <2>2. r \in Row /\ r.content = v /\ r.rowid = live.row[n].rowid BY <2>1 DEF Row
  <2>3. [live EXCEPT !.row[n].content = v] = [live EXCEPT !.row[n] = r] OBVIOUS
  <2>4. NoteCall(n, [live EXCEPT !.row[n].content = v], v) BY <1>3 DEF UpdateColumns
  <2>5. NoteCall(n, [live EXCEPT !.row[n] = r], r.content) BY <2>2, <2>3, <2>4
  <2> HIDE DEF r
  <2> QED BY <2>2, <2>5 DEF NewRow
<1> QED BY <1>1, <1>2, <1>3

\* An insert of add_kg_edge leaves the rows alone.
LEMMA InsertKeepsRows ==
  ASSUME SqliteTypeOK, AddKgEdge
  PROVE /\ NextInsert(adding).row = live.row
        /\ CommitReturns(NextInsert(adding)) \/ CommitRaises(NextInsert(adding))
        /\ UNCHANGED <<returned, raised>>
<1>1. NextInsert(adding).row = live.row BY DEF NextInsert, SqliteTypeOK, Tables
<1> QED BY <1>1 DEF AddKgEdge

-----------------------------------------------------------------------------
(* What is committed *)

\* What the connection sees is explained like what is committed: the next commit makes it so.
Explained(db) == \A n \in Notes : db.row[n].content \in {returned[n]} \cup raised[n]
ExplainedInv == Explained(live) /\ Explained(durable)

\* A call writes what it returns, or fails; a commit and a restart copy what was explained.
LEMMA ExplainedStep ==
  ASSUME SqliteTypeOK, ExplainedInv, [SqliteNext]_sqliteVars
  PROVE ExplainedInv'
<1>1. ASSUME NEW n \in Notes,
             DeleteNote(n) \/ \E v \in Versions : WriteNote(n, v) \/ UpdateColumns(n, v)
      PROVE ExplainedInv'
  <2>1. PICK r \in Row : NoteCall(n, [live EXCEPT !.row[n] = r], r.content) BY <1>1, NoteCallForm
  <2> DEFINE new == [live EXCEPT !.row[n] = r]
  <2>2. new.row[n] = r /\ \A m \in Notes \ {n} : new.row[m] = live.row[m]
    BY OneRowChanged DEF SqliteTypeOK
  <2>3. NoteCall(n, new, r.content) BY <2>1
  <2> HIDE DEF new
  <2>4. CASE CommitReturns(new) /\ returned' = [returned EXCEPT ![n] = r.content]
                                /\ raised' = [raised EXCEPT ![n] = {}]
    <3>1. live' = new /\ durable' = new BY <2>4 DEF CommitReturns, Execute
    <3>2. returned'[n] = r.content /\ \A m \in Notes \ {n} : returned'[m] = returned[m] /\ raised'[m] = raised[m]
      BY <2>4 DEF SqliteTypeOK
    <3> QED BY <2>2, <3>1, <3>2 DEF ExplainedInv, Explained
  <2>5. CASE CommitRaises(new) /\ raised' = [raised EXCEPT ![n] = @ \cup {r.content}]
                               /\ returned' = returned
    <3>1. live' \in {new, durable} /\ durable' = durable
      BY <2>5 DEF CommitRaises, Execute
    <3>2. r.content \in raised'[n] /\ \A m \in Notes : raised[m] \subseteq raised'[m]
      BY <2>5 DEF SqliteTypeOK
    <3>3. \A m \in Notes : new.row[m].content \in {returned'[m]} \cup raised'[m]
      BY <2>2, <2>5, <3>2 DEF ExplainedInv, Explained
    <3>4. \A m \in Notes : durable.row[m].content \in {returned'[m]} \cup raised'[m]
      BY <2>5, <3>2 DEF ExplainedInv, Explained
    <3> QED BY <3>1, <3>3, <3>4 DEF ExplainedInv, Explained
  <2> QED BY <2>3, <2>4, <2>5 DEF NoteCall
<1>2. CASE AddKgEdge
  <2> DEFINE new == NextInsert(adding)
  <2>1. new.row = live.row /\ UNCHANGED <<returned, raised>> BY <1>2, InsertKeepsRows
  <2>2. live' \in {new, durable} /\ durable' \in {new, durable} BY <1>2, InsertKeepsRows, CommitOutcomes
  <2> HIDE DEF new
  <2> QED BY <2>1, <2>2 DEF ExplainedInv, Explained
<1>3. ASSUME live' \in {live, durable} /\ UNCHANGED <<durable, returned, raised>> PROVE ExplainedInv'
  BY <1>3 DEF ExplainedInv, Explained
<1>4. CASE Close \/ Crash \/ Initialize \/ UNCHANGED sqliteVars
  BY <1>3, <1>4 DEF Close, Crash, Shut, Initialize, sqliteVars
<1>5. ASSUME NEW k \in EdgeKeys, BeginEdge(k) PROVE ExplainedInv' BY <1>3, <1>5 DEF BeginEdge
<1>6. ASSUME NEW s \in Scanners, ScanStart(s) \/ ScanFetch(s) PROVE ExplainedInv'
  BY <1>3, <1>6 DEF ScanStart, ScanFetch
<1> QED BY <1>1, <1>2, <1>4, <1>5, <1>6 DEF SqliteNext

\* Whatever commits raise and whenever the process stops, the committed content of a note is
\* what the last call that returned left there or what a later call that raised had executed
\* (sqlite_backend.py, every writing method).
THEOREM CommittedExplained == SqliteSpec => []DurableExplained
<1>1. SqliteInit => SqliteTypeOK /\ ExplainedInv
  <2>1. SqliteInit => SqliteTypeOK BY TypeInit
  <2>2. SqliteInit => ExplainedInv BY DEF SqliteInit, ExplainedInv, Explained
  <2> QED BY <2>1, <2>2
<1>2. SqliteTypeOK /\ ExplainedInv /\ [SqliteNext]_sqliteVars => (SqliteTypeOK /\ ExplainedInv)'
  BY TypeStep, ExplainedStep
<1>3. ExplainedInv => DurableExplained BY DEF ExplainedInv, Explained, DurableExplained
<1> QED BY <1>1, <1>2, <1>3, PTL DEF SqliteSpec

\* No edge without its nodes, in what the connection sees too.
Closed(db) == \A k \in db.edges : {k[1], k[2]} \subseteq db.nodes
ClosedInv == Closed(live) /\ Closed(durable)

\* An edge goes in with its two nodes, and no call deletes a node.
LEMMA ClosedStep ==
  ASSUME SqliteTypeOK, ClosedInv, [SqliteNext]_sqliteVars
  PROVE ClosedInv'
<1>1. ASSUME NEW n \in Notes,
             DeleteNote(n) \/ \E v \in Versions : WriteNote(n, v) \/ UpdateColumns(n, v)
      PROVE ClosedInv'
  <2>1. PICK r \in Row : NoteCall(n, [live EXCEPT !.row[n] = r], r.content) BY <1>1, NoteCallForm
  <2> DEFINE new == [live EXCEPT !.row[n] = r]
  <2>2. new.nodes = live.nodes /\ new.edges = live.edges BY OneRowChanged DEF SqliteTypeOK
  <2>3. live' \in {new, durable} /\ durable' \in {new, durable} BY <2>1, CommitOutcomes DEF NoteCall
  <2> HIDE DEF new
  <2> QED BY <2>2, <2>3 DEF ClosedInv, Closed
<1>2. CASE AddKgEdge
  <2> DEFINE new == NextInsert(adding)
  <2>1. adding \in EdgeKeys BY <1>2 DEF AddKgEdge, SqliteTypeOK
  <2>2. \/ new.edges = live.edges /\ live.nodes \subseteq new.nodes
        \/ new.edges = live.edges \cup {adding} /\ new.nodes = live.nodes
           /\ adding[1] \in live.nodes /\ adding[2] \in live.nodes
    BY <2>1 DEF NextInsert, SqliteTypeOK, Tables
  <2>3. live' \in {new, durable} /\ durable' \in {new, durable} BY <1>2, InsertKeepsRows, CommitOutcomes
  <2> HIDE DEF new
  <2>4. Closed(new) BY <2>2 DEF ClosedInv, Closed
  <2> QED BY <2>3, <2>4 DEF ClosedInv, Closed
<1>3. ASSUME live' \in {live, durable} /\ UNCHANGED durable PROVE ClosedInv'
  BY <1>3 DEF ClosedInv, Closed
<1>4. CASE Close \/ Crash \/ Initialize \/ UNCHANGED sqliteVars
  BY <1>3, <1>4 DEF Close, Crash, Shut, Initialize, sqliteVars
<1>5. ASSUME NEW k \in EdgeKeys, BeginEdge(k) PROVE ClosedInv' BY <1>3, <1>5 DEF BeginEdge
<1>6. ASSUME NEW s \in Scanners, ScanStart(s) \/ ScanFetch(s) PROVE ClosedInv'
  BY <1>3, <1>6 DEF ScanStart, ScanFetch
<1> QED BY <1>1, <1>2, <1>4, <1>5, <1>6 DEF SqliteNext

\* add_kg_edge commits three times, and each commit may raise with its statement left in the
\* transaction or undone; no edge is ever committed without its nodes (sqlite_backend.py,
\* add_kg_edge).
THEOREM CommittedEdgesClosed == SqliteSpec => []EdgesHaveNodes
<1>1. SqliteInit => SqliteTypeOK /\ ClosedInv
  <2>1. SqliteInit => SqliteTypeOK BY TypeInit
  <2>2. SqliteInit => ClosedInv BY DEF SqliteInit, ClosedInv, Closed
  <2> QED BY <2>1, <2>2
<1>2. SqliteTypeOK /\ ClosedInv /\ [SqliteNext]_sqliteVars => (SqliteTypeOK /\ ClosedInv)'
  BY TypeStep, ClosedStep
<1>3. ClosedInv => EdgesHaveNodes BY DEF ClosedInv, Closed, EdgesHaveNodes
<1> QED BY <1>1, <1>2, <1>3, PTL DEF SqliteSpec

-----------------------------------------------------------------------------
(* What a scan sees *)

\* The notes that stay are in the table.
ScanInv ==
  \A s \in Scanners : scan[s].on =>
    /\ scan[s].stay \subseteq Present(live)
    /\ \A n \in scan[s].stay : n \in scan[s].seen \/ live.row[n].rowid > scan[s].pos

\* Statements that keep each row at its rowid, take it out, or move it above all others, take
\* nothing from a cursor: a note it has yet to reach only moves further ahead.
LEMMA ExecuteScan ==
  ASSUME SqliteTypeOK, ScanInv, NEW new \in Tables,
         \A n \in Notes : \/ new.row[n].rowid \in {0, live.row[n].rowid}
                          \/ new.row[n].rowid = NextRowid(live),
         CommitReturns(new) \/ CommitRaises(new)
  PROVE ScanInv'
<1>1. CASE Execute(new)
  <2> SUFFICES ASSUME NEW s \in Scanners, scan'[s].on
               PROVE /\ scan'[s].stay \subseteq Present(live')
                     /\ \A n \in scan'[s].stay : n \in scan'[s].seen \/ live'.row[n].rowid > scan'[s].pos
    BY DEF ScanInv, Present
  <2>1. live' = new /\ scan'[s] = [scan[s] EXCEPT !.stay = scan[s].stay \cap Present(new)]
    BY <1>1 DEF Execute
  <2>2. scan[s] \in Cursor BY DEF SqliteTypeOK
  <2>3. /\ scan[s].on /\ scan'[s].pos = scan[s].pos /\ scan'[s].seen = scan[s].seen
        /\ scan'[s].stay = scan[s].stay \cap Present(new)
    BY <2>1, <2>2 DEF Cursor
  <2>4. ASSUME NEW n \in scan'[s].stay, n \notin scan[s].seen PROVE new.row[n].rowid > scan[s].pos
    <3>1. n \in Notes /\ n \in Present(live) /\ new.row[n].rowid # 0 /\ live.row[n].rowid > scan[s].pos
      BY <2>3, <2>4 DEF ScanInv, Present
    <3>2. live.row[n].rowid \in Rowids(live) BY <3>1 DEF Rowids
    <3>3. NextRowid(live) \in Nat /\ live.row[n].rowid < NextRowid(live)
      BY <3>2, NextRowidAbove DEF SqliteTypeOK
    <3>4. live.row[n].rowid \in 0..MaxRowid /\ scan[s].pos \in 0..MaxRowid
      BY <2>2, <3>1 DEF SqliteTypeOK, Tables, Row, Cursor
    <3> QED BY <3>1, <3>3, <3>4, SqliteConstants
  <2> QED BY <2>1, <2>3, <2>4
<1>2. CASE scan' = [s \in Scanners |-> Idle]
  BY <1>2 DEF ScanInv, Idle
<1> QED BY <1>1, <1>2 DEF CommitReturns, CommitRaises

\* A fetch takes the nearest rows: what it leaves out lies beyond the last one it takes.
LEMMA FetchTakesNearest ==
  ASSUME SqliteTypeOK, NEW s \in Scanners, NEW r \in Ahead(scan[s]), r \notin Chunk(scan[s]),
         Chunk(scan[s]) # {}
  PROVE r > Max(Chunk(scan[s]))
<1> DEFINE A == Ahead(scan[s])
           m == Max(Chunk(scan[s]))
           Below(x) == {q \in A : q < x}
<1>1. A \subseteq 0..MaxRowid
  BY DEF SqliteTypeOK, Tables, Row, Rowids, Present, Ahead
<1>2. m \in 0..MaxRowid /\ m \in Chunk(scan[s]) BY ChunkBounded
<1>3. Cardinality(Below(m)) < ChunkSize BY <1>2 DEF Chunk
<1>4. ~(Cardinality(Below(r)) < ChunkSize) BY DEF Chunk
<1>5. ASSUME r <= m PROVE FALSE
  <2>1. r \in 0..MaxRowid BY <1>1
  <2>2. \A q \in A : q < r => q < m BY <1>1, <1>2, <1>5, <2>1, SqliteConstants
  <2>3. Below(r) \subseteq Below(m) /\ Below(m) \subseteq 0..MaxRowid BY <1>1, <2>2
  <2>4. IsFiniteSet(0..MaxRowid) BY FS_Interval, SqliteConstants
  <2> HIDE DEF Below, A, m
  <2>5. IsFiniteSet(Below(m)) BY <2>3, <2>4, FS_Subset
  <2>6. IsFiniteSet(Below(r)) /\ Cardinality(Below(r)) <= Cardinality(Below(m))
    BY <2>3, <2>5, FS_Subset
  <2>7. Cardinality(Below(m)) \in Nat /\ Cardinality(Below(r)) \in Nat
    BY <2>5, <2>6, FS_CardinalityType
  <2> QED BY <1>3, <1>4, <2>6, <2>7, SqliteConstants
<1>6. r \in 0..MaxRowid BY <1>1
<1> HIDE DEF m
<1>7. r > m BY <1>2, <1>5, <1>6, SqliteConstants
<1> QED BY <1>7 DEF m

\* A row ahead of the cursor stays ahead; a new one goes behind the largest rowid.
LEMMA ScanStep ==
  ASSUME SqliteTypeOK, ScanInv, [SqliteNext]_sqliteVars
  PROVE ScanInv'
<1>1. ASSUME NEW n \in Notes,
             DeleteNote(n) \/ \E v \in Versions : WriteNote(n, v) \/ UpdateColumns(n, v)
      PROVE ScanInv'
  <2>1. PICK r \in Row : NewRow(n, r) /\ NoteCall(n, [live EXCEPT !.row[n] = r], r.content)
    BY <1>1, NoteCallForm
  <2> DEFINE new == [live EXCEPT !.row[n] = r]
  <2>2. new \in Tables BY TablesAfterRow DEF SqliteTypeOK
  <2>3. new.row[n] = r /\ \A m \in Notes \ {n} : new.row[m] = live.row[m]
    BY OneRowChanged DEF SqliteTypeOK
  <2>4. CommitReturns(new) \/ CommitRaises(new) BY <2>1 DEF NoteCall
  <2> HIDE DEF new
  <2>5. r.rowid \in {0, live.row[n].rowid} \/ r.rowid = NextRowid(live) BY <2>1 DEF NewRow
  <2>6. \A m \in Notes : \/ new.row[m].rowid \in {0, live.row[m].rowid}
                         \/ new.row[m].rowid = NextRowid(live)
    BY <2>3, <2>5
  <2> QED BY <2>2, <2>4, <2>6, ExecuteScan
<1>2. CASE AddKgEdge
  <2>1. adding \in EdgeKeys BY <1>2 DEF AddKgEdge, SqliteTypeOK
  <2>2. NextInsert(adding) \in Tables BY <2>1, TablesAfterInsert DEF SqliteTypeOK
  <2> QED BY <1>2, <2>2, InsertKeepsRows, ExecuteScan
<1>3. ASSUME NEW s \in Scanners, ScanStart(s) PROVE ScanInv'
  <2> DEFINE start == [on |-> TRUE, pos |-> 0, seen |-> {}, stay |-> Present(live)]
  <2>1. live' = live /\ scan' = [scan EXCEPT ![s] = start] BY <1>3 DEF ScanStart
  <2>2. \A n \in Present(live) : live.row[n].rowid > 0
    BY SqliteConstants DEF Present, SqliteTypeOK, Tables, Row
  <2>3. start.stay \subseteq Present(live) /\ \A n \in start.stay : live.row[n].rowid > start.pos
    BY <2>2
  <2> HIDE DEF start
  <2>4. \A t \in Scanners : scan'[t] = start \/ scan'[t] = scan[t] BY <2>1 DEF SqliteTypeOK
  <2> QED BY <2>1, <2>3, <2>4 DEF ScanInv, Present
<1>4. ASSUME NEW s \in Scanners, ScanFetch(s) PROVE ScanInv'
  <2> DEFINE c == scan[s]
             fetched == {n \in Present(live) : live.row[n].rowid \in Chunk(c)}
             after == IF Chunk(c) = {} THEN Idle
                      ELSE [c EXCEPT !.pos = Max(Chunk(c)), !.seen = @ \cup fetched]
  <2>1. live' = live /\ scan' = [scan EXCEPT ![s] = after] /\ c.on BY <1>4 DEF ScanFetch
  <2>2. c \in Cursor BY DEF SqliteTypeOK
  <2>3. after.on => /\ Chunk(c) # {} /\ after.pos = Max(Chunk(c)) /\ after.seen = c.seen \cup fetched
                    /\ after.stay = c.stay
    BY <2>2 DEF Cursor, Idle
  <2>4. ASSUME after.on, NEW n \in after.stay PROVE n \in after.seen \/ live.row[n].rowid > after.pos
    <3>1. n \in Present(live) /\ (n \in c.seen \/ live.row[n].rowid > c.pos)
      BY <2>1, <2>3, <2>4 DEF ScanInv
    <3>2. CASE n \in c.seen BY <2>3, <2>4, <3>2
    <3>3. CASE live.row[n].rowid > c.pos
      <4>1. live.row[n].rowid \in Ahead(c) BY <3>1, <3>3 DEF Ahead, Rowids
      <4>2. CASE live.row[n].rowid \in Chunk(c) BY <2>3, <2>4, <3>1, <4>2
      <4>3. CASE live.row[n].rowid \notin Chunk(c)
        BY <2>3, <2>4, <4>1, <4>3, FetchTakesNearest
      <4> QED BY <4>2, <4>3
    <3> QED BY <3>1, <3>2, <3>3
  <2>5. after.on => after.stay \subseteq Present(live) BY <2>1, <2>3 DEF ScanInv
  <2> HIDE DEF after
  <2>6. \A t \in Scanners : scan'[t] = after \/ scan'[t] = scan[t] BY <2>1 DEF SqliteTypeOK
  <2> QED BY <2>1, <2>4, <2>5, <2>6 DEF ScanInv, Present
<1>5. CASE Close \/ Crash BY <1>5 DEF Close, Crash, Shut, ScanInv, Idle
<1>6. ASSUME UNCHANGED <<live, scan>> PROVE ScanInv' BY <1>6 DEF ScanInv, Present
<1>7. CASE Initialize \/ UNCHANGED sqliteVars BY <1>6, <1>7 DEF Initialize, sqliteVars
<1>8. ASSUME NEW k \in EdgeKeys, BeginEdge(k) PROVE ScanInv' BY <1>6, <1>8 DEF BeginEdge
<1> QED BY <1>1, <1>2, <1>3, <1>4, <1>5, <1>7, <1>8 DEF SqliteNext

\* iterate_notes lets go of the lock between two fetches of any size, while any number of other
\* calls rewrite, delete and insert rows: a note that is there from the start of the scan on is
\* never passed over (sqlite_backend.py, iterate_notes).
THEOREM ScanComplete == SqliteSpec => []ScanMissesNothing
<1>1. SqliteInit => SqliteTypeOK /\ ScanInv
  <2>1. SqliteInit => SqliteTypeOK BY TypeInit
  <2>2. SqliteInit => ScanInv BY DEF SqliteInit, ScanInv, Idle
  <2> QED BY <2>1, <2>2
<1>2. SqliteTypeOK /\ ScanInv /\ [SqliteNext]_sqliteVars => (SqliteTypeOK /\ ScanInv)'
  BY TypeStep, ScanStep
<1>3. ScanInv => ScanMissesNothing BY DEF ScanInv, ScanMissesNothing
<1> QED BY <1>1, <1>2, <1>3, PTL DEF SqliteSpec

-----------------------------------------------------------------------------
(* The note store: types *)

Job == [at : {"idle", "opened", "locked", "buffered", "copied"}, op : {"append", "rewrite"},
        note : JNotes, file : Files, copy : Content, kept : SUBSET JNotes]

\* The bounds give the file numbers and contents their values.
LEMMA JsonlRanges ==
  /\ 1 \in Files
  /\ name \in Files /\ name < MaxRenames + 1 => name + 1 \in Files
  /\ [m \in JNotes |-> 0] \in Content
  /\ \A n \in JNotes : NoJob(n) \in Job
<1>1. name \in Files /\ name < MaxRenames + 1 => name + 1 \in Files
  BY JsonlConstants DEF Files
<1>2. [m \in JNotes |-> 0] \in Content BY JsonlConstants DEF Content
<1>3. 1 \in Files BY JsonlConstants DEF Files
<1> QED BY <1>1, <1>2, <1>3 DEF NoJob, Job

\* Opening a file for a call.
LEMMA OpenEffect ==
  ASSUME JsonlTypeOK, NEW t \in Threads, NEW op \in {"append", "rewrite"}, NEW n \in JNotes,
         Open(t, op, n)
  PROVE /\ job' \in [Threads -> Job]
        /\ job[t].at = "idle" /\ \A u \in Threads \ {t} : job'[u] = job[u]
        /\ job'[t].at = "opened" /\ job'[t].op = op /\ job'[t].note = n /\ job'[t].file = name
<1>1. NoJob(n) \in Job BY JsonlRanges
<1>2. job \in [Threads -> Job] /\ name \in Files BY DEF JsonlTypeOK, Job
<1> DEFINE new == [NoJob(n) EXCEPT !.at = "opened", !.op = op, !.file = name]
<1>3. new \in Job /\ new.at = "opened" /\ new.op = op /\ new.note = n /\ new.file = name
  BY <1>1, <1>2 DEF Job, NoJob
<1>4. job[t].at = "idle" /\ job' = [job EXCEPT ![t] = new] BY DEF Open
<1> HIDE DEF new
<1> QED BY <1>2, <1>3, <1>4

\* A call that ends.
LEMMA FinishEffect ==
  ASSUME JsonlTypeOK, NEW t \in Threads, Finish(t)
  PROVE /\ job' \in [Threads -> Job]
        /\ job'[t].at = "idle" /\ \A u \in Threads \ {t} : job'[u] = job[u]
<1>1. job \in [Threads -> Job] BY DEF JsonlTypeOK, Job
<1>2. job[t].note \in JNotes BY <1>1 DEF Job
<1>3. NoJob(job[t].note) \in Job /\ NoJob(job[t].note).at = "idle" BY <1>2, JsonlRanges DEF NoJob
<1>4. job' = [job EXCEPT ![t] = NoJob(job[t].note)] BY DEF Finish
<1> QED BY <1>1, <1>3, <1>4

\* A lock let go of is held by nobody, the others by whom they were.
LEMMA UnlockEffect ==
  ASSUME JsonlTypeOK, NEW f \in Files, Unlocked(f)
  PROVE holder' \in [Files -> Threads \cup {Nobody}] /\ \A g \in Files \ {f} : holder'[g] = holder[g]
BY DEF JsonlTypeOK, Unlocked

\* Getting the lock.
LEMMA LockEffect ==
  ASSUME JsonlTypeOK, NEW t \in Threads, Lock(t)
  PROVE /\ job' \in [Threads -> Job] /\ holder' \in [Files -> Threads \cup {Nobody}]
        /\ job[t].at = "opened" /\ job'[t].at = "locked" /\ job'[t].file = job[t].file
        /\ \A u \in Threads \ {t} : job'[u] = job[u]
        /\ holder[job[t].file] = Nobody /\ holder'[job[t].file] = t
        /\ \A f \in Files \ {job[t].file} : holder'[f] = holder[f]
<1>1. job \in [Threads -> Job] /\ holder \in [Files -> Threads \cup {Nobody}] BY DEF JsonlTypeOK, Job
<1>2. job[t].file \in Files BY <1>1 DEF Job
<1> QED BY <1>1, <1>2 DEF Lock, Job

\* The line that an append leaves in its buffer.
LEMMA BufferEffect ==
  ASSUME JsonlTypeOK, NEW t \in Threads, BufferLine(t)
  PROVE /\ job' \in [Threads -> Job] /\ \A u \in Threads \ {t} : job'[u] = job[u]
        /\ job[t].at = "locked" /\ job'[t].at = "buffered" /\ job'[t].file = job[t].file
<1>1. job \in [Threads -> Job] BY DEF JsonlTypeOK, Job
<1> QED BY <1>1 DEF BufferLine, Job

\* The line that an append adds.
LEMMA FlushEffect ==
  ASSUME JsonlTypeOK, NEW t \in Threads, FlushLine(t),
         NEW f, f = job[t].file, NEW n, n = job[t].note
  PROVE /\ f \in Files /\ n \in JNotes /\ job[t].at = "buffered"
        /\ lines' = [lines EXCEPT ![f][n] = 1] /\ lines' \in [Files -> Content]
        /\ saved' = [saved EXCEPT ![f] = @ \cup {n}] /\ saved' \in [Files -> SUBSET JNotes]
        /\ cache' = [cache EXCEPT ![n] = 1] /\ cache' \in Content
        /\ overtaken' \in BOOLEAN /\ Finish(t)
        /\ ~overtaken' => /\ ~overtaken /\ f = name
                          /\ \A u \in Threads : job[u].at = "copied" => job[u].file # name
<1>1. f \in Files /\ n \in JNotes BY DEF JsonlTypeOK
<1>2. 1 \in 0..MaxVersion BY JsonlConstants
<1>3. lines' \in [Files -> Content] /\ cache' \in Content
  BY <1>1, <1>2 DEF FlushLine, JsonlTypeOK, Content
<1>4. saved' \in [Files -> SUBSET JNotes] BY <1>1 DEF FlushLine, JsonlTypeOK
<1>5. /\ overtaken' = \/ overtaken \/ f # name
                      \/ \E u \in Threads : job[u].at = "copied" /\ job[u].file = f
  BY DEF FlushLine
<1> QED BY <1>1, <1>3, <1>4, <1>5 DEF FlushLine

\* The copy that a rewrite makes, with the note of the cache in it.
LEMMA CopyEffect ==
  ASSUME JsonlTypeOK, NEW t \in Threads, CopyLines(t)
  PROVE /\ job' \in [Threads -> Job] /\ \A u \in Threads \ {t} : job'[u] = job[u]
        /\ job[t].at = "locked" /\ job'[t].at = "copied"
        /\ job'[t].kept = saved[job[t].file] \cup {job[t].note}
        /\ job'[t].note = job[t].note /\ job'[t].file = job[t].file
        /\ \A m \in JNotes \ {job[t].note} : job'[t].copy[m] = lines[job[t].file][m]
<1> DEFINE f == job[t].file
           n == job[t].note
<1>1. job \in [Threads -> Job] /\ f \in Files /\ n \in JNotes BY DEF JsonlTypeOK, Job
<1>2. cache[n] + 1 \in 0..MaxVersion BY <1>1, JsonlConstants DEF CopyLines, JsonlTypeOK, Content
<1> DEFINE fresh == [lines[f] EXCEPT ![n] = cache[n] + 1]
           has == saved[f] \cup {n}
<1>3. fresh \in Content /\ \A m \in JNotes \ {n} : fresh[m] = lines[f][m]
  BY <1>1, <1>2 DEF JsonlTypeOK, Content
<1>4. has \in SUBSET JNotes BY <1>1 DEF JsonlTypeOK
<1>5. job[t].at = "locked" /\ job' = [job EXCEPT ![t].at = "copied", ![t].copy = fresh, ![t].kept = has]
  BY DEF CopyLines
<1> HIDE DEF fresh, has
<1>6. job'[t] = [job[t] EXCEPT !.at = "copied", !.copy = fresh, !.kept = has] BY <1>1, <1>5
<1>7. job'[t] \in Job /\ job'[t].at = "copied" /\ job'[t].kept = has /\ job'[t].copy = fresh
      /\ job'[t].note = job[t].note /\ job'[t].file = job[t].file
  <2>1. job[t] \in Job BY <1>1
  <2> QED BY <1>3, <1>4, <1>6, <2>1 DEF Job
<1>8. \A u \in Threads \ {t} : job'[u] = job[u] BY <1>1, <1>5
<1>9. job' \in [Threads -> Job] BY <1>1, <1>5, <1>6, <1>7
<1> QED BY <1>3, <1>5, <1>7, <1>8, <1>9 DEF has

\* The rename of the copy.
LEMMA RenameEffect ==
  ASSUME JsonlTypeOK, NEW t \in Threads, Rename(t),
         NEW f, f = job[t].file, NEW n, n = job[t].note, NEW fresh, fresh = job[t].copy
  PROVE /\ f \in Files /\ n \in JNotes /\ fresh \in Content /\ job[t].at = "copied"
        /\ name' = name + 1 /\ name' \in Files
        /\ lines' = [lines EXCEPT ![name + 1] = fresh] /\ lines' \in [Files -> Content]
        /\ saved' = [saved EXCEPT ![name + 1] = job[t].kept] /\ saved' \in [Files -> SUBSET JNotes]
        /\ cache' = [cache EXCEPT ![n] = fresh[n]] /\ cache' \in Content
        /\ overtaken' = (overtaken \/ f # name) /\ Finish(t) /\ Unlocked(f)
<1>1. f \in Files /\ n \in JNotes /\ fresh \in Content BY DEF JsonlTypeOK
<1>2. name' = name + 1 /\ name' \in Files BY JsonlRanges DEF JsonlTypeOK, Rename
<1>3. saved' \in [Files -> SUBSET JNotes] BY <1>2 DEF Rename, JsonlTypeOK
<1> QED BY <1>1, <1>2, <1>3 DEF Rename, JsonlTypeOK, Content

\* An access is noted in every file and in every copy.
LEMMA MarkEffect ==
  ASSUME JsonlTypeOK, NEW n \in JNotes, MarkAccess(n)
  PROVE /\ job' \in [Threads -> Job] /\ saved' \in [Files -> SUBSET JNotes]
        /\ \A f \in Files : saved'[f] = saved[f] \ {n}
        /\ \A u \in Threads : job'[u] = [job[u] EXCEPT !.kept = @ \ {n}]
        /\ \A u \in Threads : /\ job'[u].at = job[u].at /\ job'[u].file = job[u].file
                              /\ job'[u].note = job[u].note /\ job'[u].copy = job[u].copy
                              /\ job'[u].kept = job[u].kept \ {n}
<1>1. job \in [Threads -> Job] BY DEF JsonlTypeOK, Job
<1>2. saved' \in [Files -> SUBSET JNotes] /\ \A f \in Files : saved'[f] = saved[f] \ {n}
  BY DEF MarkAccess, JsonlTypeOK
<1>3. job' = [t \in Threads |-> [job[t] EXCEPT !.kept = @ \ {n}]] BY DEF MarkAccess
<1>4. ASSUME NEW u \in Threads
      PROVE /\ job'[u] \in Job /\ job'[u] = [job[u] EXCEPT !.kept = @ \ {n}]
            /\ job'[u].at = job[u].at /\ job'[u].file = job[u].file
            /\ job'[u].note = job[u].note /\ job'[u].copy = job[u].copy
            /\ job'[u].kept = job[u].kept \ {n}
  <2>1. job[u] \in Job /\ job'[u] = [job[u] EXCEPT !.kept = @ \ {n}] BY <1>1, <1>3
  <2> QED BY <2>1 DEF Job
<1>5. job' \in [Threads -> Job] BY <1>3, <1>4
<1> QED BY <1>2, <1>4, <1>5

\* Each step of the note store keeps the types.
LEMMA JsonlTypeStep == JsonlTypeOK /\ [JsonlNext]_jsonlVars => JsonlTypeOK'
<1> SUFFICES ASSUME JsonlTypeOK, [JsonlNext]_jsonlVars PROVE JsonlTypeOK'
  OBVIOUS
<1>1. CASE UNCHANGED jsonlVars BY <1>1 DEF jsonlVars, fileVars, accessVars, JsonlTypeOK
<1>2. ASSUME NEW t \in JThreads, NEW n \in JNotes, BeginWrite(t, n) PROVE JsonlTypeOK'
  <2>1. job' \in [Threads -> Job] BY <1>2, OpenEffect DEF BeginWrite, Threads
  <2> QED BY <1>2, <2>1 DEF BeginWrite, JsonlTypeOK, Job, fileVars, accessVars
<1>3. ASSUME NEW t \in Threads, NEW n \in JNotes, BeginRewrite(t, n) PROVE JsonlTypeOK'
  <2>1. job' \in [Threads -> Job] BY <1>3, OpenEffect DEF BeginRewrite
  <2> QED BY <1>3, <2>1 DEF BeginRewrite, JsonlTypeOK, Job, fileVars, accessVars
<1>4. ASSUME NEW t \in Threads, Lock(t) PROVE JsonlTypeOK'
  BY <1>4, LockEffect DEF Lock, JsonlTypeOK, Job, accessVars
<1>5. ASSUME NEW t \in Threads, FlushLine(t) PROVE JsonlTypeOK'
  <2>1. /\ lines' \in [Files -> Content] /\ cache' \in Content /\ saved' \in [Files -> SUBSET JNotes]
        /\ overtaken' \in BOOLEAN /\ Finish(t)
    BY <1>5, FlushEffect
  <2>2. job' \in [Threads -> Job] BY <2>1, FinishEffect
  <2>3. UNCHANGED <<name, holder, accessVars, faults>> BY <1>5 DEF FlushLine
  <2> QED BY <2>1, <2>2, <2>3 DEF JsonlTypeOK, Job, accessVars
<1>11. ASSUME NEW t \in Threads, BufferLine(t) PROVE JsonlTypeOK'
  <2>1. job' \in [Threads -> Job] BY <1>11, BufferEffect
  <2>2. holder' \in [Files -> Threads \cup {Nobody}]
    BY <1>11, UnlockEffect DEF BufferLine, JsonlTypeOK
  <2> QED BY <1>11, <2>1, <2>2 DEF BufferLine, JsonlTypeOK, Job, accessVars
<1>12. ASSUME NEW t \in Threads, LineRaises(t) PROVE JsonlTypeOK'
  <2>1. job' \in [Threads -> Job] BY <1>12, FinishEffect DEF LineRaises
  <2>2. faults' \in 0..MaxFaults BY <1>12, JsonlConstants DEF LineRaises, JsonlTypeOK
  <2> QED BY <1>12, <2>1, <2>2 DEF LineRaises, JsonlTypeOK, Job, fileVars, accessVars
<1>6. ASSUME NEW t \in Threads, CopyLines(t) PROVE JsonlTypeOK'
  <2>1. job' \in [Threads -> Job] BY <1>6, CopyEffect
  <2> QED BY <1>6, <2>1 DEF CopyLines, JsonlTypeOK, Job, fileVars, accessVars
<1>7. ASSUME NEW t \in Threads, Rename(t) PROVE JsonlTypeOK'
  <2>1. /\ name' \in Files /\ lines' \in [Files -> Content] /\ cache' \in Content
        /\ saved' \in [Files -> SUBSET JNotes]
        /\ Finish(t) /\ Unlocked(job[t].file) /\ job[t].file \in Files
    BY <1>7, RenameEffect
  <2>2. job' \in [Threads -> Job] /\ holder' \in [Files -> Threads \cup {Nobody}]
    BY <2>1, FinishEffect, UnlockEffect
  <2>3. overtaken' \in BOOLEAN BY <1>7 DEF Rename
  <2>4. batch' \subseteq batch BY <1>7 DEF Rename
  <2>5. UNCHANGED <<dirty, flushing, slipped, faults>> BY <1>7 DEF Rename
  <2> QED BY <2>1, <2>2, <2>3, <2>4, <2>5 DEF JsonlTypeOK, Job
<1>8. ASSUME NEW t \in Threads, RewriteRaises(t) PROVE JsonlTypeOK'
  <2>1. Finish(t) /\ Unlocked(job[t].file) /\ job[t].file \in Files
    BY <1>8 DEF RewriteRaises, JsonlTypeOK
  <2>2. job' \in [Threads -> Job] /\ holder' \in [Files -> Threads \cup {Nobody}]
    BY <2>1, FinishEffect, UnlockEffect
  <2>3. slipped' \in BOOLEAN /\ batch' \subseteq JNotes BY <1>8 DEF RewriteRaises, JsonlTypeOK
  <2>4. faults' \in 0..MaxFaults BY <1>8, JsonlConstants DEF RewriteRaises, JsonlTypeOK
  <2>5. UNCHANGED <<name, lines, saved, dirty, flushing, cache, overtaken>>
    BY <1>8 DEF RewriteRaises
  <2> QED BY <2>2, <2>3, <2>4, <2>5 DEF JsonlTypeOK, Job
<1>9. ASSUME NEW n \in JNotes, MarkAccess(n) PROVE JsonlTypeOK'
  <2>1. job' \in [Threads -> Job] /\ saved' \in [Files -> SUBSET JNotes] BY <1>9, MarkEffect
  <2>2. slipped' \in BOOLEAN BY <1>9 DEF MarkAccess
  <2> QED BY <1>9, <2>1, <2>2 DEF MarkAccess, JsonlTypeOK, Job, fileVars
<1>10. CASE FlushCopy \/ FlushClear \/ FlushEnd
  BY <1>10 DEF FlushCopy, FlushClear, FlushEnd, JsonlTypeOK, fileVars
<1> QED BY <1>1, <1>2, <1>3, <1>4, <1>5, <1>6, <1>7, <1>8, <1>9, <1>10, <1>11, <1>12
        DEF JsonlNext, FlushNote, Threads

-----------------------------------------------------------------------------
(* The note store: the file and the cache *)

Active(t) == job[t].at # "idle"
HoldsLock(t) == job[t].at \in {"locked", "copied"}

\* A call works on a file that has been created; a rewrite holds its lock from Lock() to the end,
\* an append until its line is in the buffer.
LockInv ==
  /\ \A t \in Threads : Active(t) => job[t].file <= name
  /\ \A t \in Threads : HoldsLock(t) => holder[job[t].file] = t

\* A copy of the current file differs from the cache in the note of its call only.
CopyInv ==
  \A t \in Threads : job[t].at = "copied" /\ job[t].file = name /\ ~overtaken =>
    \A m \in JNotes \ {job[t].note} : job[t].copy[m] = cache[m]

DiskInv == JsonlTypeOK /\ LockInv /\ CopyInv /\ DiskCurrentUnlessOvertaken

\* No two calls hold the lock of one file.
LEMMA OneHolder ==
  ASSUME LockInv, NEW t \in Threads, NEW u \in Threads, HoldsLock(t), HoldsLock(u),
         job[t].file = job[u].file
  PROVE t = u
BY DEF LockInv

\* Nobody holds the lock of a file that has just got the name.
LEMMA NewFileFree ==
  ASSUME JsonlTypeOK, LockInv, NEW t \in Threads, Active(t)
  PROVE job[t].file # name + 1
BY DEF JsonlTypeOK, LockInv, Files

\* Each step keeps the locks.
LEMMA LockStep == DiskInv /\ [JsonlNext]_jsonlVars => LockInv'
<1> SUFFICES ASSUME DiskInv, [JsonlNext]_jsonlVars PROVE LockInv'
  OBVIOUS
<1>0. JsonlTypeOK /\ LockInv BY DEF DiskInv
<1> USE DEF Active, HoldsLock
<1>1. CASE UNCHANGED jsonlVars BY <1>0, <1>1 DEF jsonlVars, fileVars, LockInv
<1>2. ASSUME NEW t \in Threads, NEW op \in {"append", "rewrite"}, NEW n \in JNotes,
             Open(t, op, n), UNCHANGED fileVars
      PROVE LockInv'
  <2>1. name <= name BY <1>0 DEF JsonlTypeOK, Files
  <2> QED BY <1>0, <1>2, <2>1, OpenEffect DEF LockInv, fileVars
<1>3. ASSUME NEW t \in Threads, Lock(t) PROVE LockInv'
  <2>1. UNCHANGED name BY <1>3 DEF Lock
  <2>2. \A u \in Threads : HoldsLock(u) => job[u].file # job[t].file
    BY <1>0, <1>3, LockEffect, JsonlConstants DEF LockInv
  <2>3. job'[t].at = "locked" /\ job'[t].file = job[t].file BY <1>0, <1>3, LockEffect
  <2>4. \A u \in Threads : job[u].file \in Files BY <1>0 DEF JsonlTypeOK
  <2> QED BY <1>0, <1>3, <2>1, <2>2, <2>3, <2>4, LockEffect DEF LockInv
<1>4. ASSUME NEW t \in Threads, HoldsLock(t), Finish(t), Unlocked(job[t].file), name' \in {name, name + 1}
      PROVE LockInv'
  <2>1. \A u \in Threads : job[u].file \in Files BY <1>0 DEF JsonlTypeOK
  <2>2. job'[t].at = "idle" /\ \A u \in Threads \ {t} : job'[u] = job[u] BY <1>0, <1>4, FinishEffect
  <2>3. \A u \in Threads \ {t} : HoldsLock(u) => job[u].file # job[t].file BY <1>0, <1>4, OneHolder
  <2>4. \A f \in Files \ {job[t].file} : holder'[f] = holder[f] BY <1>0, <1>4, <2>1, UnlockEffect
  <2>5. \A u \in Threads : Active(u) => job[u].file <= name'
    BY <1>0, <1>4, <2>1 DEF LockInv, JsonlTypeOK, Files
  <2> QED BY <1>0, <2>1, <2>2, <2>3, <2>4, <2>5 DEF LockInv
<1>5. ASSUME NEW t \in Threads, FlushLine(t) \/ LineRaises(t) PROVE LockInv'
  <2>1. Finish(t) /\ UNCHANGED <<name, holder>> BY <1>5 DEF FlushLine, LineRaises, fileVars
  <2> QED BY <1>0, <2>1, FinishEffect DEF LockInv
<1>10. ASSUME NEW t \in Threads, BufferLine(t) PROVE LockInv'
  <2>1. job[t].at = "locked" /\ Unlocked(job[t].file) /\ name' = name BY <1>10 DEF BufferLine
  <2>2. \A u \in Threads : job[u].file \in Files BY <1>0 DEF JsonlTypeOK
  <2>3. job'[t].at = "buffered" /\ job'[t].file = job[t].file /\ \A u \in Threads \ {t} : job'[u] = job[u]
    BY <1>0, <1>10, BufferEffect
  <2>4. \A u \in Threads \ {t} : HoldsLock(u) => job[u].file # job[t].file
    BY <1>0, <2>1, OneHolder
  <2>5. \A f \in Files \ {job[t].file} : holder'[f] = holder[f] BY <1>0, <2>1, <2>2, UnlockEffect
  <2> QED BY <1>0, <2>1, <2>2, <2>3, <2>4, <2>5 DEF LockInv
<1>6. ASSUME NEW t \in Threads, CopyLines(t) PROVE LockInv'
  <2>1. UNCHANGED fileVars BY <1>6 DEF CopyLines
  <2>2. job[t].at = "locked" /\ job'[t].at = "copied" /\ job'[t].file = job[t].file
    BY <1>0, <1>6, CopyEffect
  <2>3. \A u \in Threads \ {t} : job'[u] = job[u] BY <1>0, <1>6, CopyEffect
  <2> QED BY <1>0, <2>1, <2>2, <2>3 DEF LockInv, fileVars
<1>7. ASSUME NEW t \in Threads, Rename(t) \/ RewriteRaises(t) PROVE LockInv'
  <2>1. job[t].at = "copied" /\ Finish(t) /\ Unlocked(job[t].file) /\ name' \in {name, name + 1}
    BY <1>7 DEF Rename, RewriteRaises
  <2> QED BY <1>4, <2>1
<1>8. ASSUME NEW n \in JNotes, MarkAccess(n) PROVE LockInv'
  <2>1. UNCHANGED <<name, holder>> BY <1>8 DEF MarkAccess
  <2>2. \A u \in Threads : job'[u].at = job[u].at /\ job'[u].file = job[u].file
    BY <1>0, <1>8, MarkEffect
  <2> QED BY <1>0, <2>1, <2>2 DEF LockInv
<1>9. CASE FlushCopy \/ FlushClear \/ FlushEnd
  BY <1>0, <1>9 DEF FlushCopy, FlushClear, FlushEnd, fileVars, LockInv
<1> QED BY <1>1, <1>2, <1>3, <1>5, <1>6, <1>7, <1>8, <1>9, <1>10
        DEF JsonlNext, BeginWrite, BeginRewrite, FlushNote, Threads

\* While a rewrite holds a copy of the current file no other call changes the file or the cache
\* and stays unseen: it would have to hold the same lock, to be overtaken, or to overtake.
LEMMA DiskStep == DiskInv /\ [JsonlNext]_jsonlVars => CopyInv' /\ DiskCurrentUnlessOvertaken'
<1> SUFFICES ASSUME DiskInv, [JsonlNext]_jsonlVars PROVE CopyInv' /\ DiskCurrentUnlessOvertaken'
  OBVIOUS
<1>0. JsonlTypeOK /\ LockInv /\ CopyInv /\ DiskCurrentUnlessOvertaken BY DEF DiskInv
<1>1. ASSUME UNCHANGED <<name, lines, cache, overtaken>>,
             \A u \in Threads : job'[u].at = "copied" =>
               /\ job[u].at = "copied" /\ job'[u].file = job[u].file
               /\ job'[u].note = job[u].note /\ job'[u].copy = job[u].copy
      PROVE CopyInv' /\ DiskCurrentUnlessOvertaken'
  BY <1>0, <1>1 DEF CopyInv, DiskCurrentUnlessOvertaken
<1>2. ASSUME NEW t \in Threads, NEW op \in {"append", "rewrite"}, NEW n \in JNotes,
             Open(t, op, n), UNCHANGED <<fileVars, cache, overtaken>>
      PROVE CopyInv' /\ DiskCurrentUnlessOvertaken'
  BY <1>0, <1>1, <1>2, OpenEffect DEF fileVars
<1>3. ASSUME NEW t \in Threads, Lock(t) PROVE CopyInv' /\ DiskCurrentUnlessOvertaken'
  <2>1. UNCHANGED <<name, lines, cache, overtaken>> BY <1>3 DEF Lock
  <2>2. job'[t].at = "locked" BY <1>0, <1>3, LockEffect
  <2> QED BY <1>0, <1>1, <1>3, <2>1, <2>2, LockEffect
<1>4. ASSUME NEW t \in Threads, FlushLine(t) PROVE CopyInv' /\ DiskCurrentUnlessOvertaken'
  <2> DEFINE f == job[t].file
             n == job[t].note
  <2>1. /\ f \in Files /\ n \in JNotes
        /\ lines' = [lines EXCEPT ![f][n] = 1]
        /\ cache' = [cache EXCEPT ![n] = 1] /\ Finish(t)
        /\ ~overtaken' => /\ ~overtaken /\ f = name
                          /\ \A u \in Threads : job[u].at = "copied" => job[u].file # name
    BY <1>0, <1>4, FlushEffect
  <2>2. name' = name /\ name \in Files BY <1>0, <1>4 DEF FlushLine, JsonlTypeOK
  <2>3. job'[t].at = "idle" /\ \A u \in Threads \ {t} : job'[u] = job[u]
    BY <1>0, <2>1, FinishEffect
  <2>4. CopyInv' BY <2>1, <2>2, <2>3 DEF CopyInv
  <2>5. ~overtaken' => lines'[name] = cache'
    BY <1>0, <2>1, <2>2 DEF DiskCurrentUnlessOvertaken, JsonlTypeOK, Content
  <2> QED BY <2>2, <2>4, <2>5 DEF DiskCurrentUnlessOvertaken
<1>10. ASSUME NEW t \in Threads, BufferLine(t) PROVE CopyInv' /\ DiskCurrentUnlessOvertaken'
  <2>1. UNCHANGED <<name, lines, cache, overtaken>> BY <1>10 DEF BufferLine
  <2>2. job'[t].at = "buffered" /\ \A u \in Threads \ {t} : job'[u] = job[u] BY <1>0, <1>10, BufferEffect
  <2> QED BY <1>1, <2>1, <2>2
<1>11. ASSUME NEW t \in Threads, LineRaises(t) PROVE CopyInv' /\ DiskCurrentUnlessOvertaken'
  <2>1. Finish(t) /\ UNCHANGED <<name, lines, cache, overtaken>> BY <1>11 DEF LineRaises, fileVars
  <2> QED BY <1>0, <1>1, <2>1, FinishEffect
<1>5. ASSUME NEW t \in Threads, CopyLines(t) PROVE CopyInv' /\ DiskCurrentUnlessOvertaken'
  <2>1. UNCHANGED <<name, lines, cache, overtaken>> BY <1>5 DEF CopyLines, fileVars
  <2>2. ~overtaken /\ job'[t].file = name =>
          \A m \in JNotes \ {job'[t].note} : job'[t].copy[m] = cache[m]
    <3>1. job'[t].note = job[t].note /\ job'[t].file = job[t].file BY <1>0, <1>5, CopyEffect
    <3>2. \A m \in JNotes \ {job[t].note} : job'[t].copy[m] = lines[job[t].file][m]
      BY <1>0, <1>5, CopyEffect
    <3> QED BY <1>0, <3>1, <3>2 DEF DiskCurrentUnlessOvertaken
  <2>3. \A u \in Threads \ {t} : job'[u] = job[u] BY <1>0, <1>5, CopyEffect
  <2> QED BY <1>0, <2>1, <2>2, <2>3 DEF CopyInv, DiskCurrentUnlessOvertaken
<1>6. ASSUME NEW t \in Threads, Rename(t) PROVE CopyInv' /\ DiskCurrentUnlessOvertaken'
  <2> DEFINE f == job[t].file
             n == job[t].note
             fresh == job[t].copy
  <2>1. /\ f \in Files /\ n \in JNotes /\ fresh \in Content /\ job[t].at = "copied"
        /\ name' = name + 1 /\ name' \in Files
        /\ lines' = [lines EXCEPT ![name + 1] = fresh]
        /\ cache' = [cache EXCEPT ![n] = fresh[n]] /\ cache' \in Content
        /\ overtaken' = (overtaken \/ f # name) /\ Finish(t)
    BY <1>0, <1>6, RenameEffect
  <2>2. job'[t].at = "idle" /\ \A u \in Threads \ {t} : job'[u] = job[u] BY <1>0, <2>1, FinishEffect
  <2>3. CopyInv'
    <3>1. \A u \in Threads : Active(u) => job[u].file # name' BY <1>0, <2>1, NewFileFree
    <3> QED BY <2>2, <3>1 DEF CopyInv, Active
  <2>4. ASSUME ~overtaken' PROVE lines'[name'] = cache'
    <3>1. ~overtaken /\ f = name BY <2>1, <2>4
    <3>2. \A m \in JNotes \ {n} : fresh[m] = cache[m] BY <1>0, <2>1, <3>1 DEF CopyInv
    <3>3. cache \in Content BY <1>0 DEF JsonlTypeOK
    <3>4. lines'[name'] = fresh BY <1>0, <2>1 DEF JsonlTypeOK
    <3> QED BY <2>1, <3>2, <3>3, <3>4 DEF Content
  <2> QED BY <2>3, <2>4 DEF DiskCurrentUnlessOvertaken
<1>7. ASSUME NEW t \in Threads, RewriteRaises(t) PROVE CopyInv' /\ DiskCurrentUnlessOvertaken'
  <2>1. Finish(t) /\ UNCHANGED <<name, lines, cache, overtaken>> BY <1>7 DEF RewriteRaises
  <2> QED BY <1>0, <1>1, <2>1, FinishEffect
<1>8. ASSUME NEW n \in JNotes, MarkAccess(n) PROVE CopyInv' /\ DiskCurrentUnlessOvertaken'
  <2>1. UNCHANGED <<name, lines, cache, overtaken>> BY <1>8 DEF MarkAccess, fileVars
  <2>2. \A u \in Threads : /\ job'[u].at = job[u].at /\ job'[u].file = job[u].file
                           /\ job'[u].note = job[u].note /\ job'[u].copy = job[u].copy
    BY <1>0, <1>8, MarkEffect
  <2> QED BY <1>1, <2>1, <2>2
<1>9. CASE FlushCopy \/ FlushClear \/ FlushEnd \/ UNCHANGED jsonlVars
  BY <1>1, <1>9 DEF FlushCopy, FlushClear, FlushEnd, jsonlVars, fileVars
<1> QED BY <1>2, <1>3, <1>4, <1>5, <1>6, <1>7, <1>8, <1>9, <1>10, <1>11
        DEF JsonlNext, BeginWrite, BeginRewrite, FlushNote, Threads

\* The empty store is of its type, with every thread at rest.
LEMMA JsonlInitTypes == JsonlInit => JsonlTypeOK /\ \A t \in Threads : job[t].at = "idle"
<1> SUFFICES ASSUME JsonlInit PROVE JsonlTypeOK /\ \A t \in Threads : job[t].at = "idle"
  OBVIOUS
<1> DEFINE n0 == CHOOSE n \in JNotes : TRUE
<1>1. n0 \in JNotes BY JsonlConstants
<1>2. NoJob(n0) \in Job /\ NoJob(n0).at = "idle" BY <1>1, JsonlRanges DEF NoJob
<1>3. job = [t \in Threads |-> NoJob(n0)] BY DEF JsonlInit
<1> HIDE DEF n0
<1>4. job \in [Threads -> Job] /\ \A t \in Threads : job[t].at = "idle" BY <1>2, <1>3
<1>5. overtaken \in BOOLEAN /\ slipped \in BOOLEAN BY DEF JsonlInit
<1>6. 1 \in Files /\ [m \in JNotes |-> 0] \in Content BY JsonlRanges
<1>7. faults \in 0..MaxFaults BY JsonlConstants DEF JsonlInit
<1> QED BY <1>4, <1>5, <1>6, <1>7 DEF JsonlInit, JsonlTypeOK, Job

\* The invariant of the rewrites, from the empty store on.
LEMMA DiskInductive == JsonlSpec => []DiskInv
<1>1. JsonlInit => DiskInv
  <2> SUFFICES ASSUME JsonlInit PROVE DiskInv
    OBVIOUS
  <2>1. JsonlTypeOK /\ \A t \in Threads : job[t].at = "idle" BY JsonlInitTypes
  <2>2. lines[name] = cache BY <2>1 DEF JsonlInit, JsonlTypeOK
  <2> QED BY <2>1, <2>2 DEF DiskInv, LockInv, Active, HoldsLock, CopyInv, DiskCurrentUnlessOvertaken
<1>2. DiskInv /\ [JsonlNext]_jsonlVars => DiskInv' BY JsonlTypeStep, LockStep, DiskStep DEF DiskInv
<1> QED BY <1>1, <1>2, PTL DEF JsonlSpec

\* The files, the locks and the calls of the note store keep their shape.
THEOREM JsonlTypeCorrect == JsonlSpec => []JsonlTypeOK
BY DiskInductive, PTL DEF DiskInv

\* The file has every note as the process has it, whatever calls run beside each other, until one
\* of them writes through a file that has lost the name (memory_store.py:357), or flushes its line
\* to one that a rewrite has copied (:179-182).
THEOREM DiskCurrentCorrect == JsonlSpec => []DiskCurrentUnlessOvertaken
BY DiskInductive, PTL DEF DiskInv

-----------------------------------------------------------------------------
(* The note store: access counts *)

\* Where _flush_access is says what its copy of the ids holds; a count that has grown under its
\* rewrite is in the set again.
FlushInv ==
  /\ flushing = "no" => batch = {}
  /\ flushing # "writing" => job[Flusher].at = "idle"
  /\ flushing = "copied" /\ ~slipped => dirty \subseteq batch
  /\ job[Flusher].at = "copied" => job[Flusher].note \in job[Flusher].kept \cup dirty

\* A copy of the current file has every count the file has, and the count of its own note or
\* that note still to be written.
KeptInv ==
  \A t \in Threads : job[t].at = "copied" /\ job[t].file = name /\ ~overtaken =>
    /\ saved[name] \subseteq job[t].kept
    /\ ~slipped => job[t].note \in job[t].kept \cup dirty \cup batch

AccessInv == DiskInv /\ FlushInv /\ KeptInv /\ UnsavedAccessIsPending

\* Each step keeps what the flush holds.
LEMMA FlushStep == AccessInv /\ [JsonlNext]_jsonlVars => FlushInv'
<1> SUFFICES ASSUME AccessInv, [JsonlNext]_jsonlVars PROVE FlushInv'
  OBVIOUS
<1>0. JsonlTypeOK /\ FlushInv BY DEF AccessInv, DiskInv
<1>f. Flusher \in Threads /\ Flusher \notin JThreads BY JsonlConstants DEF Threads
<1>1. ASSUME UNCHANGED accessVars,
             job'[Flusher].at = "idle" \/ job'[Flusher] = job[Flusher]
      PROVE FlushInv'
  BY <1>0, <1>1 DEF FlushInv, accessVars
<1>2. ASSUME NEW t \in JThreads, NEW n \in JNotes, BeginWrite(t, n) \/ BeginRewrite(t, n)
      PROVE FlushInv'
  <2>1. t \in Threads /\ t # Flusher BY <1>f DEF Threads
  <2> QED BY <1>0, <1>f, <1>1, <1>2, <2>1, OpenEffect DEF BeginWrite, BeginRewrite
<1>3. ASSUME NEW n \in JNotes, FlushNote(n) PROVE FlushInv'
  <2>1. UNCHANGED accessVars /\ flushing = "writing" BY <1>3 DEF FlushNote, BeginRewrite
  <2>2. job'[Flusher].at = "opened" BY <1>0, <1>f, <1>3, OpenEffect DEF FlushNote, BeginRewrite
  <2> QED BY <1>0, <2>1, <2>2 DEF FlushInv, accessVars
<1>4. ASSUME NEW t \in Threads, UNCHANGED accessVars, job[t].at # "idle",
             \A u \in Threads \ {t} : job'[u] = job[u],
             job'[t].at = "copied" => job'[t].note \in job'[t].kept
      PROVE FlushInv'
  <2>1. CASE t # Flusher BY <1>f, <1>1, <1>4, <2>1
  <2>2. CASE t = Flusher BY <1>0, <1>4, <2>2 DEF FlushInv, accessVars
  <2> QED BY <2>1, <2>2
<1>5. ASSUME NEW t \in Threads, Lock(t) PROVE FlushInv'
  <2>1. UNCHANGED accessVars BY <1>5 DEF Lock
  <2> QED BY <1>0, <1>4, <1>5, <2>1, LockEffect
<1>6. ASSUME NEW t \in Threads, BufferLine(t) PROVE FlushInv'
  <2>1. UNCHANGED accessVars BY <1>6 DEF BufferLine
  <2> QED BY <1>0, <1>4, <1>6, <2>1, BufferEffect
<1>7. ASSUME NEW t \in Threads, FlushLine(t) \/ LineRaises(t) PROVE FlushInv'
  <2>1. UNCHANGED accessVars /\ Finish(t) BY <1>7 DEF FlushLine, LineRaises
  <2> QED BY <1>0, <1>f, <1>1, <2>1, FinishEffect
<1>8. ASSUME NEW t \in Threads, CopyLines(t) PROVE FlushInv'
  <2>1. UNCHANGED accessVars BY <1>8 DEF CopyLines
  <2>2. /\ job[t].at = "locked" /\ job'[t].note \in job'[t].kept
        /\ \A u \in Threads \ {t} : job'[u] = job[u]
    BY <1>0, <1>8, CopyEffect
  <2> QED BY <1>4, <2>1, <2>2
<1>9. ASSUME NEW t \in Threads, Rename(t) \/ RewriteRaises(t) PROVE FlushInv'
  <2>1. Finish(t) /\ job[t].at = "copied" /\ UNCHANGED <<dirty, flushing>> BY <1>9 DEF Rename, RewriteRaises
  <2>2. job'[t].at = "idle" /\ \A u \in Threads \ {t} : job'[u] = job[u] BY <1>0, <2>1, FinishEffect
  <2>3. CASE t # Flusher
    <3>1. UNCHANGED accessVars BY <1>9, <2>1, <2>3 DEF Rename, RewriteRaises, accessVars
    <3> QED BY <1>f, <1>1, <2>2, <2>3, <3>1
  <2>4. CASE t = Flusher
    <3>1. flushing = "writing" BY <1>0, <2>1, <2>4 DEF FlushInv
    <3> QED BY <2>1, <2>2, <2>4, <3>1 DEF FlushInv
  <2> QED BY <2>3, <2>4
<1>10. ASSUME NEW n \in JNotes, MarkAccess(n) PROVE FlushInv'
  <2>1. /\ dirty' = dirty \cup {n}
        /\ slipped' = (slipped \/ (flushing = "copied" /\ n \notin batch))
        /\ UNCHANGED <<batch, flushing>>
    BY <1>10 DEF MarkAccess
  <2>2. /\ job'[Flusher].at = job[Flusher].at /\ job'[Flusher].note = job[Flusher].note
        /\ job'[Flusher].kept = job[Flusher].kept \ {n}
    BY <1>0, <1>f, <1>10, MarkEffect
  <2> QED BY <1>0, <2>1, <2>2 DEF FlushInv
<1>11. CASE FlushCopy \/ FlushClear \/ FlushEnd
  BY <1>0, <1>11 DEF FlushCopy, FlushClear, FlushEnd, FlushInv
<1>12. CASE UNCHANGED jsonlVars BY <1>1, <1>12 DEF jsonlVars
<1> QED BY <1>2, <1>3, <1>5, <1>6, <1>7, <1>8, <1>9, <1>10, <1>11, <1>12 DEF JsonlNext

\* The notes of the process whose count is not in the file.
Behind == {n \in JNotes : Stored(n)} \ saved[name]

\* Each step keeps a counted access in the set, in a flush's copy, or on the disk.
LEMMA AccessStep == AccessInv /\ [JsonlNext]_jsonlVars => KeptInv' /\ UnsavedAccessIsPending'
<1> SUFFICES ASSUME AccessInv, [JsonlNext]_jsonlVars PROVE KeptInv' /\ UnsavedAccessIsPending'
  OBVIOUS
<1>0. JsonlTypeOK /\ LockInv /\ FlushInv /\ KeptInv /\ UnsavedAccessIsPending BY DEF AccessInv, DiskInv
<1>f. Flusher \in Threads /\ Flusher \notin JThreads BY JsonlConstants DEF Threads
<1>1. ASSUME UNCHANGED <<name, saved, cache, overtaken, slipped>>,
             ~slipped => dirty \cup batch \subseteq dirty' \cup batch',
             \A u \in Threads : job'[u].at = "copied" => job'[u] = job[u]
      PROVE KeptInv' /\ UnsavedAccessIsPending'
  BY <1>0, <1>1 DEF KeptInv, UnsavedAccessIsPending, Stored
<1>2. ASSUME NEW t \in Threads, NEW op \in {"append", "rewrite"}, NEW n \in JNotes,
             Open(t, op, n), UNCHANGED <<fileVars, accessVars, cache, overtaken>>
      PROVE KeptInv' /\ UnsavedAccessIsPending'
  BY <1>0, <1>1, <1>2, OpenEffect DEF fileVars, accessVars
<1>3. ASSUME NEW t \in Threads, Lock(t) PROVE KeptInv' /\ UnsavedAccessIsPending'
  <2>1. UNCHANGED <<name, saved, accessVars, cache, overtaken>> BY <1>3 DEF Lock
  <2> QED BY <1>0, <1>1, <1>3, <2>1, LockEffect DEF accessVars
<1>4. ASSUME NEW t \in Threads, BufferLine(t) PROVE KeptInv' /\ UnsavedAccessIsPending'
  <2>1. UNCHANGED <<name, saved, accessVars, cache, overtaken>> BY <1>4 DEF BufferLine
  <2> QED BY <1>0, <1>1, <1>4, <2>1, BufferEffect DEF accessVars
<1>5. ASSUME NEW t \in Threads, LineRaises(t) PROVE KeptInv' /\ UnsavedAccessIsPending'
  <2>1. Finish(t) /\ UNCHANGED <<fileVars, accessVars, cache, overtaken>> BY <1>5 DEF LineRaises
  <2> QED BY <1>0, <1>1, <2>1, FinishEffect DEF fileVars, accessVars
<1>6. ASSUME NEW t \in Threads, FlushLine(t) PROVE KeptInv' /\ UnsavedAccessIsPending'
  <2> DEFINE f == job[t].file
             n == job[t].note
  <2>1. /\ f \in Files /\ n \in JNotes /\ Finish(t)
        /\ saved' = [saved EXCEPT ![f] = @ \cup {n}]
        /\ cache' = [cache EXCEPT ![n] = 1]
        /\ ~overtaken' => /\ ~overtaken /\ f = name
                          /\ \A u \in Threads : job[u].at = "copied" => job[u].file # name
    BY <1>0, <1>6, FlushEffect
  <2>2. name' = name /\ name \in Files /\ UNCHANGED accessVars BY <1>0, <1>6 DEF FlushLine, JsonlTypeOK
  <2>3. job'[t].at = "idle" /\ \A u \in Threads \ {t} : job'[u] = job[u] BY <1>0, <2>1, FinishEffect
  <2>4. KeptInv' BY <2>1, <2>2, <2>3 DEF KeptInv
  <2>5. ~overtaken' => Behind' \subseteq Behind
    <3>1. SUFFICES ASSUME ~overtaken', NEW m \in JNotes, Stored(m)', m \notin saved'[name']
                   PROVE Stored(m) /\ m \notin saved[name]
      BY DEF Behind
    <3>2. saved'[name'] = saved[name] \cup {n}
      BY <1>0, <2>1, <2>2, <3>1 DEF JsonlTypeOK
    <3>3. m # n BY <3>1, <3>2
    <3>4. cache'[m] = cache[m] BY <1>0, <2>1, <3>3 DEF JsonlTypeOK, Content
    <3> QED BY <3>1, <3>2, <3>4 DEF Stored
  <2> QED BY <1>0, <2>1, <2>2, <2>4, <2>5 DEF UnsavedAccessIsPending, Behind, accessVars
<1>7. ASSUME NEW t \in Threads, CopyLines(t) PROVE KeptInv' /\ UnsavedAccessIsPending'
  <2>1. UNCHANGED <<fileVars, accessVars, cache, overtaken>> BY <1>7 DEF CopyLines
  <2>2. /\ job'[t].kept = saved[job[t].file] \cup {job[t].note}
        /\ job'[t].note = job[t].note /\ job'[t].file = job[t].file
        /\ \A u \in Threads \ {t} : job'[u] = job[u]
    BY <1>0, <1>7, CopyEffect
  <2>3. KeptInv' BY <1>0, <2>1, <2>2 DEF KeptInv, fileVars, accessVars
  <2> QED BY <1>0, <2>1, <2>3 DEF UnsavedAccessIsPending, Stored, fileVars, accessVars
<1>8. ASSUME NEW t \in Threads, Rename(t) PROVE KeptInv' /\ UnsavedAccessIsPending'
  <2> DEFINE f == job[t].file
             n == job[t].note
             fresh == job[t].copy
  <2>1. /\ f \in Files /\ n \in JNotes /\ job[t].at = "copied" /\ Finish(t)
        /\ name' = name + 1 /\ name' \in Files
        /\ saved' = [saved EXCEPT ![name + 1] = job[t].kept]
        /\ cache' = [cache EXCEPT ![n] = fresh[n]]
        /\ overtaken' = (overtaken \/ f # name)
    BY <1>0, <1>8, RenameEffect
  <2>2. /\ batch' = IF t = Flusher THEN batch \ {n} ELSE batch
        /\ UNCHANGED <<dirty, slipped>>
    BY <1>8 DEF Rename
  <2>3. job'[t].at = "idle" /\ \A u \in Threads \ {t} : job'[u] = job[u] BY <1>0, <2>1, FinishEffect
  <2>4. KeptInv'
    <3>1. \A u \in Threads : Active(u) => job[u].file # name' BY <1>0, <2>1, NewFileFree
    <3> QED BY <2>3, <3>1 DEF KeptInv, Active
  <2>5. ASSUME ~slipped', ~overtaken' PROVE Behind' \subseteq dirty' \cup batch'
    <3>1. /\ ~slipped /\ ~overtaken /\ f = name /\ saved[name] \subseteq job[t].kept
          /\ n \in job[t].kept \cup dirty \cup batch
      BY <1>0, <2>1, <2>2, <2>5 DEF KeptInv
    <3>2. n \in job[t].kept \cup dirty' \cup batch'
      <4>1. t = Flusher => n \in job[t].kept \cup dirty BY <1>0, <2>1 DEF FlushInv
      <4> QED BY <2>2, <3>1, <4>1
    <3>3. saved'[name'] = job[t].kept BY <1>0, <2>1 DEF JsonlTypeOK
    <3>4. SUFFICES ASSUME NEW m \in JNotes, Stored(m)', m \notin saved'[name'], m # n
                   PROVE m \in dirty' \cup batch'
      BY <3>2, <3>3 DEF Behind
    <3>5. Stored(m) /\ m \notin saved[name]
      BY <1>0, <2>1, <3>1, <3>3, <3>4 DEF Stored, JsonlTypeOK, Content
    <3>6. m \in dirty \cup batch BY <1>0, <3>1, <3>5 DEF UnsavedAccessIsPending
    <3> QED BY <2>2, <3>4, <3>6
  <2> QED BY <2>4, <2>5 DEF UnsavedAccessIsPending, Behind
<1>9. ASSUME NEW t \in Threads, RewriteRaises(t) PROVE KeptInv' /\ UnsavedAccessIsPending'
  <2>1. Finish(t) /\ UNCHANGED <<name, saved, cache, overtaken, dirty>> BY <1>9 DEF RewriteRaises
  <2>2. job'[t].at = "idle" /\ \A u \in Threads \ {t} : job'[u] = job[u] BY <1>0, <2>1, FinishEffect
  <2>3. CASE t # Flusher
    <3>1. UNCHANGED <<batch, slipped>> BY <1>9, <2>3 DEF RewriteRaises
    <3> QED BY <1>1, <2>1, <2>2, <3>1
  <2>4. CASE t = Flusher
    <3>1. slipped' = TRUE BY <1>9, <2>4 DEF RewriteRaises
    <3> QED BY <1>0, <2>1, <2>2, <3>1 DEF KeptInv, UnsavedAccessIsPending
  <2> QED BY <2>3, <2>4
<1>10. ASSUME NEW n \in JNotes, MarkAccess(n) PROVE KeptInv' /\ UnsavedAccessIsPending'
  <2>1. /\ dirty' = dirty \cup {n} /\ (~slipped' => ~slipped)
        /\ UNCHANGED <<name, batch, cache, overtaken>> /\ name \in Files
    BY <1>0, <1>10 DEF MarkAccess, JsonlTypeOK
  <2>2. saved'[name] = saved[name] \ {n} BY <1>0, <1>10, <2>1, MarkEffect
  <2>3. \A u \in Threads : /\ job'[u].at = job[u].at /\ job'[u].file = job[u].file
                           /\ job'[u].note = job[u].note /\ job'[u].kept = job[u].kept \ {n}
    BY <1>0, <1>10, MarkEffect
  <2>4. KeptInv'
    <3>1. SUFFICES ASSUME NEW u \in Threads, job'[u].at = "copied", job'[u].file = name, ~overtaken
                   PROVE /\ saved'[name] \subseteq job'[u].kept
                         /\ ~slipped' => job'[u].note \in job'[u].kept \cup dirty' \cup batch'
      BY <2>1 DEF KeptInv
    <3>2. /\ saved[name] \subseteq job[u].kept
          /\ ~slipped => job[u].note \in job[u].kept \cup dirty \cup batch
      BY <1>0, <2>3, <3>1 DEF KeptInv
    <3> QED BY <2>1, <2>2, <2>3, <3>2
  <2>5. UnsavedAccessIsPending'
    <3>1. Behind' \subseteq Behind \cup {n} BY <2>1, <2>2 DEF Behind, Stored
    <3>2. ~slipped /\ ~overtaken => Behind \subseteq dirty \cup batch
      BY <1>0 DEF UnsavedAccessIsPending, Behind
    <3>3. ~slipped' /\ ~overtaken' => Behind' \subseteq dirty' \cup batch' BY <2>1, <3>1, <3>2
    <3> QED BY <3>3 DEF UnsavedAccessIsPending, Behind
  <2> QED BY <2>4, <2>5
<1>11. CASE FlushCopy \/ FlushClear \/ FlushEnd
  <2>1. UNCHANGED <<name, saved, cache, overtaken, slipped, job>>
    BY <1>11 DEF FlushCopy, FlushClear, FlushEnd, fileVars
  <2>2. ~slipped => dirty \cup batch \subseteq dirty' \cup batch'
    BY <1>0, <1>11 DEF FlushCopy, FlushClear, FlushEnd, FlushInv
  <2> QED BY <1>1, <2>1, <2>2
<1>12. CASE UNCHANGED jsonlVars BY <1>1, <1>12 DEF jsonlVars, fileVars, accessVars
<1> QED BY <1>2, <1>3, <1>4, <1>5, <1>6, <1>7, <1>8, <1>9, <1>10, <1>11, <1>12, <1>f
        DEF JsonlNext, BeginWrite, BeginRewrite, FlushNote, Threads

\* An access count that is not in the file is still to be written, but for the window between
\* copy() and clear(), for a batch whose rewrite raised (memory_store.py:426-440), and for a
\* rewrite from lines that were no longer the file's, which puts older counts back.
THEOREM UnsavedAccessCorrect == JsonlSpec => []UnsavedAccessIsPending
<1>1. JsonlInit => FlushInv /\ KeptInv /\ UnsavedAccessIsPending
  <2> SUFFICES ASSUME JsonlInit PROVE FlushInv /\ KeptInv /\ UnsavedAccessIsPending
    OBVIOUS
  <2>1. \A t \in Threads : job[t].at = "idle" BY JsonlInitTypes
  <2>2. \A n \in JNotes : ~Stored(n) BY DEF JsonlInit, Stored
  <2> QED BY <2>1, <2>2 DEF FlushInv, KeptInv, UnsavedAccessIsPending, JsonlInit, Threads
<1>2. AccessInv /\ [JsonlNext]_jsonlVars => (FlushInv /\ KeptInv /\ UnsavedAccessIsPending)'
  BY FlushStep, AccessStep
<1> QED BY <1>1, <1>2, DiskInductive, PTL DEF JsonlSpec, AccessInv

-----------------------------------------------------------------------------
(* The knowledge graph and its log *)

\* A line of a log.
LEMMA LineTypes ==
  ASSUME NEW l \in Seq(LogLine)
  PROVE \A i \in DOMAIN l : l[i].key \in Keys /\ l[i].edge \in EdgeData
<1>1. \A i \in DOMAIN l : l[i] \in LogLine
  <2> HIDE DEF LogLine
  <2> QED OBVIOUS
<1> QED BY <1>1 DEF LogLine

\* The last readable line of an edge that has one.
LEMMA LastLine ==
  ASSUME NEW l \in Seq(LogLine), NEW k \in Keys, LinesOf(l, k) # {}
  PROVE /\ Max(LinesOf(l, k)) \in LinesOf(l, k)
        /\ LinesOf(l, k) \subseteq 1..Len(l)
        /\ Replayed(l)[k] = l[Max(LinesOf(l, k))].edge
        /\ Replayed(l)[k] \in EdgeData
<1>1. LinesOf(l, k) \subseteq 1..Len(l) /\ Len(l) \in Nat BY DEF LinesOf, Readable
<1>2. LinesOf(l, k) \in SUBSET (0..Len(l)) BY <1>1
<1>3. Max(LinesOf(l, k)) \in LinesOf(l, k) BY <1>1, <1>2, MaxOfBounded
<1>4. Replayed(l)[k] = l[Max(LinesOf(l, k))].edge BY DEF Replayed
<1>5. Max(LinesOf(l, k)) \in DOMAIN l BY <1>1, <1>3
<1>6. l[Max(LinesOf(l, k))].edge \in EdgeData BY <1>5, LineTypes
<1> QED BY <1>1, <1>3, <1>4, <1>6

\* What a start reads from a log are edges, and points of temporal edges.
LEMMA ReplayedTypes ==
  ASSUME NEW l \in Seq(LogLine)
  PROVE /\ Replayed(l) \in [Keys -> EdgeData \cup {NoEdge}]
        /\ ReplayedTimeline(l) \subseteq TemporalEdges \X (Stamps \cup {0})
<1>1. ASSUME NEW k \in Keys PROVE Replayed(l)[k] \in EdgeData \cup {NoEdge}
  <2>1. CASE LinesOf(l, k) = {} BY <2>1 DEF Replayed
  <2>2. CASE LinesOf(l, k) # {} BY <2>2, LastLine
  <2> QED BY <2>1, <2>2
<1>2. Replayed(l) = [k \in Keys |-> Replayed(l)[k]] BY DEF Replayed
<1>3. Replayed(l) \in [Keys -> EdgeData \cup {NoEdge}] BY <1>1, <1>2
<1>4. ReplayedTimeline(l) \subseteq TemporalEdges \X (Stamps \cup {0})
  <2>1. \A i \in DOMAIN l : l[i].edge.stamp \in Stamps \cup {0} BY LineTypes DEF EdgeData
  <2> QED BY <2>1 DEF ReplayedTimeline, Readable
<1> QED BY <1>3, <1>4

\* An edge with a line has been read with it, and one without is absent.
LEMMA ReplayedPresent ==
  ASSUME NEW l \in Seq(LogLine), NEW k \in Keys
  PROVE Replayed(l)[k] = NoEdge <=> LinesOf(l, k) = {}
<1>1. NoEdge \notin EdgeData BY DEF NoEdge, EdgeData
<1>2. CASE LinesOf(l, k) = {} BY <1>2 DEF Replayed
<1>3. CASE LinesOf(l, k) # {} BY <1>1, <1>3, LastLine
<1> QED BY <1>2, <1>3

\* A line added at the end: it is the last of its edge, and no other edge has another last line.
LEMMA ReplayedAppend ==
  ASSUME NEW l \in Seq(LogLine), NEW k \in Keys, NEW e \in EdgeData
  PROVE LET longer == Append(l, Line(k, e)) IN
        /\ longer \in Seq(LogLine)
        /\ Replayed(longer) = [Replayed(l) EXCEPT ![k] = e]
        /\ ReplayedTimeline(longer) =
             ReplayedTimeline(l) \cup (IF k \in TemporalEdges THEN {<<k, e.stamp>>} ELSE {})
<1> DEFINE longer == Append(l, Line(k, e))
           new == Len(l) + 1
<1>1. Line(k, e) \in LogLine /\ Line(k, e).key = k /\ Line(k, e).edge = e /\ Line(k, e).shape = "canonical"
  BY DEF Line, LogLine
<1>2. /\ longer \in Seq(LogLine) /\ DOMAIN longer = 1..new /\ DOMAIN l = 1..Len(l) /\ Len(l) \in Nat
      /\ longer[new] = Line(k, e) /\ \A i \in 1..Len(l) : longer[i] = l[i]
  BY <1>1
<1>3. Readable(longer) = Readable(l) \cup {new}
  <2> HIDE DEF longer
  <2> QED BY <1>1, <1>2 DEF Readable
<1>4. Readable(l) \subseteq 1..Len(l) BY <1>2 DEF Readable
<1>5. LinesOf(longer, k) = LinesOf(l, k) \cup {new}
  <2> HIDE DEF longer
  <2> QED BY <1>1, <1>2, <1>3, <1>4 DEF LinesOf
<1>6. \A k2 \in Keys \ {k} : LinesOf(longer, k2) = LinesOf(l, k2)
  <2> HIDE DEF longer
  <2> QED BY <1>1, <1>2, <1>3, <1>4 DEF LinesOf
<1>7. Replayed(longer)[k] = e
  <2>1. LinesOf(longer, k) # {} /\ LinesOf(longer, k) \in SUBSET (0..new) /\ new \in LinesOf(longer, k)
    <3> HIDE DEF longer
    <3>1. LinesOf(l, k) \subseteq 1..Len(l) BY <1>4 DEF LinesOf
    <3> QED BY <1>2, <1>5, <3>1
  <2>2. Max(LinesOf(longer, k)) \in LinesOf(longer, k)
        /\ \A y \in LinesOf(longer, k) : Max(LinesOf(longer, k)) >= y
    <3>1. new \in Nat BY <1>2
    <3> HIDE DEF longer, new
    <3> QED BY <3>1, <2>1, MaxOfBounded
  <2>3. Max(LinesOf(longer, k)) = new
    <3> HIDE DEF longer
    <3> QED BY <1>2, <2>1, <2>2
  <2>4. Replayed(longer)[k] = longer[new].edge BY <1>2, <2>1, <2>3, LastLine
  <2> QED BY <1>1, <1>2, <2>4
<1>8. ASSUME NEW k2 \in Keys \ {k} PROVE Replayed(longer)[k2] = Replayed(l)[k2]
  <2>1. CASE LinesOf(l, k2) = {} BY <1>6, <2>1 DEF Replayed
  <2>2. CASE LinesOf(l, k2) # {}
    <3>1. /\ Replayed(l)[k2] = l[Max(LinesOf(l, k2))].edge
          /\ Max(LinesOf(l, k2)) \in 1..Len(l)
      BY <2>2, LastLine
    <3>2. Replayed(longer)[k2] = longer[Max(LinesOf(longer, k2))].edge BY <1>2, <1>6, <2>2, LastLine
    <3> QED BY <1>2, <1>6, <3>1, <3>2
  <2> QED BY <2>1, <2>2
<1>9. Replayed(longer) = [Replayed(l) EXCEPT ![k] = e]
  <2>1. Replayed(longer) = [x \in Keys |-> Replayed(longer)[x]] BY DEF Replayed
  <2>2. Replayed(l) = [x \in Keys |-> Replayed(l)[x]] BY DEF Replayed
  <2> HIDE DEF longer, Replayed
  <2> QED BY <1>7, <1>8, <2>1, <2>2
<1>10. ReplayedTimeline(longer) =
         ReplayedTimeline(l) \cup (IF k \in TemporalEdges THEN {<<k, e.stamp>>} ELSE {})
  <2> HIDE DEF longer
  <2>1. \A i \in Readable(l) : longer[i] = l[i] BY <1>2, <1>4
  <2>2. longer[new].key = k /\ longer[new].edge = e BY <1>1, <1>2
  <2> QED BY <1>3, <2>1, <2>2 DEF ReplayedTimeline
<1> QED BY <1>2, <1>9, <1>10

\* What an update makes of an edge, and when it leaves the timestamp alone.
LEMMA UpdatedEdge ==
  ASSUME edges \in [Keys -> EdgeData \cup {NoEdge}], NEW k \in Keys, NEW s \in Stamps \cup {0},
         NEW type \in {"heuristic", "causal"}
  PROVE /\ Updated(k, s, type) \in EdgeData
        /\ edges[k] # NoEdge /\ s = 0 => Updated(k, s, type).stamp = edges[k].stamp
<1>1. edges[k] = NoEdge \/ edges[k] \in EdgeData OBVIOUS
<1> QED BY <1>1 DEF Updated, EdgeData

\* A call between add_edge and the timeline is about an edge that exists.
LEMMA IndexingTypes ==
  ASSUME GraphLogTypeOK, NEW c \in indexing
  PROVE /\ c = <<c[1], c[2]>> /\ c[1] \in GraphThreads /\ c[2] \in TemporalEdges /\ c[2] \in Keys
        /\ edges[c[2]] \in EdgeData /\ Point(c[2]) \in TemporalEdges \X (Stamps \cup {0})
<1>1. c \in GraphThreads \X {k \in TemporalEdges : edges[k] # NoEdge} BY DEF GraphLogTypeOK
<1>2. c[2] \in Keys /\ edges[c[2]] # NoEdge BY <1>1 DEF Keys
<1>3. edges[c[2]] \in EdgeData BY <1>2 DEF GraphLogTypeOK
<1> QED BY <1>1, <1>2, <1>3 DEF Point, EdgeData

\* A stored edge, with a timeline point for it or a call that is still to list it; the calls that
\* had to list it at another timestamp are outrun.
LEMMA StoreStep ==
  ASSUME GraphLogTypeOK, RestartAgrees, NEW k \in Keys, NEW e \in EdgeData, NEW listed \in BOOLEAN,
         listed => k \in TemporalEdges, Store(k, e, listed),
         indexing \subseteq indexing', indexing' \subseteq indexing \cup (GraphThreads \X {k}),
         k \notin TemporalEdges => indexing' = indexing,
         k \in TemporalEdges /\ ~listed =>
           edges[k] # NoEdge /\ (e.stamp = edges[k].stamp \/ \E c \in indexing' : c[2] = k)
  PROVE GraphLogTypeOK' /\ RestartAgrees'
<1>1. log \in Seq(LogLine) BY DEF GraphLogTypeOK
<1>2. /\ log' = Append(log, Line(k, e)) /\ edges' = [edges EXCEPT ![k] = e]
      /\ timeline' = IF listed THEN timeline \cup {<<k, e.stamp>>} ELSE timeline
      /\ outrun' = outrun \cup {Point(c[2]) : c \in {d \in indexing : d[2] = k /\ e.stamp # edges[k].stamp}}
      /\ UNCHANGED <<torn, appendErrors, restarts>>
  BY DEF Store
<1>3. /\ log' \in Seq(LogLine) /\ Replayed(log') = [Replayed(log) EXCEPT ![k] = e]
      /\ ReplayedTimeline(log') =
           ReplayedTimeline(log) \cup (IF k \in TemporalEdges THEN {<<k, e.stamp>>} ELSE {})
  BY <1>1, <1>2, ReplayedAppend
<1>e. edges \in [Keys -> EdgeData \cup {NoEdge}] /\ edges'[k] = e /\ NoEdge \notin EdgeData
      /\ \A x \in Keys \ {k} : edges'[x] = edges[x]
  BY <1>2 DEF GraphLogTypeOK, NoEdge, EdgeData
<1>4. GraphLogTypeOK'
  <2>1. Ends(k) \subseteq UNION {Ends(x) : x \in Keys} OBVIOUS
  <2>2. entities' = entities \cup Ends(k) /\ entityFile' = entityFile \cup (Ends(k) \ entities)
    BY DEF Store
  <2>3. listed => <<k, e.stamp>> \in TemporalEdges \X (Stamps \cup {0}) BY DEF EdgeData
  <2>4. edges' \in [Keys -> EdgeData \cup {NoEdge}] BY <1>2 DEF GraphLogTypeOK
  <2>5. timeline' \subseteq TemporalEdges \X (Stamps \cup {0}) BY <1>2, <2>3 DEF GraphLogTypeOK
  <2>6. outrun' \subseteq TemporalEdges \X (Stamps \cup {0})
    <3>1. \A c \in indexing : Point(c[2]) \in TemporalEdges \X (Stamps \cup {0}) BY IndexingTypes
    <3> QED BY <1>2, <3>1 DEF GraphLogTypeOK
  <2>7. indexing' \subseteq GraphThreads \X {x \in TemporalEdges : edges'[x] # NoEdge}
    <3>1. ASSUME NEW c \in indexing
          PROVE c \in GraphThreads \X {x \in TemporalEdges : edges'[x] # NoEdge}
      <4>1. /\ c = <<c[1], c[2]>> /\ c[1] \in GraphThreads /\ c[2] \in TemporalEdges
            /\ c[2] \in Keys /\ edges[c[2]] \in EdgeData
        BY IndexingTypes
      <4>2. edges'[c[2]] # NoEdge BY <1>e, <4>1
      <4> QED BY <4>1, <4>2
    <3>2. ASSUME NEW c \in indexing', c \notin indexing
          PROVE c \in GraphThreads \X {x \in TemporalEdges : edges'[x] # NoEdge}
      BY <1>e, <3>2
    <3> QED BY <3>1, <3>2
  <2> QED BY <1>2, <1>3, <2>1, <2>2, <2>4, <2>5, <2>6, <2>7 DEF GraphLogTypeOK
<1>5. ASSUME ~torn, k \in TemporalEdges, ~listed, e.stamp = edges[k].stamp
      PROVE <<k, e.stamp>> \in ReplayedTimeline(log)
  <2>1. Replayed(log) = edges /\ edges[k] # NoEdge BY <1>5 DEF RestartAgrees
  <2>2. LinesOf(log, k) # {} BY <1>1, <1>5, <2>1, ReplayedPresent
  <2>3. PICK i \in LinesOf(log, k) : edges[k] = log[i].edge BY <1>1, <2>1, <2>2, LastLine
  <2>4. <<k, edges[k].stamp>> \in ReplayedTimeline(log)
    BY <1>5, <2>3 DEF ReplayedTimeline, LinesOf
  <2> QED BY <1>5, <2>4
<1>6. ASSUME NEW c \in indexing PROVE Point(c[2]) \in Unlisted' \cup outrun'
  <2>1. c[2] \in Keys BY IndexingTypes
  <2>2. CASE c[2] = k /\ e.stamp # edges[k].stamp BY <1>2, <2>2
  <2>3. CASE c[2] # k \/ e.stamp = edges[k].stamp
    <3>1. edges'[c[2]].stamp = edges[c[2]].stamp BY <1>e, <2>1, <2>3
    <3> QED BY <3>1 DEF Unlisted, Point
  <2> QED BY <2>2, <2>3
<1>7. RestartAgrees'
  <2> SUFFICES ASSUME ~torn
               PROVE /\ Replayed(log') = edges'
                     /\ timeline' \subseteq ReplayedTimeline(log')
                     /\ ReplayedTimeline(log') \subseteq timeline' \cup Unlisted' \cup outrun'
    BY <1>2 DEF RestartAgrees, Replayed, ReplayedTimeline, LinesOf, Readable
  <2>1. /\ Replayed(log) = edges /\ timeline \subseteq ReplayedTimeline(log)
        /\ ReplayedTimeline(log) \subseteq timeline \cup Unlisted \cup outrun
    BY DEF RestartAgrees
  <2>2. ReplayedTimeline(log) \subseteq timeline' \cup Unlisted' \cup outrun'
    BY <1>2, <1>6, <2>1 DEF Unlisted
  <2>3. k \in TemporalEdges => <<k, e.stamp>> \in timeline' \cup Unlisted' \cup outrun'
    <3>1. SUFFICES ASSUME k \in TemporalEdges, ~listed PROVE <<k, e.stamp>> \in timeline' \cup Unlisted' \cup outrun'
      BY <1>2
    <3>2. CASE e.stamp = edges[k].stamp BY <1>5, <2>2, <3>1, <3>2
    <3>3. CASE \E c \in indexing' : c[2] = k BY <1>e, <3>3 DEF Unlisted, Point
    <3> QED BY <3>1, <3>2, <3>3
  <2> QED BY <1>2, <1>3, <2>1, <2>2, <2>3
<1> QED BY <1>4, <1>7

\* Each step of the graph and of its log keeps the types and the agreement.
LEMMA GraphLogStep ==
  GraphLogTypeOK /\ RestartAgrees /\ [GraphLogNext]_graphVars => GraphLogTypeOK' /\ RestartAgrees'
<1> SUFFICES ASSUME GraphLogTypeOK, RestartAgrees, [GraphLogNext]_graphVars
             PROVE GraphLogTypeOK' /\ RestartAgrees'
  OBVIOUS
<1>0. edges \in [Keys -> EdgeData \cup {NoEdge}] /\ log \in Seq(LogLine) BY DEF GraphLogTypeOK
<1>1. ASSUME NEW k \in Keys, NEW type \in {"heuristic", "causal"}, AddEdge(k, type)
      PROVE GraphLogTypeOK' /\ RestartAgrees'
  <2> DEFINE listed == NewTemporal(k)
             e == Updated(k, 0, type)
  <2>1. e \in EdgeData /\ (edges[k] # NoEdge => e.stamp = edges[k].stamp) BY <1>0, UpdatedEdge
  <2>2. listed \in BOOLEAN /\ Store(k, e, listed) BY <1>1 DEF AddEdge, NewTemporal
  <2>3. /\ listed => k \in TemporalEdges
        /\ k \in TemporalEdges /\ ~listed => edges[k] # NoEdge /\ e.stamp = edges[k].stamp
    BY <2>1 DEF NewTemporal
  <2>4. indexing' = indexing BY <1>1 DEF AddEdge
  <2> HIDE DEF listed, e
  <2> QED BY <2>1, <2>2, <2>3, <2>4, StoreStep
<1>2. ASSUME NEW t \in GraphThreads, NEW k \in TemporalEdges, NEW s \in Stamps, AddTemporalEdge(t, k, s)
      PROVE GraphLogTypeOK' /\ RestartAgrees'
  <2> DEFINE listed == NewTemporal(k)
             e == Updated(k, s, "heuristic")
  <2>1. k \in Keys BY DEF Keys
  <2>2. e \in EdgeData BY <1>0, <2>1, UpdatedEdge
  <2>3. listed \in BOOLEAN /\ (~listed => edges[k] # NoEdge) BY DEF NewTemporal
  <2>4. Store(k, e, listed) /\ indexing' = indexing \cup {<<t, k>>} BY <1>2 DEF AddTemporalEdge
  <2>5. \E c \in indexing' : c[2] = k
    <3>1. <<t, k>> \in indexing' /\ <<t, k>>[2] = k BY <2>4
    <3> QED BY <3>1
  <2> HIDE DEF listed, e
  <2> QED BY <2>1, <2>2, <2>3, <2>4, <2>5, StoreStep
<1>6. ASSUME NEW c \in indexing, IndexTimeline(c) PROVE GraphLogTypeOK' /\ RestartAgrees'
  <2>1. /\ timeline' = timeline \cup {Point(c[2])} /\ indexing' = indexing \ {c}
        /\ UNCHANGED <<edges, log, entities, entityFile, outrun, torn, appendErrors, restarts>>
    BY <1>6 DEF IndexTimeline
  <2>2. /\ c[2] \in Keys /\ c[2] \in TemporalEdges /\ edges[c[2]] \in EdgeData
        /\ Point(c[2]) \in TemporalEdges \X (Stamps \cup {0})
    BY IndexingTypes
  <2>3. GraphLogTypeOK' BY <2>1, <2>2 DEF GraphLogTypeOK
  <2>4. ASSUME ~torn PROVE Point(c[2]) \in ReplayedTimeline(log)
    <3>1. Replayed(log) = edges /\ edges[c[2]] # NoEdge BY <2>2, <2>4 DEF RestartAgrees, NoEdge, EdgeData
    <3>2. LinesOf(log, c[2]) # {} BY <1>0, <2>2, <3>1, ReplayedPresent
    <3>3. PICK i \in LinesOf(log, c[2]) : edges[c[2]] = log[i].edge BY <1>0, <2>2, <3>1, <3>2, LastLine
    <3> QED BY <2>2, <3>3 DEF ReplayedTimeline, LinesOf, Point
  <2>5. Unlisted \subseteq Unlisted' \cup {Point(c[2])} BY <2>1 DEF Unlisted, Point
  <2>6. Replayed(log') = Replayed(log) /\ ReplayedTimeline(log') = ReplayedTimeline(log)
    BY <2>1 DEF Replayed, ReplayedTimeline, LinesOf, Readable
  <2> QED BY <2>1, <2>3, <2>4, <2>5, <2>6 DEF RestartAgrees
<1>3. ASSUME NEW k \in Keys, NEW s \in Stamps \cup {0}, AppendRaises(k, s, "heuristic")
      PROVE GraphLogTypeOK' /\ RestartAgrees'
  <2>1. torn' = TRUE /\ UNCHANGED <<log, timeline, indexing, outrun, restarts>> BY <1>3 DEF AppendRaises
  <2>2. appendErrors' \in 0..MaxAppendErrors BY <1>3, GraphLogBounds DEF AppendRaises, GraphLogTypeOK
  <2>3. Updated(k, s, "heuristic") \in EdgeData BY <1>0, UpdatedEdge
  <2>4. edges' \in [Keys -> EdgeData \cup {NoEdge}] BY <1>0, <1>3, <2>3 DEF AppendRaises
  <2>5. Ends(k) \subseteq UNION {Ends(x) : x \in Keys} OBVIOUS
  <2>6. entities' \subseteq entities \cup Ends(k) /\ entityFile' \subseteq entityFile \cup Ends(k)
    BY <1>3 DEF AppendRaises
  <2>7. torn' \in BOOLEAN BY <2>1
  <2>9. indexing' \subseteq GraphThreads \X {x \in TemporalEdges : edges'[x] # NoEdge}
    <3>1. \A x \in Keys : edges[x] # NoEdge => edges'[x] # NoEdge
      BY <1>0, <1>3, <2>3 DEF AppendRaises, NoEdge, EdgeData
    <3>2. TemporalEdges \subseteq Keys BY DEF Keys
    <3>3. indexing \subseteq GraphThreads \X {x \in TemporalEdges : edges'[x] # NoEdge}
      BY <3>1, <3>2 DEF GraphLogTypeOK
    <3> QED BY <2>1, <3>3
  <2>8. GraphLogTypeOK' BY <2>1, <2>2, <2>4, <2>5, <2>6, <2>7, <2>9 DEF GraphLogTypeOK
  <2> QED BY <2>1, <2>8 DEF RestartAgrees
<1>4. CASE Restart
  <2>1. /\ edges' = Replayed(log) /\ timeline' = ReplayedTimeline(log) /\ entities' = entityFile
        /\ indexing' = {} /\ outrun' = {} /\ torn' = FALSE /\ UNCHANGED <<log, entityFile, appendErrors>>
    BY <1>4 DEF Restart, Load
  <2>2. restarts' \in 0..MaxRestarts BY <1>4, GraphLogBounds DEF Restart, GraphLogTypeOK
  <2>3. edges' \in [Keys -> EdgeData \cup {NoEdge}] /\ timeline' \subseteq TemporalEdges \X (Stamps \cup {0})
    BY <1>0, <2>1, ReplayedTypes
  <2>4. torn' \in BOOLEAN BY <2>1
  <2>5. GraphLogTypeOK' BY <2>1, <2>2, <2>3, <2>4 DEF GraphLogTypeOK
  <2>6. RestartAgrees' BY <2>1 DEF RestartAgrees, Replayed, ReplayedTimeline, LinesOf, Readable
  <2> QED BY <2>5, <2>6
<1>5. CASE UNCHANGED graphVars
  <2>1. GraphLogTypeOK' BY <1>5 DEF graphVars, GraphLogTypeOK
  <2>2. RestartAgrees'
    BY <1>5 DEF graphVars, RestartAgrees, Replayed, ReplayedTimeline, LinesOf, Readable, Unlisted, Point
  <2> QED BY <2>1, <2>2
<1> QED BY <1>1, <1>2, <1>3, <1>4, <1>5, <1>6 DEF GraphLogNext

\* The invariant of the graph and its log, from the empty files on.
LEMMA GraphLogInductive == GraphLogSpec => [](GraphLogTypeOK /\ RestartAgrees)
<1>1. GraphLogInit => GraphLogTypeOK /\ RestartAgrees
  <2> SUFFICES ASSUME GraphLogInit PROVE GraphLogTypeOK /\ RestartAgrees
    OBVIOUS
  <2>1. log \in Seq(LogLine) BY GraphLogBounds DEF GraphLogInit
  <2>2. edges = Replayed(log) /\ timeline = ReplayedTimeline(log) BY DEF GraphLogInit
  <2>3. edges \in [Keys -> EdgeData \cup {NoEdge}] /\ timeline \subseteq TemporalEdges \X (Stamps \cup {0})
    BY <2>1, <2>2, ReplayedTypes
  <2>4. entities = entityFile /\ entityFile \subseteq UNION {Ends(k) : k \in Keys}
    <3>1. \A i \in DOMAIN log : log[i].key \in Keys BY <2>1, LineTypes
    <3>2. entities = entityFile /\ entityFile = UNION {Ends(log[i].key) : i \in DOMAIN log}
      BY DEF GraphLogInit
    <3> QED BY <3>1, <3>2
  <2>5. torn \in BOOLEAN /\ indexing = {} /\ outrun = {} BY DEF GraphLogInit
  <2>6. appendErrors \in 0..MaxAppendErrors /\ restarts \in 0..MaxRestarts
    BY GraphLogBounds DEF GraphLogInit
  <2>7. GraphLogTypeOK BY <2>1, <2>3, <2>4, <2>5, <2>6 DEF GraphLogTypeOK
  <2> QED BY <2>2, <2>7 DEF RestartAgrees
<1>2. GraphLogTypeOK /\ RestartAgrees /\ [GraphLogNext]_graphVars => (GraphLogTypeOK /\ RestartAgrees)'
  BY GraphLogStep
<1> QED BY <1>1, <1>2, PTL DEF GraphLogSpec

\* Edges, log and timeline keep their shape, also after replaying files of earlier versions.
THEOREM GraphLogTypeCorrect == GraphLogSpec => []GraphLogTypeOK
BY GraphLogInductive, PTL

\* A start finds the edges and the timeline as memory had them, as long as no append raised, but
\* for points that add_temporal_edge had still to list or that another call outran: for any
\* edges, timestamps, old files and overlap of calls (knowledge_graph.py:108, :233-238, :328).
THEOREM RestartAgreesCorrect == GraphLogSpec => []RestartAgrees
BY GraphLogInductive, PTL

-----------------------------------------------------------------------------
(* The entity index and its file *)

\* Beside build(), which publishes the index, a copy of it and a clear flag in three steps; and
\* beside save(), which writes a snapshot that is the index or older than a change.
BuildInv ==
  /\ builder = "write" => copy = index \/ raced
  /\ builder = "clear" => file = index \/ raced
  /\ saving /\ builder # "idle" => raced
  /\ saving /\ ~modified => saveCopy = index \/ raced
FileInv ==
  /\ ~modified /\ builder = "idle" => file = index \/ raced \/ halfBuilt
  /\ modified /\ builder \in {"idle", "adding"} => caller # {} \/ timer \in {"waiting", "fired"} \/ missed
IndexInv == IndexTypeOK /\ BuildInv /\ FileInv

\* The state of the index is as declared after every step.
LEMMA IndexTypeStep == IndexTypeOK /\ [IndexNext]_indexVars => IndexTypeOK'
<1> SUFFICES ASSUME IndexTypeOK, [IndexNext]_indexVars PROVE IndexTypeOK'
  OBVIOUS
<1> USE IndexConstants DEF IndexTypeOK, Callers, Alive, saveVars, excuses
<1>1. CASE UNCHANGED indexVars BY <1>1 DEF indexVars, buildVars
<1>2. CASE \E t \in IndexThreads, n \in Indexed : Change(t, n)
  <2>1. raced' \in BOOLEAN /\ modified' \in BOOLEAN BY <1>2 DEF Change, Mutate
  <2> QED BY <1>2, <2>1 DEF Change, Mutate, buildVars
<1>3. CASE \E t \in Callers : ScheduleFlush(t)
  <2>1. missed' \in BOOLEAN BY <1>3 DEF ScheduleFlush
  <2>2. timer' \in Alive \cup {"none"} BY <1>3 DEF ScheduleFlush
  <2> QED BY <1>3, <2>1, <2>2 DEF ScheduleFlush, buildVars
<1>4. CASE TimerFires BY <1>4 DEF TimerFires, buildVars
<1>5. CASE FlushTimer
  <2>1. /\ modified' \in BOOLEAN /\ missed' \in BOOLEAN /\ stray' \in BOOLEAN
        /\ timer' \in Alive \cup {"none"} /\ file' \subseteq Indexed
    BY <1>5 DEF FlushTimer, FlushSync, Settled
  <2>2. saveErrors' \in 0..MaxSaveErrors BY <1>5 DEF FlushTimer, FlushSync
  <2>3. raced' \in BOOLEAN /\ halfBuilt' \in BOOLEAN BY <1>5 DEF FlushTimer, FlushSync, Settled
  <2> QED BY <1>5, <2>1, <2>2, <2>3 DEF FlushTimer, buildVars
<1>6. CASE TimerEnds BY <1>6 DEF TimerEnds, buildVars
<1>7. CASE \E n \in Indexed : BuildAdd(n) BY <1>7 DEF BuildAdd, Mutate
<1>8. CASE BuildStart
  <2>1. raced' \in BOOLEAN BY <1>8 DEF BuildStart
  <2> QED BY <1>8, <2>1 DEF BuildStart
<1>9. CASE BuildCancel
  <2>1. stray' \in BOOLEAN BY <1>9 DEF BuildCancel
  <2> QED BY <1>9, <2>1 DEF BuildCancel
<1>10. CASE BuildSnapshot BY <1>10 DEF BuildSnapshot
<1>11. CASE BuildWrite BY <1>11 DEF BuildWrite
<1>12. CASE BuildClear BY <1>12 DEF BuildClear
<1>13. CASE SaveSnapshot
  <2>1. raced' \in BOOLEAN BY <1>13 DEF SaveSnapshot
  <2> QED BY <1>13, <2>1 DEF SaveSnapshot, buildVars
<1>14. CASE SaveEnds
  <2>1. file' \subseteq Indexed /\ saveErrors' \in 0..MaxSaveErrors BY <1>14 DEF SaveEnds
  <2> QED BY <1>14, <2>1 DEF SaveEnds, buildVars
<1>15. CASE BuildRaises
  <2>1. missed' \in BOOLEAN /\ saveErrors' \in 0..MaxSaveErrors BY <1>15 DEF BuildRaises
  <2> QED BY <1>15, <2>1 DEF BuildRaises
<1> QED BY <1>1, <1>2, <1>3, <1>4, <1>5, <1>6, <1>7, <1>8, <1>9, <1>10, <1>11, <1>12, <1>13, <1>14, <1>15
        DEF IndexNext, IndexTimer

\* What is still raced after a write of the index.
LEMMA SettledEffect ==
  ASSUME Settled
  PROVE (raced /\ builder # "idle" => raced') /\ (saving /\ saveCopy # index => raced')
<1>1. raced' = ((raced /\ builder # "idle") \/ (saving /\ saveCopy # index)) BY DEF Settled
<1>2. CASE raced /\ builder # "idle" BY <1>1, <1>2
<1>3. CASE saving /\ saveCopy # index BY <1>1, <1>3
<1> QED BY <1>2, <1>3

\* Nobody but build() itself can change the index between its snapshot and the clear flag, and
\* no flush clears the flag over an older snapshot of save(), without the race being on record.
LEMMA BuildStep == IndexInv /\ [IndexNext]_indexVars => BuildInv'
<1> SUFFICES ASSUME IndexInv, [IndexNext]_indexVars PROVE BuildInv'
  OBVIOUS
<1> USE DEF IndexInv, IndexTypeOK, BuildInv, saveVars, excuses
<1>1. CASE UNCHANGED indexVars BY <1>1 DEF indexVars, buildVars
<1>2. CASE \E t \in IndexThreads, n \in Indexed : Change(t, n)
  BY <1>2 DEF Change, Mutate, buildVars
<1>3. CASE \E t \in Callers : ScheduleFlush(t) BY <1>3 DEF ScheduleFlush, buildVars
<1>4. CASE TimerFires \/ TimerEnds BY <1>4 DEF TimerFires, TimerEnds, buildVars
<1>5. CASE FlushTimer
  <2>1. /\ UNCHANGED <<index, caller, builder, copy, saving, saveCopy>>
        /\ timer' = timer \/ timer' = "leaving"
    BY <1>5 DEF FlushTimer, buildVars
  <2>2. CASE ~modified /\ UNCHANGED <<file, modified, raced, missed, halfBuilt>>
    BY <1>5, <2>1, <2>2 DEF FlushTimer
  <2>3. CASE file' = index /\ modified' = FALSE /\ Settled
    <3>1. (raced /\ builder # "idle" => raced') /\ (saving /\ saveCopy # index => raced')
      BY <2>3, SettledEffect
    <3> QED BY <2>1, <2>3, <3>1
  <2>4. CASE missed' = TRUE /\ UNCHANGED <<file, modified, raced, halfBuilt>> BY <2>1, <2>4
  <2> QED BY <1>5, <2>2, <2>3, <2>4 DEF FlushTimer, FlushSync
<1>6. CASE BuildStart \/ \E n \in Indexed : BuildAdd(n) BY <1>6 DEF BuildStart, BuildAdd, Mutate
<1>7. CASE BuildCancel \/ BuildSnapshot BY <1>7 DEF BuildCancel, BuildSnapshot
<1>8. CASE BuildWrite \/ BuildClear \/ BuildRaises BY <1>8 DEF BuildWrite, BuildClear, BuildRaises
<1>9. CASE SaveSnapshot BY <1>9 DEF SaveSnapshot, buildVars
<1>10. CASE SaveEnds BY <1>10 DEF SaveEnds, buildVars
<1> QED BY <1>1, <1>2, <1>3, <1>4, <1>5, <1>6, <1>7, <1>8, <1>9, <1>10 DEF IndexNext, IndexTimer

\* A change leaves its caller about to start a timer, a timer that is past its flush counts as
\* missed, and a flush that does not raise leaves nothing to write.
LEMMA FileStep == IndexInv /\ [IndexNext]_indexVars => FileInv'
<1> SUFFICES ASSUME IndexInv, [IndexNext]_indexVars PROVE FileInv'
  OBVIOUS
<1> USE DEF IndexInv, IndexTypeOK, BuildInv, FileInv, saveVars, excuses
<1>1. CASE UNCHANGED indexVars BY <1>1 DEF indexVars, buildVars
<1>2. CASE \E t \in IndexThreads, n \in Indexed : Change(t, n)
  BY <1>2 DEF Change, Mutate, buildVars
<1>3. CASE \E t \in Callers : ScheduleFlush(t) BY <1>3 DEF ScheduleFlush, Alive, buildVars
<1>4. CASE TimerFires \/ TimerEnds BY <1>4 DEF TimerFires, TimerEnds, buildVars
<1>5. CASE FlushTimer
  <2>1. /\ UNCHANGED <<index, caller, builder, copy, saving, saveCopy>>
        /\ timer' = timer \/ timer' = "leaving"
    BY <1>5 DEF FlushTimer, buildVars
  <2>2. CASE ~modified /\ UNCHANGED <<file, modified, raced, missed, halfBuilt>>
    BY <1>5, <2>1, <2>2 DEF FlushTimer
  <2>3. CASE file' = index /\ modified' = FALSE /\ Settled
    <3>1. (raced /\ builder # "idle" => raced') /\ (saving /\ saveCopy # index => raced')
      BY <2>3, SettledEffect
    <3> QED BY <2>1, <2>3, <3>1
  <2>4. CASE missed' = TRUE /\ UNCHANGED <<file, modified, raced, halfBuilt>> BY <2>1, <2>4
  <2> QED BY <1>5, <2>2, <2>3, <2>4 DEF FlushTimer, FlushSync
<1>6. CASE BuildStart \/ \E n \in Indexed : BuildAdd(n) BY <1>6 DEF BuildStart, BuildAdd, Mutate
<1>7. CASE BuildCancel \/ BuildSnapshot BY <1>7 DEF BuildCancel, BuildSnapshot
<1>8. CASE BuildWrite \/ BuildClear \/ BuildRaises BY <1>8 DEF BuildWrite, BuildClear, BuildRaises
<1>9. CASE SaveSnapshot BY <1>9 DEF SaveSnapshot, buildVars
<1>10. CASE SaveEnds BY <1>10 DEF SaveEnds, buildVars
<1> QED BY <1>1, <1>2, <1>3, <1>4, <1>5, <1>6, <1>7, <1>8, <1>9, <1>10 DEF IndexNext, IndexTimer

\* The invariant of the entity index, from the empty index on.
LEMMA IndexInductive == IndexSpec => []IndexInv
<1>1. IndexInit => IndexInv
  <2> SUFFICES ASSUME IndexInit PROVE IndexInv
    OBVIOUS
  <2>1. IndexTypeOK
    <3>1. modified \in BOOLEAN /\ raced \in BOOLEAN /\ missed \in BOOLEAN /\ stray \in BOOLEAN
          /\ saving \in BOOLEAN /\ halfBuilt \in BOOLEAN
      BY DEF IndexInit
    <3>2. changes \in 0..MaxChanges /\ builds \in 0..MaxBuilds /\ saveErrors \in 0..MaxSaveErrors
      BY IndexConstants DEF IndexInit
    <3> QED BY <3>1, <3>2 DEF IndexInit, IndexTypeOK, Alive
  <2>2. BuildInv /\ FileInv BY DEF IndexInit, BuildInv, FileInv
  <2> QED BY <2>1, <2>2 DEF IndexInv
<1>2. IndexInv /\ [IndexNext]_indexVars => IndexInv'
  BY IndexTypeStep, BuildStep, FileStep DEF IndexInv
<1> QED BY <1>1, <1>2, PTL DEF IndexSpec

\* The index, its timer and build() stay within their types (entity_indexer.py:85-120).
THEOREM IndexTypeCorrect == IndexSpec => []IndexTypeOK
BY IndexInductive, PTL DEF IndexInv

\* A change of the entity index is in the file, or a timer or a caller is about to write it,
\* for any number of callers beside the timer, save() and build() (entity_indexer.py:549-697).
THEOREM ChangesReachFileCorrect == IndexSpec => []ChangesReachFile
<1>1. IndexInv => ChangesReachFile BY DEF IndexInv, FileInv, ChangesReachFile
<1> QED BY <1>1, IndexInductive, PTL

-----------------------------------------------------------------------------
(* LanceDB maintenance *)

\* Whom stop() still has to wait for: those alive when it looked, but for threads registered
\* after the event was set.
StopInv ==
  /\ stopEvent <=> stopping # "no"
  /\ stopping \in {"listed", "returned"} => \A t \in LanceTables : AliveThread(t) => t \in joining \cup late
CoveredInv == ~stopEvent => \A t \in covered : AliveThread(t)
LanceInv == LanceTypeOK /\ StopInv /\ CoveredInv

\* register_table() starts at most one thread per table, and none beyond the bound.
LEMMA RegisterTypes ==
  ASSUME LanceTypeOK, NEW S \in SUBSET LanceTables, Register(S)
  PROVE /\ spawns' \in 0..MaxSpawns
        /\ thread' \in [LanceTables -> Running \cup {"none", "ended"}]
        /\ covered' \subseteq covered \cup S /\ late' \subseteq late \cup S
<1> DEFINE new == {t \in S : ~AliveThread(t)}
<1>1. CASE ~interval BY <1>1 DEF Register, LanceTypeOK
<1>2. CASE interval
  <2>1. IsFiniteSet(new) BY LanceConstants, FS_Subset
  <2>2. Cardinality(new) \in Nat BY <2>1, FS_CardinalityType
  <2>3. /\ spawns' = spawns + Cardinality(new) /\ spawns + Cardinality(new) <= MaxSpawns
        /\ thread' = [t \in LanceTables |-> IF t \in new THEN "loop" ELSE thread[t]]
        /\ covered' = covered \cup S
        /\ late' = IF stopEvent THEN late \cup new ELSE late
    BY <1>2 DEF Register
  <2>4. new \subseteq S OBVIOUS
  <2> HIDE DEF new
  <2> QED BY <2>2, <2>3, <2>4, LanceConstants DEF LanceTypeOK, Running
<1> QED BY <1>1, <1>2

\* What a step of a cleanup thread leaves alone, and when it can end.
LEMMA DaemonEffect ==
  ASSUME LanceTypeOK, NEW t \in LanceTables, DaemonStep(t)
  PROVE /\ UNCHANGED <<onDisk, bound, interval, stopEvent, stopping, covered, late, toggles, spawns>>
        /\ AliveThread(t)
        /\ \E to \in Running \cup {"ended"} :
             /\ thread' = [thread EXCEPT ![t] = to]
             /\ joining' = IF to = "ended" THEN joining \ {t} ELSE joining
             /\ to = "ended" => stopEvent
BY DEF LanceTypeOK, DaemonStep, Loop, Grace, WaitEnds, RunOne, Step, AliveThread, Running

\* The cleanup threads and the lists about them are as declared after every step.
LEMMA LanceTypeStep == LanceTypeOK /\ [LanceNext]_lanceVars => LanceTypeOK'
<1> SUFFICES ASSUME LanceTypeOK, [LanceNext]_lanceVars PROVE LanceTypeOK'
  OBVIOUS
<1>1. CASE UNCHANGED lanceVars BY <1>1 DEF lanceVars, LanceTypeOK, Running
<1>2. ASSUME NEW t \in LanceTables, IndexInLance(t) PROVE LanceTypeOK'
  <2> DEFINE S == IF bound THEN {t} ELSE onDisk \cup {t}
  <2>1. S \in SUBSET LanceTables BY DEF LanceTypeOK
  <2>2. Register(S) BY <1>2 DEF IndexInLance
  <2>3. S \subseteq onDisk' /\ onDisk \subseteq onDisk' /\ onDisk' \subseteq LanceTables
    BY <1>2 DEF IndexInLance, LanceTypeOK
  <2> HIDE DEF S
  <2>4. /\ spawns' \in 0..MaxSpawns
        /\ thread' \in [LanceTables -> Running \cup {"none", "ended"}]
        /\ covered' \subseteq covered \cup S /\ late' \subseteq late \cup S
    BY <2>1, <2>2, RegisterTypes
  <2> QED BY <1>2, <2>3, <2>4 DEF IndexInLance, LanceTypeOK, stopVars
<1>3. ASSUME NEW t \in LanceTables, TableAppears(t) PROVE LanceTypeOK'
  BY <1>3 DEF TableAppears, LanceTypeOK, stopVars, Running
<1>4. ASSUME NEW t \in LanceTables, DaemonStep(t) PROVE LanceTypeOK'
  BY <1>4, DaemonEffect DEF LanceTypeOK, Running
<1>5. CASE SetInterval BY <1>5, LanceConstants DEF SetInterval, LanceTypeOK, stopVars, Running
<1>6. CASE StopSet \/ StopList \/ StopReturns \/ StopTimesOut
  BY <1>6 DEF StopSet, StopList, StopReturns, StopTimesOut, LanceTypeOK, Running
<1> QED BY <1>1, <1>2, <1>3, <1>4, <1>5, <1>6 DEF LanceNext

\* After register_table() a table it was called for has a live thread, if the cleanup is on; a
\* thread it has started after the event was set is among the late ones.
LEMMA RegisterEffect ==
  ASSUME LanceTypeOK, NEW S \in SUBSET LanceTables, Register(S)
  PROVE /\ \A t \in LanceTables : AliveThread(t) => AliveThread(t)'
        /\ \A t \in covered' : t \in covered \/ AliveThread(t)'
        /\ stopEvent => \A t \in LanceTables : AliveThread(t)' => AliveThread(t) \/ t \in late'
        /\ late \subseteq late'
BY DEF LanceTypeOK, Register, AliveThread, Running

\* Each step of the table threads keeps what stopped them and whom they cover.
LEMMA LanceStep == LanceInv /\ [LanceNext]_lanceVars => StopInv' /\ CoveredInv'
<1> SUFFICES ASSUME LanceInv, [LanceNext]_lanceVars PROVE StopInv' /\ CoveredInv'
  OBVIOUS
<1> USE DEF LanceInv
<1>1. CASE UNCHANGED lanceVars BY <1>1 DEF lanceVars, StopInv, CoveredInv, AliveThread
<1>2. ASSUME NEW t \in LanceTables, IndexInLance(t) PROVE StopInv' /\ CoveredInv'
  <2> DEFINE S == IF bound THEN {t} ELSE onDisk \cup {t}
  <2>1. S \in SUBSET LanceTables BY DEF LanceTypeOK
  <2>2. Register(S) BY <1>2 DEF IndexInLance
  <2> HIDE DEF S
  <2>3. /\ \A u \in LanceTables : AliveThread(u) => AliveThread(u)'
        /\ \A u \in covered' : u \in covered \/ AliveThread(u)'
        /\ stopEvent => \A u \in LanceTables : AliveThread(u)' => AliveThread(u) \/ u \in late'
        /\ late \subseteq late'
    BY <2>1, <2>2, RegisterEffect
  <2>4. UNCHANGED stopVars /\ covered \subseteq LanceTables BY <1>2 DEF IndexInLance, LanceTypeOK
  <2> QED BY <2>3, <2>4 DEF StopInv, CoveredInv, stopVars
<1>3. ASSUME NEW t \in LanceTables, DaemonStep(t) PROVE StopInv' /\ CoveredInv'
  <2>1. PICK to \in Running \cup {"ended"} :
             /\ thread' = [thread EXCEPT ![t] = to]
             /\ joining' = IF to = "ended" THEN joining \ {t} ELSE joining
             /\ to = "ended" => stopEvent
    BY <1>3, DaemonEffect
  <2>2. UNCHANGED <<stopEvent, stopping, covered, late>> /\ AliveThread(t) BY <1>3, DaemonEffect
  <2> QED BY <2>1, <2>2 DEF StopInv, CoveredInv, AliveThread, Running, LanceTypeOK
<1>4. CASE SetInterval \/ \E t \in LanceTables : TableAppears(t)
  BY <1>4 DEF SetInterval, TableAppears, StopInv, CoveredInv, AliveThread, stopVars
<1>5. CASE StopSet BY <1>5 DEF StopSet, StopInv, CoveredInv, AliveThread
<1>6. CASE StopList BY <1>6 DEF StopList, StopInv, CoveredInv, AliveThread
<1>7. CASE StopReturns \/ StopTimesOut
  BY <1>7 DEF StopReturns, StopTimesOut, StopInv, CoveredInv, AliveThread
<1> QED BY <1>1, <1>2, <1>3, <1>4, <1>5, <1>6, <1>7 DEF LanceNext

\* The invariant of the LanceDB maintenance, from no thread on.
LEMMA LanceInductive == LanceSpec => []LanceInv
<1>1. LanceInit => LanceInv
  <2> SUFFICES ASSUME LanceInit PROVE LanceInv
    OBVIOUS
  <2>1. LanceTypeOK
    <3>1. bound \in BOOLEAN /\ interval \in BOOLEAN /\ stopEvent \in BOOLEAN BY DEF LanceInit
    <3>2. toggles \in 0..MaxToggles /\ spawns \in 0..MaxSpawns BY LanceConstants DEF LanceInit
    <3>3. thread \in [LanceTables -> Running \cup {"none", "ended"}] BY DEF LanceInit
    <3> QED BY <3>1, <3>2, <3>3 DEF LanceInit, LanceTypeOK
  <2>2. StopInv /\ CoveredInv BY DEF LanceInit, StopInv, CoveredInv, AliveThread
  <2> QED BY <2>1, <2>2 DEF LanceInv
<1>2. LanceInv /\ [LanceNext]_lanceVars => LanceInv'
  BY LanceTypeStep, LanceStep DEF LanceInv
<1> QED BY <1>1, <1>2, PTL DEF LanceSpec

\* The cleanup threads, stop() and their lists stay within their types.
THEOREM LanceTypeCorrect == LanceSpec => []LanceTypeOK
BY LanceInductive, PTL DEF LanceInv

\* Every table written while the cleanup is on keeps its thread until stop(), and a stop() that
\* has returned leaves alive only threads registered after the event and those it gave up on
\* (lance_maintenance.py:144-154).
THEOREM ThreadsFollowTablesCorrect == LanceSpec => []ThreadsFollowTables
<1>1. LanceInv => ThreadsFollowTables
  BY DEF LanceInv, StopInv, CoveredInv, ThreadsFollowTables
<1> QED BY <1>1, LanceInductive, PTL

-----------------------------------------------------------------------------
(* GAM consolidation *)

\* Notes move from writer to store to run; a note observed, scanned or examined is stored.
FlowInv ==
  /\ \A w \in Writing : writer[w].at # "idle" => writer[w].fact \in Facts
  /\ \A w \in Writing : writer[w].at \in {"stored", "detected"} => writer[w].fact \in stored
  /\ \A r \in Runs : run[r].notes \subseteq stored

\* What a note under construction needs: a run under way, and the end of one, excuse it.
MakingInv ==
  \A n \in InTheMaking : UnderWay \/ created[n] < lastRun => n \in excused

\* What a run that has scanned has still to go through is in its notes.
PastScan == {"scanned", "promoted", "raised", "reset"}
Accounted(r) ==
  /\ run[r].at \in PastScan => \A n \in stored \ superseded : n \in run[r].notes \cup examined \cup excused
  /\ run[r].at = "raised" => run[r].notes \subseteq excused
  /\ run[r].at = "reset" => run[r].notes \subseteq examined
RunInv == \A r \in Runs : Accounted(r)

GamInv == GamTypeOK /\ FlowInv /\ MakingInv /\ RunInv /\ EveryNoteHasItsTurn

WriterState ==
  [at : {"idle", "constructed", "stored", "detected"}, fact : Facts \cup {NoFact}, shift : BOOLEAN]
RunState ==
  [at : {"idle", "started", "scanned", "promoted", "raised", "reset"}, notes : SUBSET Facts]

\* Starting a run: what it changes, for either caller.
LEMMA StartEffect ==
  ASSUME GamTypeOK, NEW r \in Runs, Started(r)
  PROVE /\ runs' \in 0..MaxRuns
        /\ run' \in [Runs -> RunState]
        /\ excused \subseteq excused' /\ InTheMaking \subseteq excused'
        /\ excused' = excused \cup InTheMaking
        /\ run'[r].at = "started" /\ run'[r].notes = {}
        /\ \A q \in Runs \ {r} : run'[q] = run[q]
BY GamConstants DEF GamTypeOK, Started, RunState

\* Notes under construction are notes.
LEMMA MakingFacts == GamTypeOK /\ FlowInv => InTheMaking \subseteq Facts
BY DEF GamTypeOK, FlowInv, InTheMaking

\* What each step of remember() does to the notes, the writers and the runs.
LEMMA ConstructEffect ==
  ASSUME GamInv, NEW w \in Writing, NEW n \in Facts, Construct(w, n)
  PROVE /\ created' \in [Facts -> 0..clock'] /\ clock' \in Nat /\ clock' = clock + 1
        /\ created'[n] = clock /\ \A m \in Facts \ {n} : created'[m] = created[m]
        /\ writer' \in [Writing -> WriterState]
        /\ writer'[w].at = "constructed" /\ writer'[w].fact = n
        /\ \A v \in Writing \ {w} : writer'[v] = writer[v]
        /\ excused' \subseteq Facts /\ excused \subseteq excused' /\ (UnderWay => n \in excused')
BY DEF GamInv, GamTypeOK, Construct, WriterState

\* _detect_shift(): the writer goes on with the fact it has stored.
LEMMA DetectEffect ==
  ASSUME GamInv, NEW w \in Writing, NEW b \in BOOLEAN, DetectShift(w, b)
  PROVE /\ writer' \in [Writing -> WriterState]
        /\ writer[w].at = "stored" /\ writer'[w].at = "detected" /\ writer'[w].fact = writer[w].fact
        /\ \A v \in Writing \ {w} : writer'[v] = writer[v]
<1> DEFINE s == Cardinality(epg) >= MinEpgSize /\ (b \/ EntityNovelty(writer[w].fact))
<1>1. s \in BOOLEAN OBVIOUS
<1>2. writer' = [writer EXCEPT ![w].at = "detected", ![w].shift = s] BY DEF DetectShift
<1>3. writer \in [Writing -> WriterState] BY DEF GamInv, GamTypeOK, WriterState
<1>4. writer[w].at = "stored" BY DEF DetectShift
<1> HIDE DEF s
<1> QED BY <1>1, <1>2, <1>3, <1>4 DEF WriterState

\* The note under construction is stored, and nothing else.
LEMMA StoreNoteEffect ==
  ASSUME GamInv, NEW w \in Writing, StoreNote(w)
  PROVE /\ writer[w].at = "constructed" /\ writer'[w].at = "stored" /\ writer'[w].fact = writer[w].fact
        /\ \A v \in Writing \ {w} : writer'[v] = writer[v]
        /\ writer[w].fact \in InTheMaking /\ stored' = stored \cup {writer[w].fact}
BY DEF GamInv, GamTypeOK, StoreNote, WriterState, InTheMaking

\* A step that constructs no note makes nothing new under construction.
LEMMA MakingShrinks ==
  ASSUME \A w \in Writing : writer'[w].at = "constructed" =>
           writer[w].at = "constructed" /\ writer'[w].fact = writer[w].fact
  PROVE InTheMaking' \subseteq InTheMaking
BY DEF InTheMaking

\* Each step of the writers and of the runs keeps the types.
LEMMA GamTypeStep == GamInv /\ [GamNext]_gamVars => GamTypeOK'
<1> SUFFICES ASSUME GamInv, [GamNext]_gamVars PROVE GamTypeOK'
  OBVIOUS
<1>0. GamTypeOK BY DEF GamInv
<1> USE DEF WriterState, RunState
<1>1. CASE UNCHANGED gamVars BY <1>0, <1>1 DEF gamVars, GamTypeOK
<1>2. ASSUME NEW w \in Writing, NEW n \in Facts, Construct(w, n) PROVE GamTypeOK'
  BY <1>0, <1>2, ConstructEffect DEF GamTypeOK, Construct
<1>3. ASSUME NEW w \in Writing, StoreNote(w) PROVE GamTypeOK'
  BY <1>0, <1>3 DEF GamTypeOK, StoreNote, GamInv, FlowInv
<1>4. ASSUME NEW w \in Writing, NEW b \in BOOLEAN, DetectShift(w, b) PROVE GamTypeOK'
  <2>1. writer' \in [Writing -> WriterState] BY <1>4, DetectEffect
  <2> QED BY <1>0, <1>4, <2>1 DEF GamTypeOK, DetectShift
<1>5. ASSUME NEW w \in Writing, Observe(w) PROVE GamTypeOK'
  <2>1. writer' \in [Writing -> WriterState] /\ epg' \subseteq stored
    BY <1>0, <1>5 DEF Observe, GamTypeOK, Idle_, GamInv, FlowInv
  <2>2. CASE Started("async")
    BY <1>0, <1>5, <2>1, <2>2, StartEffect, MakingFacts DEF Observe, GamTypeOK, Runs, GamInv
  <2>3. CASE UNCHANGED <<run, runs, excused>>
    BY <1>0, <1>5, <2>1, <2>3 DEF Observe, GamTypeOK
  <2> QED BY <1>5, <2>2, <2>3 DEF Observe
<1>6. ASSUME NEW n \in Facts, Supersede(n) PROVE GamTypeOK' BY <1>0, <1>6 DEF GamTypeOK, Supersede
<1>7. CASE ConsolidateNow
  BY <1>0, <1>7, StartEffect, MakingFacts DEF ConsolidateNow, GamTypeOK, Runs, GamInv, windowVars
<1>8. CASE Shutdown BY <1>0, <1>8 DEF GamTypeOK, Shutdown
<1>9. ASSUME NEW r \in Runs, Skip(r) \/ Scan(r) PROVE GamTypeOK'
  BY <1>0, <1>9 DEF GamTypeOK, Skip, Scan, Candidates, windowVars
<1>10. ASSUME NEW r \in Runs, Promote(r) PROVE GamTypeOK'
  <2>1. run[r].notes \subseteq stored BY DEF GamInv, FlowInv
  <2>2. tierA' \subseteq stored BY <1>0, <1>10, <2>1 DEF GamTypeOK, Promote, Promotable
  <2> QED BY <1>0, <1>10, <2>2 DEF GamTypeOK, Promote, windowVars
<1>11. ASSUME NEW r \in Runs, ScanRaises(r) PROVE GamTypeOK'
  BY <1>0, <1>11, GamConstants DEF GamTypeOK, ScanRaises, windowVars
<1>12. ASSUME NEW r \in Runs, ResetWindow(r) PROVE GamTypeOK'
  BY <1>0, <1>12 DEF GamTypeOK, ResetWindow, GamInv, FlowInv
<1>13. ASSUME NEW r \in Runs, Stamp(r) PROVE GamTypeOK' BY <1>0, <1>13 DEF GamTypeOK, Stamp
<1> QED BY <1>1, <1>2, <1>3, <1>4, <1>5, <1>6, <1>7, <1>8, <1>9, <1>10, <1>11, <1>12, <1>13 DEF GamNext

\* Observe(): the writer is idle again, and a run may have started.
LEMMA ObserveEffect ==
  ASSUME GamInv, NEW w \in Writing, Observe(w)
  PROVE /\ writer[w].at = "detected" /\ writer'[w].at = "idle"
        /\ \A v \in Writing \ {w} : writer'[v] = writer[v]
        /\ \/ Started("async") /\ run["async"].at = "idle"
           \/ UNCHANGED <<run, runs, excused>>
BY DEF GamInv, GamTypeOK, Observe, Idle_

\* A step of a run: nobody else's run or writer is touched.
RunStep(r) == Skip(r) \/ Scan(r) \/ Promote(r) \/ ScanRaises(r) \/ ResetWindow(r) \/ Stamp(r)
\* Nobody else's run or writer is touched, and only Stamp sets lastRun.
LEMMA RunStepEffect ==
  ASSUME GamInv, NEW r \in Runs, RunStep(r)
  PROVE /\ UNCHANGED <<created, stored, superseded, writer>>
        /\ \A q \in Runs \ {r} : run'[q] = run[q]
        /\ run[r].at # "idle" /\ run[r].at \in {"started"} \cup PastScan
        /\ examined \subseteq examined' /\ excused \subseteq excused'
        /\ lastRun' = lastRun \/ Stamp(r)
BY DEF GamInv, GamTypeOK, RunStep, Skip, Scan, Promote, ScanRaises, ResetWindow, Stamp, windowVars, PastScan

\* Each step keeps the way of a note: one that is observed, scanned or examined is stored.
LEMMA FlowStep == GamInv /\ [GamNext]_gamVars => FlowInv'
<1> SUFFICES ASSUME GamInv, [GamNext]_gamVars PROVE FlowInv'
  OBVIOUS
<1>0. GamTypeOK /\ FlowInv BY DEF GamInv
<1>1. CASE UNCHANGED gamVars BY <1>0, <1>1 DEF gamVars, FlowInv
<1>2. ASSUME NEW w \in Writing, NEW n \in Facts, Construct(w, n) PROVE FlowInv'
  <2>1. UNCHANGED <<stored, run>> BY <1>2 DEF Construct
  <2> QED BY <1>0, <1>2, <2>1, ConstructEffect DEF FlowInv
<1>3. ASSUME NEW w \in Writing, StoreNote(w) PROVE FlowInv'
  <2>1. UNCHANGED run BY <1>3 DEF StoreNote
  <2> QED BY <1>0, <1>3, <2>1, StoreNoteEffect DEF FlowInv
<1>4. ASSUME NEW w \in Writing, NEW b \in BOOLEAN, DetectShift(w, b) PROVE FlowInv'
  <2>1. UNCHANGED <<stored, run>> BY <1>4 DEF DetectShift
  <2> QED BY <1>0, <1>4, <2>1, DetectEffect DEF FlowInv
<1>5. ASSUME NEW w \in Writing, Observe(w) PROVE FlowInv'
  <2>1. UNCHANGED stored BY <1>5 DEF Observe
  <2>2. CASE UNCHANGED run BY <1>0, <1>5, <2>1, <2>2, ObserveEffect DEF FlowInv
  <2>3. CASE Started("async")
    BY <1>0, <1>5, <2>1, <2>3, ObserveEffect, StartEffect DEF FlowInv, Runs
  <2> QED BY <1>5, <2>2, <2>3, ObserveEffect
<1>6. CASE ConsolidateNow
  <2>1. Started("now") /\ UNCHANGED <<stored, writer>> BY <1>6 DEF ConsolidateNow, windowVars
  <2> QED BY <1>0, <2>1, StartEffect DEF FlowInv, Runs
<1>7. CASE Shutdown \/ \E n \in Facts : Supersede(n) BY <1>0, <1>7 DEF FlowInv, Shutdown, Supersede
<1>8. ASSUME NEW r \in Runs, RunStep(r) PROVE FlowInv'
  <2>1. run'[r].notes \in {run[r].notes, {}, Candidates}
    BY <1>0, <1>8 DEF GamTypeOK, RunStep, Skip, Scan, Promote, ScanRaises, ResetWindow, Stamp
  <2>2. Candidates \subseteq stored BY DEF Candidates
  <2> QED BY <1>0, <1>8, <2>1, <2>2, RunStepEffect DEF FlowInv
<1> QED BY <1>1, <1>2, <1>3, <1>4, <1>5, <1>6, <1>7, <1>8 DEF GamNext, RunStep

\* A note is constructed at a time no run has ended after, and excused if one is under way.
LEMMA MakingStep == GamInv /\ [GamNext]_gamVars => MakingInv'
<1> SUFFICES ASSUME GamInv, [GamNext]_gamVars PROVE MakingInv'
  OBVIOUS
<1>0. GamTypeOK /\ FlowInv /\ MakingInv BY DEF GamInv
<1>1. CASE UNCHANGED gamVars BY <1>0, <1>1 DEF gamVars, MakingInv, InTheMaking, UnderWay
<1>2. ASSUME NEW w \in Writing, NEW n \in Facts, Construct(w, n) PROVE MakingInv'
  <2>1. UNCHANGED <<run, lastRun>> BY <1>2 DEF Construct
  <2>2. UnderWay' <=> UnderWay BY <2>1 DEF UnderWay
  <2>3. InTheMaking' \subseteq InTheMaking \cup {n} /\ InTheMaking \subseteq Facts
    BY <1>0, <1>2, ConstructEffect, MakingFacts DEF InTheMaking
  <2>4. ~(created'[n] < lastRun') BY <1>0, <1>2, <2>1, ConstructEffect DEF GamTypeOK
  <2>5. (UnderWay => n \in excused') /\ excused \subseteq excused' BY <1>2, ConstructEffect
  <2>6. \A m \in Facts \ {n} : created'[m] = created[m] BY <1>2, ConstructEffect
  <2> QED BY <1>0, <2>1, <2>2, <2>3, <2>4, <2>5, <2>6 DEF MakingInv
<1>3. ASSUME NEW w \in Writing, NEW b \in BOOLEAN, StoreNote(w) \/ DetectShift(w, b) PROVE MakingInv'
  <2>1. UNCHANGED <<run, lastRun, created, excused>> BY <1>3 DEF StoreNote, DetectShift
  <2>2. InTheMaking' \subseteq InTheMaking BY <1>3, MakingShrinks, StoreNoteEffect, DetectEffect
  <2> QED BY <1>0, <2>1, <2>2 DEF MakingInv, UnderWay
<1>4. ASSUME NEW w \in Writing, Observe(w) PROVE MakingInv'
  <2>1. UNCHANGED <<created, lastRun>> BY <1>4 DEF Observe
  <2>2. InTheMaking' \subseteq InTheMaking BY <1>4, MakingShrinks, ObserveEffect
  <2>3. CASE UNCHANGED <<run, runs, excused>> BY <1>0, <2>1, <2>2, <2>3 DEF MakingInv, UnderWay
  <2>4. CASE Started("async")
    <3>1. InTheMaking \subseteq excused' BY <1>0, <2>4, StartEffect DEF Runs
    <3> QED BY <2>2, <3>1 DEF MakingInv
  <2> QED BY <1>4, <2>3, <2>4, ObserveEffect
<1>5. CASE ConsolidateNow
  <2>1. Started("now") /\ UNCHANGED writer BY <1>5 DEF ConsolidateNow, windowVars
  <2>2. InTheMaking' \subseteq InTheMaking BY <2>1 DEF InTheMaking
  <2>3. InTheMaking \subseteq excused' BY <1>0, <2>1, StartEffect DEF Runs
  <2> QED BY <2>2, <2>3 DEF MakingInv
<1>6. CASE Shutdown \/ \E n \in Facts : Supersede(n)
  BY <1>0, <1>6 DEF MakingInv, Shutdown, Supersede, InTheMaking, UnderWay
<1>7. ASSUME NEW r \in Runs, RunStep(r) PROVE MakingInv'
  <2>1. UnderWay /\ InTheMaking' = InTheMaking /\ excused \subseteq excused'
    BY <1>7, RunStepEffect DEF UnderWay, InTheMaking
  <2> QED BY <1>0, <2>1 DEF MakingInv
<1> QED BY <1>1, <1>2, <1>3, <1>4, <1>5, <1>6, <1>7 DEF GamNext, RunStep

\* A run that has scanned accounts for every note stored since: it was under construction.
LEMMA RunInvStep == GamInv /\ [GamNext]_gamVars => RunInv'
<1> SUFFICES ASSUME GamInv, [GamNext]_gamVars, NEW q \in Runs PROVE Accounted(q)'
  BY DEF RunInv
<1>0. GamTypeOK /\ FlowInv /\ MakingInv /\ Accounted(q) /\ EveryNoteHasItsTurn BY DEF GamInv, RunInv
<1>1. CASE UNCHANGED <<run, stored, superseded, examined, excused>> BY <1>0, <1>1 DEF Accounted
<1>2. ASSUME NEW w \in Writing, NEW n \in Facts, Construct(w, n) PROVE Accounted(q)'
  <2>1. UNCHANGED <<run, stored, superseded, examined>> BY <1>2 DEF Construct
  <2> QED BY <1>0, <1>2, <2>1, ConstructEffect DEF Accounted
<1>3. ASSUME NEW w \in Writing, StoreNote(w) PROVE Accounted(q)'
  <2>1. UNCHANGED <<run, superseded, examined, excused>> BY <1>3 DEF StoreNote
  <2>2. run[q].at \in PastScan => UnderWay BY DEF UnderWay, PastScan
  <2>3. run[q].at \in PastScan => writer[w].fact \in excused
    BY <1>0, <1>3, <2>2, StoreNoteEffect DEF MakingInv
  <2> QED BY <1>0, <1>3, <2>1, <2>3, StoreNoteEffect DEF Accounted
<1>4. ASSUME NEW r \in Runs, Started(r), UNCHANGED <<stored, superseded, examined>> PROVE Accounted(q)'
  <2>1. CASE q = r BY <1>0, <1>4, <2>1, StartEffect DEF Accounted, PastScan
  <2>2. CASE q # r BY <1>0, <1>4, <2>2, StartEffect DEF Accounted
  <2> QED BY <2>1, <2>2
<1>5. ASSUME NEW w \in Writing, Observe(w) PROVE Accounted(q)'
  <2>1. UNCHANGED <<stored, superseded, examined>> BY <1>5 DEF Observe
  <2> QED BY <1>1, <1>4, <1>5, <2>1, ObserveEffect DEF Runs
<1>6. CASE ConsolidateNow BY <1>4, <1>6 DEF ConsolidateNow, windowVars, Runs
<1>7. ASSUME NEW n \in Facts, Supersede(n) PROVE Accounted(q)' BY <1>0, <1>7 DEF Supersede, Accounted
<1>8. ASSUME NEW r \in Runs, RunStep(r) PROVE Accounted(q)'
  <2>1. CASE q # r BY <1>0, <1>8, <2>1, RunStepEffect DEF Accounted
  <2>2. CASE q = r /\ Scan(r)
    <3>1. run'[r].notes = Candidates /\ run'[r].at = "scanned" /\ UNCHANGED <<stored, superseded, examined, excused>>
      BY <1>0, <2>2 DEF Scan, GamTypeOK, windowVars
    <3>2. \A n \in stored : created[n] \in Nat /\ lastRun \in Nat BY <1>0 DEF GamTypeOK
    <3>3. \A n \in stored \ superseded : n \in Candidates \cup examined \cup excused
      BY <1>0, <3>2 DEF Candidates, EveryNoteHasItsTurn
    <3> QED BY <2>2, <3>1, <3>3 DEF Accounted
  <2>3. CASE q = r /\ (Skip(r) \/ Promote(r) \/ ScanRaises(r) \/ ResetWindow(r) \/ Stamp(r))
    BY <1>0, <2>3 DEF Accounted, PastScan, GamTypeOK, Skip, Promote, ScanRaises, ResetWindow, Stamp, windowVars
  <2> QED BY <1>8, <2>1, <2>2, <2>3 DEF RunStep
<1>9. CASE Shutdown \/ \E w \in Writing, b \in BOOLEAN : DetectShift(w, b)
  BY <1>1, <1>9 DEF Shutdown, DetectShift
<1>10. CASE UNCHANGED gamVars BY <1>1, <1>10 DEF gamVars
<1> QED BY <1>2, <1>3, <1>5, <1>6, <1>7, <1>8, <1>9, <1>10 DEF GamNext, RunStep

\* Only Stamp() moves lastRun, and by then its run has accounted for every note.
LEMMA TurnStep == GamInv /\ [GamNext]_gamVars => EveryNoteHasItsTurn'
<1> SUFFICES ASSUME GamInv, [GamNext]_gamVars PROVE EveryNoteHasItsTurn'
  OBVIOUS
<1>0. GamTypeOK /\ FlowInv /\ MakingInv /\ RunInv /\ EveryNoteHasItsTurn BY DEF GamInv
<1>1. ASSUME UNCHANGED <<created, lastRun, stored>>, superseded \subseteq superseded',
             examined \subseteq examined', excused \subseteq excused'
      PROVE EveryNoteHasItsTurn'
  BY <1>0, <1>1 DEF EveryNoteHasItsTurn
<1>2. ASSUME NEW w \in Writing, NEW n \in Facts, Construct(w, n) PROVE EveryNoteHasItsTurn'
  <2>1. UNCHANGED <<stored, superseded, examined, lastRun>> BY <1>2 DEF Construct
  <2>2. ~(created'[n] < lastRun') BY <1>0, <1>2, <2>1, ConstructEffect DEF GamTypeOK
  <2>3. excused \subseteq excused' /\ \A m \in Facts \ {n} : created'[m] = created[m]
    BY <1>2, ConstructEffect
  <2>4. stored \subseteq Facts BY <1>0 DEF GamTypeOK
  <2> QED BY <1>0, <2>1, <2>2, <2>3, <2>4 DEF EveryNoteHasItsTurn
<1>3. ASSUME NEW w \in Writing, StoreNote(w) PROVE EveryNoteHasItsTurn'
  <2>1. UNCHANGED <<created, superseded, lastRun, examined, excused>> BY <1>3 DEF StoreNote
  <2> QED BY <1>0, <1>3, <2>1, StoreNoteEffect DEF EveryNoteHasItsTurn, MakingInv
<1>4. CASE \E w \in Writing : Observe(w) \/ \E b \in BOOLEAN : DetectShift(w, b)
  BY <1>1, <1>4 DEF Observe, Started, DetectShift
<1>5. CASE Shutdown \/ ConsolidateNow \/ \E n \in Facts : Supersede(n)
  BY <1>1, <1>5 DEF Shutdown, ConsolidateNow, Started, Supersede, windowVars
<1>6. ASSUME NEW r \in Runs, RunStep(r) PROVE EveryNoteHasItsTurn'
  <2>1. CASE ~Stamp(r) BY <1>1, <1>6, <2>1, RunStepEffect
  <2>2. CASE Stamp(r)
    <3>1. Accounted(r) /\ run[r].at \in {"reset", "raised"} BY <1>0, <2>2 DEF RunInv, Stamp
    <3>2. \A n \in stored \ superseded : n \in examined \cup excused BY <3>1 DEF Accounted, PastScan
    <3>3. UNCHANGED <<stored, superseded, examined, excused>> BY <2>2 DEF Stamp
    <3> QED BY <3>2, <3>3 DEF EveryNoteHasItsTurn
  <2> QED BY <2>1, <2>2
<1>7. CASE UNCHANGED gamVars BY <1>1, <1>7 DEF gamVars
<1> QED BY <1>2, <1>3, <1>4, <1>5, <1>6, <1>7 DEF GamNext, RunStep

\* The invariant of the consolidation, from an empty store on.
LEMMA GamInductive == GamSpec => []GamInv
<1>1. GamInit => GamInv
  <2> SUFFICES ASSUME GamInit PROVE GamInv
    OBVIOUS
  <2>1. accepting \in BOOLEAN BY DEF GamInit
  <2>2. GamTypeOK BY <2>1, GamConstants DEF GamInit, GamTypeOK, Idle_
  <2>3. FlowInv /\ RunInv BY DEF GamInit, FlowInv, RunInv, Accounted, PastScan, Idle_
  <2>4. MakingInv /\ EveryNoteHasItsTurn
    BY DEF GamInit, MakingInv, EveryNoteHasItsTurn, InTheMaking, Idle_
  <2> QED BY <2>2, <2>3, <2>4 DEF GamInv
<1>2. GamInv /\ [GamNext]_gamVars => GamInv'
  BY GamTypeStep, FlowStep, MakingStep, RunInvStep, TurnStep DEF GamInv
<1> QED BY <1>1, <1>2, PTL DEF GamSpec

\* The window, the writers and the runs stay within their types, and only stored notes are
\* superseded, promoted, observed or examined.
THEOREM GamTypeCorrect == GamSpec => []GamTypeOK
BY GamInductive, PTL DEF GamInv

\* No note falls between two consolidation runs, but for notes under construction beside one
\* and the notes of one that raised (consolidation.py:235 and :322).
THEOREM EveryNoteHasItsTurnCorrect == GamSpec => []EveryNoteHasItsTurn
BY GamInductive, PTL DEF GamInv

-----------------------------------------------------------------------------
(* The composition of the stores *)

\* A step of the composition is a step of one component and leaves the others alone.
LEMMA SqliteAlone == StoresSpec => SqliteSpec
<1>1. StoresInit => SqliteInit BY DEF StoresInit
<1>2. [StoresNext]_storesVars => [SqliteNext]_sqliteVars BY DEF StoresNext, storesVars
<1> QED BY <1>1, <1>2, PTL DEF StoresSpec, SqliteSpec

\* The JSONL note store.
LEMMA JsonlAlone == StoresSpec => JsonlSpec
<1>1. StoresInit => JsonlInit BY DEF StoresInit
<1>2. [StoresNext]_storesVars => [JsonlNext]_jsonlVars BY DEF StoresNext, storesVars
<1> QED BY <1>1, <1>2, PTL DEF StoresSpec, JsonlSpec

\* The entity index.
LEMMA IndexAlone == StoresSpec => IndexSpec
<1>1. StoresInit => IndexInit BY DEF StoresInit
<1>2. [StoresNext]_storesVars => [IndexNext]_indexVars BY DEF StoresNext, storesVars
<1> QED BY <1>1, <1>2, PTL DEF StoresSpec, IndexSpec

\* The JSONL knowledge graph.
LEMMA GraphLogAlone == StoresSpec => GraphLogSpec
<1>1. StoresInit => GraphLogInit BY DEF StoresInit
<1>2. [StoresNext]_storesVars => [GraphLogNext]_graphVars BY DEF StoresNext, storesVars
<1> QED BY <1>1, <1>2, PTL DEF StoresSpec, GraphLogSpec

\* The consolidation.
LEMMA GamAlone == StoresSpec => GamSpec
<1>1. StoresInit => GamInit BY DEF StoresInit
<1>2. [StoresNext]_storesVars => [GamNext]_gamVars BY DEF StoresNext, storesVars
<1> QED BY <1>1, <1>2, PTL DEF StoresSpec, GamSpec

\* The maintenance of the LanceDB tables.
LEMMA LanceAlone == StoresSpec => LanceSpec
<1>1. StoresInit => LanceInit BY DEF StoresInit
<1>2. [StoresNext]_storesVars => [LanceNext]_lanceVars BY DEF StoresNext, storesVars
<1> QED BY <1>1, <1>2, PTL DEF StoresSpec, LanceSpec

\* In every state of every run of the stores together each of them is of its type.
THEOREM StoresTypeCorrect == StoresSpec => []StoresTypeOK
<1>1. StoresSpec => []SqliteTypeOK BY SqliteAlone, SqliteTypeCorrect, PTL
<1>2. StoresSpec => []JsonlTypeOK BY JsonlAlone, JsonlTypeCorrect, PTL
<1>3. StoresSpec => []IndexTypeOK BY IndexAlone, IndexTypeCorrect, PTL
<1>4. StoresSpec => []GraphLogTypeOK BY GraphLogAlone, GraphLogTypeCorrect, PTL
<1>5. StoresSpec => []GamTypeOK BY GamAlone, GamTypeCorrect, PTL
<1>6. StoresSpec => []LanceTypeOK BY LanceAlone, LanceTypeCorrect, PTL
<1>7. SqliteTypeOK /\ JsonlTypeOK /\ IndexTypeOK /\ GraphLogTypeOK /\ GamTypeOK /\ LanceTypeOK => StoresTypeOK
  BY DEF StoresTypeOK
<1> QED BY <1>1, <1>2, <1>3, <1>4, <1>5, <1>6, <1>7, PTL

\* What the stores promise on disk and on a restart, and what their background threads still owe.
StoresPromises ==
  /\ DurableExplained /\ EdgesHaveNodes /\ ScanMissesNothing
  /\ DiskCurrentUnlessOvertaken /\ UnsavedAccessIsPending
  /\ ChangesReachFile /\ RestartAgrees /\ EveryNoteHasItsTurn /\ ThreadsFollowTables

\* What each of the stores promises holds of them together: commits are explained, edges have their
\* nodes, scans are complete, the files keep up, the replayed log agrees, every note has its turn and
\* every table its thread.
THEOREM StoresCorrect == StoresSpec => []StoresPromises
<1>1. StoresSpec => []DurableExplained /\ []EdgesHaveNodes /\ []ScanMissesNothing
  BY SqliteAlone, CommittedExplained, CommittedEdgesClosed, ScanComplete, PTL
<1>2. StoresSpec => []DiskCurrentUnlessOvertaken /\ []UnsavedAccessIsPending
  BY JsonlAlone, DiskCurrentCorrect, UnsavedAccessCorrect, PTL
<1>3. StoresSpec => []ChangesReachFile /\ []RestartAgrees
  BY IndexAlone, ChangesReachFileCorrect, GraphLogAlone, RestartAgreesCorrect, PTL
<1>4. StoresSpec => []EveryNoteHasItsTurn /\ []ThreadsFollowTables
  BY GamAlone, EveryNoteHasItsTurnCorrect, LanceAlone, ThreadsFollowTablesCorrect, PTL
<1>5. /\ DurableExplained /\ EdgesHaveNodes /\ ScanMissesNothing
      /\ DiskCurrentUnlessOvertaken /\ UnsavedAccessIsPending
      /\ ChangesReachFile /\ RestartAgrees /\ EveryNoteHasItsTurn /\ ThreadsFollowTables
      => StoresPromises
  BY DEF StoresPromises
<1> QED BY <1>1, <1>2, <1>3, <1>4, <1>5, PTL
=============================================================================
