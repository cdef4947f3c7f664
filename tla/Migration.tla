------------------------------- MODULE Migration -------------------------------
(***************************************************************************)
(* scripts/migrate_jsonl_to_sqlite.py: notes, graph nodes, graph edges and *)
(* entity mappings are read line by line from the old files and written to *)
(* SQLite; a line that cannot be read or written is reported and passed    *)
(* over.  Edges name their ends by the ids of the nodes this run has       *)
(* migrated.  The script may be run again, also after it was killed, and   *)
(* the application may already be writing notes, edges and mappings to the *)
(* database, and taking notes and mappings out of it.                      *)
(***************************************************************************)
EXTENDS Integers, Sequences

CONSTANTS MNote, MContent,     \* note ids and contents
          OldFiles,            \* what the four files may hold, line by line
          LiveEdges,           \* edges that the application may write, from its own entities
          MaxMigrations, MaxWriteErrors, MaxSaves     \* bounds of the search

\* A node's line repeats its id and entity whenever the node is written again.
ASSUME OldFilesRead ==
  \A f \in OldFiles :
    /\ DOMAIN f = {"notes", "nodes", "edges", "mappings"}
    /\ \A file \in DOMAIN f : f[file] \in Seq({f[file][i] : i \in DOMAIN f[file]})
    /\ \A i \in DOMAIN f["notes"] : f["notes"][i].ok => f["notes"][i].id \in MNote /\ f["notes"][i].content \in MContent
    /\ \A i, j \in DOMAIN f["nodes"] :
         f["nodes"][i].ok /\ f["nodes"][j].ok /\ f["nodes"][i].id = f["nodes"][j].id /\ f["nodes"][i].id # "" =>
           f["nodes"][i].entity = f["nodes"][j].entity
ASSUME MigrationBounds == MaxMigrations \in Nat /\ MaxWriteErrors \in Nat /\ MaxSaves \in Nat

VARIABLES old,       \* the files, which no step changes
          db,        \* the tables of zettelforge.db
          script,    \* the run under way
          live,      \* what the application wrote and took out (history)
          migrations, writeErrors, saves
migrationVars == <<old, db, script, live, migrations, writeErrors, saves>>

NoContent == "absent"
Untouched == "untouched"
\* What it left of each note during this run, the notes whose mappings it removed during it, and
\* all that it ever put into the graph and the index.
Inactive == [left |-> [n \in MNote |-> Untouched], unmapped |-> {}, nodes |-> {}, edges |-> {}, mappings |-> {}]
Unrun == [at |-> "idle", dry |-> FALSE, line |-> 1, lookup |-> <<>>, whole |-> TRUE]

MigrationTypeOK ==
  /\ old \in OldFiles
  /\ db.note \in [MNote -> MContent \cup {NoContent}]
  /\ \A e \in db.edges : {e[1], e[3]} \subseteq db.nodes
  /\ script.at \in {"idle", "notes", "nodes", "edges", "mappings", "done"} /\ script.line \in Nat
  /\ live.left \in [MNote -> MContent \cup {NoContent, Untouched}] /\ live.unmapped \subseteq MNote
  /\ live.edges \subseteq LiveEdges /\ migrations \in 0..MaxMigrations
  /\ writeErrors \in 0..MaxWriteErrors /\ saves \in 0..MaxSaves

MigrationInit ==
  /\ old \in OldFiles
  /\ db = [note |-> [n \in MNote |-> NoContent], nodes |-> {}, edges |-> {}, mappings |-> {}]
  /\ script = Unrun /\ live = Inactive /\ migrations = 0 /\ writeErrors = 0 /\ saves = 0

StartMigration(dry) ==
  /\ script.at \in {"idle", "done"} /\ migrations < MaxMigrations
  /\ migrations' = migrations + 1
  /\ script' = [Unrun EXCEPT !.at = "notes", !.dry = dry]
  /\ live' = [live EXCEPT !.left = Inactive.left, !.unmapped = {}]
  /\ UNCHANGED <<old, db, writeErrors, saves>>

Line == old[script.at][script.line]
\* An edge whose ends this run has not seen is counted as skipped.
Resolvable(e) == {e.from, e.to} \subseteq DOMAIN script.lookup
Writable == Line.ok /\ (script.at = "edges" => Resolvable(Line))

\* What the line leaves in the database: INSERT OR REPLACE for a note, upserts and INSERT OR
\* IGNORE for the rest; add_kg_edge makes sure of both nodes.
Written ==
  CASE script.at = "notes" -> [db EXCEPT !.note[Line.id] = Line.content]
    [] script.at = "nodes" -> [db EXCEPT !.nodes = @ \cup {Line.entity}]
    [] script.at = "edges" ->
         LET from == script.lookup[Line.from]
             to == script.lookup[Line.to] IN
         [db EXCEPT !.nodes = @ \cup {from, to}, !.edges = @ \cup {<<from, Line.rel, to>>}]
    [] script.at = "mappings" -> [db EXCEPT !.mappings = @ \cup {<<Line.entity, Line.note>>}]
Learned ==
  IF script.at = "nodes" /\ Line.id # ""
  THEN [i \in DOMAIN script.lookup \cup {Line.id} |-> IF i = Line.id THEN Line.entity ELSE script.lookup[i]]
  ELSE script.lookup

\* --dry-run has printed its notice; from here on the flag is not looked at.
MigrateLine ==
  /\ script.at \in DOMAIN old /\ script.line <= Len(old[script.at])
  /\ db' = IF Writable THEN Written ELSE db
  /\ script' = [script EXCEPT !.line = @ + 1, !.lookup = IF Writable THEN Learned ELSE @]
  /\ UNCHANGED <<old, live, migrations, writeErrors, saves>>

\* A write raises.  When that was its commit, the next commit takes the row along.
WriteFails(kept) ==
  /\ script.at \in DOMAIN old /\ script.line <= Len(old[script.at])
  /\ Writable /\ writeErrors < MaxWriteErrors
  /\ writeErrors' = writeErrors + 1
  /\ db' = IF kept THEN Written ELSE db
  /\ script' = [script EXCEPT !.line = @ + 1, !.whole = FALSE]
  /\ UNCHANGED <<old, live, migrations, saves>>

\* Mutation of NextFile: the edges before the nodes.
NextFileEdgesFirst(file) ==
  CASE file = "notes" -> "edges" [] file = "edges" -> "nodes"
    [] file = "nodes" -> "mappings" [] file = "mappings" -> "done"

NextFile(file) ==
  CASE file = "notes" -> "nodes" [] file = "nodes" -> "edges"
    [] file = "edges" -> "mappings" [] file = "mappings" -> "done"
EndOfFile ==
  /\ script.at \in DOMAIN old /\ script.line > Len(old[script.at])
  /\ script' = [script EXCEPT !.at = NextFile(@), !.line = 1]
  /\ UNCHANGED <<old, db, live, migrations, writeErrors, saves>>

\* The script is killed; every write before was committed on its own.
Kill ==
  /\ script.at \in DOMAIN old
  /\ script' = Unrun
  /\ UNCHANGED <<old, db, live, migrations, writeErrors, saves>>

-----------------------------------------------------------------------------
\* The application on the same database, one call of SQLiteBackend after another.
LiveCall == saves < MaxSaves /\ saves' = saves + 1 /\ UNCHANGED <<old, script, migrations, writeErrors>>

\* write_note and rewrite_note; delete_note, which leaves the mappings.
Save(n, c) ==
  /\ LiveCall
  /\ db' = [db EXCEPT !.note[n] = c]
  /\ live' = [live EXCEPT !.left[n] = c]

LiveEdge(e) ==
  /\ LiveCall
  /\ db' = [db EXCEPT !.nodes = @ \cup {e[1], e[3]}, !.edges = @ \cup {e}]
  /\ live' = [live EXCEPT !.nodes = @ \cup {e[1], e[3]}, !.edges = @ \cup {e}]

LiveMapping(entity, n) ==
  /\ LiveCall
  /\ db' = [db EXCEPT !.mappings = @ \cup {<<entity, n>>}]
  /\ live' = [live EXCEPT !.mappings = @ \cup {<<entity, n>>}]

\* remove_entity_mappings_for_note, of a note that is superseded
Unmap(n) ==
  /\ LiveCall
  /\ db' = [db EXCEPT !.mappings = {m \in @ : m[2] # n}]
  /\ live' = [live EXCEPT !.unmapped = @ \cup {n}]

ScriptNext ==
  \/ \E dry \in BOOLEAN : StartMigration(dry)
  \/ MigrateLine \/ EndOfFile \/ Kill
  \/ \E kept \in BOOLEAN : WriteFails(kept)
LiveNext ==
  \/ \E n \in MNote, c \in MContent \cup {NoContent} : Save(n, c)
  \/ \E e \in LiveEdges : LiveEdge(e) \/ \E n \in MNote : LiveMapping(e[1], n)
  \/ \E n \in MNote : Unmap(n)
MigrationNext == ScriptNext \/ LiveNext
MigrationSpec == MigrationInit /\ [][MigrationNext]_migrationVars

-----------------------------------------------------------------------------
Wellformed(file) == {i \in DOMAIN old[file] : old[file][i].ok}
NodeOf(id) == CHOOSE e \in {old["nodes"][i].entity : i \in {j \in Wellformed("nodes") : old["nodes"][j].id = id}} : TRUE
HasNode(id) == id # "" /\ \E i \in Wellformed("nodes") : old["nodes"][i].id = id
FileEdges == {<<NodeOf(old["edges"][i].from), old["edges"][i].rel, NodeOf(old["edges"][i].to)>> :
                i \in {j \in Wellformed("edges") : HasNode(old["edges"][j].from) /\ HasNode(old["edges"][j].to)}}

FileMappings == {<<old["mappings"][i].entity, old["mappings"][i].note>> : i \in Wellformed("mappings")}
LastLine(i) == \A j \in Wellformed("notes") : j > i => old["notes"][j].id # old["notes"][i].id

\* A run that ends without an error of the database has put everything readable there, whatever
\* earlier runs left half done: every note as its last line has it, or as the application last
\* left it during the run, the nodes, each edge whose ends have a readable node line, and the
\* mappings but those of notes whose mappings the application removed meanwhile.  A dry run is
\* not asked for anything.  And whatever runs, errors and kills there were, nothing is in the
\* graph or the index that neither the files say nor the application put there.
MigratedWhole ==
  /\ script.at = "done" /\ script.whole /\ ~script.dry =>
       /\ \A i \in Wellformed("notes") : LastLine(i) =>
            db.note[old["notes"][i].id] \in {old["notes"][i].content, live.left[old["notes"][i].id]}
       /\ {old["nodes"][i].entity : i \in Wellformed("nodes")} \subseteq db.nodes
       /\ FileEdges \subseteq db.edges
       /\ \A m \in FileMappings : m \in db.mappings \/ m[2] \in live.unmapped
  /\ db.nodes \subseteq {old["nodes"][i].entity : i \in Wellformed("nodes")} \cup live.nodes
  /\ db.edges \subseteq FileEdges \cup live.edges
  /\ db.mappings \subseteq FileMappings \cup live.mappings
=============================================================================
