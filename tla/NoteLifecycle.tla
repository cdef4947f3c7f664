------------------------------ MODULE NoteLifecycle ------------------------------
(***************************************************************************)
(* The life of a note after its text exists: remember() writes the row,    *)
(* indexes its entities and may mark an older note superseded; the two     *)
(* phase pipeline (MemoryUpdater.apply) rewrites the note it got back and  *)
(* may mark another; in the background the enrichment worker evolves       *)
(* neighbours and adds the entities an LLM found, and consolidation        *)
(* rewrites the notes it promotes.                                         *)
(*                                                                         *)
(* A row is always read whole and written whole. One step is one call on   *)
(* the store or on the JSON index; what a thread read earlier, an LLM call *)
(* of seconds ago perhaps, is the copy it writes back.                     *)
(* Of a row only the links are kept: text, vector, tier and importance     *)
(* travel with them. The graph edges of entities, LanceDB and the dispatch *)
(* of jobs (EnrichmentPipeline) are left out; the repository never deletes *)
(* a note.                                                                 *)
(***************************************************************************)
EXTENDS Integers, FiniteSets

CONSTANTS
  Writers,      \* threads that call remember() and remember_with_extraction()
  MaxNotes,     \* notes that may be constructed
  Entities,     \* entity_type and entity_value, of the types _check_supersession looks at
  Mentions,     \* Mentions[n]: what extract_all finds in the text of n, aliases resolved
  LlmMentions,  \* LlmMentions[n]: what the LLM may find in it
  Background,   \* threads that rewrite notes, a subset of {"worker", "drain", "consolidator"}
  Limits        \* the budgets a run starts with: how often each event in Bounds may happen

\* The events a run bounds: notes constructed, those of the two phase pipeline, store calls of
\* writers that raise, evolution jobs and consolidations, and NER jobs that find something.
Bounds == {"notes", "extractions", "faults", "rewrites", "discoveries"}

\* remember(), and the operations of the two phase pipeline that store a note: UPDATE and DELETE
\* differ in the note's source_type only.
Operations == {"remember", "ADD", "UPDATE"}

\* A note is its place in the order of created_at; 0 stands for None.
Notes == 1..MaxNotes
None == 0
Row == [superseded_by : Notes \cup {None}, supersedes : SUBSET Notes]
Fresh == [superseded_by |-> None, supersedes |-> {}]

ASSUME LifecycleAssumption ==
  /\ MaxNotes \in Nat
  /\ Mentions \in [Notes -> SUBSET Entities] /\ LlmMentions \in [Notes -> SUBSET Entities]
  /\ Limits \subseteq [Bounds -> Nat]
  /\ Background \subseteq {"worker", "drain", "consolidator"}

VARIABLES
  made,    \* notes constructed so far
  stored,  \* notes with a row in the table notes
  row,     \* row[n]: its links
  mapped,  \* the table entity_index: pairs <<entity, note>>
  cached,  \* the JSON entity index in memory
  edges,   \* SUPERSEDES edges <<newer, older>> of the graph
  ner,     \* notes whose llm_ner job is queued
  pc,      \* per writer
  frame,   \* per writer: the local variables of the calls it is in
  stage,   \* per background thread
  task,    \* per background thread: the job's note, the copies it read, the entities it found
  bounds,  \* what is left of the budget
  torn,    \* history: pairs <<newer, older>> whose marking was cut short by a fault
  cut,     \* history: notes whose remember() raised before their entities were mapped
  overlap  \* history: pairs of notes, the older one's call was in progress when the newer began

tables == <<stored, row, mapped, edges>>
writer == <<pc, frame>>
background == <<stage, task>>
history == <<torn, cut, overlap>>
vars == <<made, tables, cached, ner, writer, background, bounds, history>>

WriterPc == {"idle", "write", "cache", "map", "look", "scan", "read_old", "read_new", "write_old",
             "write_new", "uncache", "unmap", "edge", "dispatch", "rewrite"}
Stages == {"idle", "gather", "apply", "map", "cache"}

\* own: the note being stored; op: what apply() asked for; similar: the first similar note;
\* todo, candidates, best: of _check_supersession; old, new: of mark_note_superseded.
Frame == [own : Notes \cup {None}, op : Operations \cup {"marking"}, similar : Notes \cup {None},
          todo : SUBSET Entities, candidates : SUBSET Notes, best : Notes \cup {None},
          old : Row, new : Row]
NoFrame == [own |-> None, op |-> "remember", similar |-> None, todo |-> {}, candidates |-> {},
            best |-> None, old |-> Fresh, new |-> Fresh]

\* source: the job's note; copies: notes read whole, as pairs; found, todo: of LLM NER.
Copy == [id : Notes, row : Row]
Task == [source : Notes \cup {None}, copies : SUBSET Copy,
         found : SUBSET Entities, todo : SUBSET Entities]
NoTask == [source |-> None, copies |-> {}, found |-> {}, todo |-> {}]

Init ==
  /\ made = 0 /\ stored = {} /\ row = [n \in Notes |-> Fresh]
  /\ mapped = {} /\ cached = {} /\ edges = {} /\ ner = {}
  /\ pc = [w \in Writers |-> "idle"] /\ frame = [w \in Writers |-> NoFrame]
  /\ stage = [b \in Background |-> "idle"] /\ task = [b \in Background |-> NoTask]
  /\ bounds \in Limits /\ torn = {} /\ cut = {} /\ overlap = {}

Own(w) == frame[w].own
Best(w) == frame[w].best
Goto(w, l) == pc' = [pc EXCEPT ![w] = l]
Set(w, f) == frame' = [frame EXCEPT ![w] = f]
Return(w) == Goto(w, "idle") /\ Set(w, NoFrame)
Spend(events) ==
  /\ \A b \in events : bounds[b] > 0
  /\ bounds' = [b \in Bounds |-> IF b \in events THEN bounds[b] - 1 ELSE bounds[b]]
Rewrite(n, r) == row' = [row EXCEPT ![n] = r]

-----------------------------------------------------------------------------
(* remember() *)

\* The note is built in memory, links empty; s is the first of the similar notes the two phase
\* pipeline retrieved before, superseded ones too.
ConstructAs(w, op, s) ==
  /\ pc[w] = "idle" /\ made < MaxNotes
  /\ made' = made + 1
  /\ Spend(IF op = "remember" THEN {"notes"} ELSE {"notes", "extractions"})
  /\ Set(w, [NoFrame EXCEPT !.own = made + 1, !.op = op, !.similar = s])
  /\ Goto(w, "write")
  /\ overlap' = overlap \cup {<<Own(d), made + 1>> : d \in {d \in Writers : pc[d] # "idle"}}
  /\ UNCHANGED <<tables, cached, ner, background, torn, cut>>

Construct(w) ==
  \E op \in Operations, s \in stored \cup {None} :
    (op = "UPDATE" <=> s # None) /\ ConstructAs(w, op, s)

\* Mutation of WriteNote: a store fault is swallowed and the call goes on without a row.
WriteNoteSwallowing(w) ==
  /\ pc[w] = "write" /\ Goto(w, "cache")
  /\ UNCHANGED <<made, tables, cached, ner, frame, background, bounds, history>>

WriteNote(w) ==
  /\ pc[w] = "write"
  /\ stored' = stored \cup {Own(w)} /\ Rewrite(Own(w), Fresh)
  /\ Goto(w, "cache")
  /\ UNCHANGED <<made, mapped, edges, cached, ner, frame, background, bounds, history>>

\* indexer.add_note; a note without entities has nothing to map and no candidates.
CacheEntities(w) ==
  /\ pc[w] = "cache"
  /\ cached' = cached \cup (Mentions[Own(w)] \X {Own(w)})
  /\ Set(w, [frame[w] EXCEPT !.todo = Mentions[Own(w)]])
  /\ Goto(w, IF Mentions[Own(w)] = {} THEN "dispatch" ELSE "map")
  /\ UNCHANGED <<made, tables, ner, background, bounds, history>>

\* add_entity_mapping, one entity after the other
MapEntity(w) ==
  /\ pc[w] = "map"
  /\ \E e \in frame[w].todo :
       /\ mapped' = mapped \cup {<<e, Own(w)>>}
       /\ \/ frame[w].todo # {e} /\ Set(w, [frame[w] EXCEPT !.todo = @ \ {e}]) /\ UNCHANGED pc
          \/ frame[w].todo = {e} /\ Set(w, [frame[w] EXCEPT !.todo = Mentions[Own(w)]]) /\ Goto(w, "look")
  /\ UNCHANGED <<made, stored, row, edges, cached, ner, background, bounds, history>>

-----------------------------------------------------------------------------
(* _check_supersession *)

NotesOf(index, e) == {n \in Notes : <<e, n>> \in index}
\* The store's answer, or the JSON index where the store has none.
NoteIds(e) == IF NotesOf(mapped, e) # {} THEN NotesOf(mapped, e) ELSE NotesOf(cached, e)

\* One more entity is looked up; after the last one the candidates, if any, are scanned.
Candidates(w, e, ids) ==
  LET f == [frame[w] EXCEPT !.todo = @ \ {e}, !.candidates = @ \cup ids] IN
  /\ Set(w, f)
  /\ Goto(w, IF f.todo # {} THEN "look" ELSE IF f.candidates # {} THEN "scan" ELSE "dispatch")

\* Mutation of Look: the note itself stays among its candidates.
LookAtOwn(w) ==
  /\ pc[w] = "look"
  /\ \E e \in frame[w].todo : Candidates(w, e, NoteIds(e))
  /\ UNCHANGED <<made, tables, cached, ner, background, bounds, history>>

Look(w) ==
  /\ pc[w] = "look"
  /\ \E e \in frame[w].todo : Candidates(w, e, NoteIds(e) \ {Own(w)})
  /\ UNCHANGED <<made, tables, cached, ner, background, bounds, history>>

\* A candidate that is current when it is read beats the best so far, or not, by overlap and age;
\* every candidate shares an entity, so the first always does, and the threshold is met.
Scan(w) ==
  /\ pc[w] = "scan"
  /\ \E n \in frame[w].candidates : \E best \in {n, Best(w)} :
       LET current == n \in stored /\ row[n].superseded_by = None
           rest == frame[w].candidates \ {n} IN
       /\ IF current THEN best # None ELSE best = Best(w)
       /\ Set(w, [frame[w] EXCEPT !.candidates = rest, !.best = best])
       /\ Goto(w, IF rest # {} THEN "scan" ELSE IF best # None THEN "read_old" ELSE "dispatch")
  /\ UNCHANGED <<made, tables, cached, ner, background, bounds, history>>

-----------------------------------------------------------------------------
(* mark_note_superseded: Best(w) is superseded by Own(w). Both have rows: no note is deleted. *)

ReadOld(w) ==
  /\ pc[w] = "read_old"
  /\ Set(w, [frame[w] EXCEPT !.old = row[Best(w)]]) /\ Goto(w, "read_new")
  /\ UNCHANGED <<made, tables, cached, ner, background, bounds, history>>

ReadNew(w) ==
  /\ pc[w] = "read_new"
  /\ Set(w, [frame[w] EXCEPT !.new = row[Own(w)]]) /\ Goto(w, "write_old")
  /\ UNCHANGED <<made, tables, cached, ner, background, bounds, history>>

WriteOld(w) ==
  /\ pc[w] = "write_old"
  /\ Rewrite(Best(w), [frame[w].old EXCEPT !.superseded_by = Own(w)]) /\ Goto(w, "write_new")
  /\ UNCHANGED <<made, stored, mapped, edges, cached, ner, frame, background, bounds, history>>

WriteNew(w) ==
  /\ pc[w] = "write_new"
  /\ Rewrite(Own(w), [frame[w].new EXCEPT !.supersedes = @ \cup {Best(w)}]) /\ Goto(w, "uncache")
  /\ UNCHANGED <<made, stored, mapped, edges, cached, ner, frame, background, bounds, history>>

Without(index, n) == {x \in index : x[2] # n}

\* indexer.remove_note
Uncache(w) ==
  /\ pc[w] = "uncache"
  /\ cached' = Without(cached, Best(w)) /\ Goto(w, "unmap")
  /\ UNCHANGED <<made, tables, ner, frame, background, bounds, history>>

\* Mutation of Unmap: the mappings of the wrong one of the two notes are removed.
UnmapNew(w) ==
  /\ pc[w] = "unmap"
  /\ mapped' = Without(mapped, Own(w)) /\ Goto(w, "edge")
  /\ UNCHANGED <<made, stored, row, edges, cached, ner, frame, background, bounds, history>>

\* remove_entity_mappings_for_note
Unmap(w) ==
  /\ pc[w] = "unmap"
  /\ mapped' = Without(mapped, Best(w)) /\ Goto(w, "edge")
  /\ UNCHANGED <<made, stored, row, edges, cached, ner, frame, background, bounds, history>>

\* Who called mark_note_superseded goes on: apply() is done, remember() dispatches.
Marked(w) ==
  \/ frame[w].op = "marking" /\ Return(w)
  \/ frame[w].op # "marking" /\ Goto(w, "dispatch") /\ UNCHANGED frame

\* Mutation of AddEdge: the two ends are swapped.
AddEdgeReversed(w) ==
  /\ pc[w] = "edge"
  /\ edges' = edges \cup {<<Best(w), Own(w)>>}
  /\ Marked(w)
  /\ UNCHANGED <<made, stored, row, mapped, cached, ner, background, bounds, history>>

AddEdge(w) ==
  /\ pc[w] = "edge"
  /\ edges' = edges \cup {<<Own(w), Best(w)>>}
  /\ Marked(w)
  /\ UNCHANGED <<made, stored, row, mapped, cached, ner, background, bounds, history>>

-----------------------------------------------------------------------------
(* The end of remember(), and what apply() does with the note it returned *)

Dispatch(w) ==
  /\ pc[w] = "dispatch"
  /\ ner' = ner \cup {Own(w)}
  /\ \/ frame[w].op = "remember" /\ Return(w)
     \/ frame[w].op # "remember" /\ Goto(w, "rewrite") /\ UNCHANGED frame
  /\ UNCHANGED <<made, tables, cached, background, bounds, history>>

\* The object remember() returned still has the links it was constructed with.
RewriteReturned(w) ==
  /\ pc[w] = "rewrite"
  /\ Rewrite(Own(w), Fresh)
  /\ \/ frame[w].op = "ADD" /\ Return(w)
     \/ /\ frame[w].op = "UPDATE"
        /\ Set(w, [frame[w] EXCEPT !.op = "marking", !.best = frame[w].similar])
        /\ Goto(w, "read_old")
  /\ UNCHANGED <<made, stored, mapped, edges, cached, ner, background, bounds, history>>

\* A store call raises out of remember() or apply(): what was done stays done.
Fail(w) ==
  /\ pc[w] \notin {"idle", "cache", "uncache"} /\ Spend({"faults"})
  /\ torn' = torn \cup {x \in {<<Own(w), Best(w)>>} : pc[w] \in {"write_new", "unmap", "edge"}}
  /\ cut' = cut \cup {n \in {Own(w)} : pc[w] = "map"}
  /\ Return(w)
  /\ UNCHANGED <<made, tables, cached, ner, background, overlap>>

-----------------------------------------------------------------------------
(* Background threads: neighbour evolution and LLM NER by the worker or the drain, consolidation *)

Stage(b, l, t) == stage' = [stage EXCEPT ![b] = l] /\ task' = [task EXCEPT ![b] = t]

\* A neighbor_evolution job, of remember() or evolve_note(), or a consolidation begins to read.
BeginRewriting(b) ==
  /\ stage[b] = "idle"
  /\ Spend({"rewrites"})
  /\ \/ b = "consolidator" /\ Stage(b, "gather", NoTask)
     \/ /\ b # "consolidator"
        /\ \E n \in stored : Stage(b, "gather", [NoTask EXCEPT !.source = n])
  /\ UNCHANGED <<made, tables, cached, ner, writer, history>>

\* recall() or iterate_notes() returns a note that is not superseded when it is read. The cursor of
\* iterate_notes() may meet a row again after INSERT OR REPLACE has moved it to the end.
Gather(b) ==
  /\ stage[b] = "gather"
  /\ \/ \E n \in stored \ {task[b].source} :
          /\ row[n].superseded_by = None
          /\ b = "consolidator" \/ \A c \in task[b].copies : c.id # n
          /\ Stage(b, "gather", [task[b] EXCEPT !.copies = @ \cup {[id |-> n, row |-> row[n]]}])
     \/ Stage(b, "apply", task[b])
  /\ UNCHANGED <<made, tables, cached, ner, writer, bounds, history>>

\* apply_evolution, or the promotion to tier A: the copy is changed and written back whole, or
\* the LLM says keep, the note is contradicted, the write fails: the copy is dropped.
Apply(b) ==
  /\ stage[b] = "apply"
  /\ \/ \E c \in task[b].copies :
          /\ Rewrite(c.id, c.row) \/ UNCHANGED row
          /\ Stage(b, "apply", [task[b] EXCEPT !.copies = @ \ {c}])
     \/ task[b].copies = {} /\ Stage(b, "idle", NoTask) /\ UNCHANGED row
  /\ UNCHANGED <<made, stored, mapped, edges, cached, ner, writer, bounds, history>>

\* _run_llm_ner: the LLM's answer, empty when it found nothing new or failed.
BeginNer(b) ==
  /\ b # "consolidator" /\ stage[b] = "idle"
  /\ \E n \in ner, found \in SUBSET Entities :
       /\ found \subseteq LlmMentions[n]
       /\ ner' = ner \ {n}
       /\ \/ found = {} /\ UNCHANGED <<background, bounds>>
          \/ /\ found # {} /\ Spend({"discoveries"})
             /\ Stage(b, "map", [NoTask EXCEPT !.source = n, !.found = found, !.todo = found])
  /\ UNCHANGED <<made, tables, cached, writer, history>>

\* add_entity_mapping for each entity; an exception ends the job.
NerMap(b) ==
  /\ stage[b] = "map"
  /\ \/ \E e \in task[b].todo :
          /\ mapped' = mapped \cup {<<e, task[b].source>>}
          /\ Stage(b, "map", [task[b] EXCEPT !.todo = @ \ {e}])
     \/ task[b].todo = {} /\ Stage(b, "cache", task[b]) /\ UNCHANGED mapped
     \/ Stage(b, "idle", NoTask) /\ UNCHANGED mapped
  /\ UNCHANGED <<made, stored, row, edges, cached, ner, writer, bounds, history>>

NerCache(b) ==
  /\ stage[b] = "cache"
  /\ cached' = cached \cup (task[b].found \X {task[b].source})
  /\ Stage(b, "idle", NoTask)
  /\ UNCHANGED <<made, tables, ner, writer, bounds, history>>

-----------------------------------------------------------------------------
WriterStep(w) ==
  \/ Construct(w) \/ WriteNote(w) \/ CacheEntities(w) \/ MapEntity(w) \/ Look(w) \/ Scan(w)
  \/ ReadOld(w) \/ ReadNew(w) \/ WriteOld(w) \/ WriteNew(w) \/ Uncache(w) \/ Unmap(w) \/ AddEdge(w)
  \/ Dispatch(w) \/ RewriteReturned(w) \/ Fail(w)

BackgroundStep(b) ==
  BeginRewriting(b) \/ Gather(b) \/ Apply(b) \/ BeginNer(b) \/ NerMap(b) \/ NerCache(b)

Next ==
  \/ \E w \in Writers : WriterStep(w)
  \/ \E b \in Background : BackgroundStep(b)

Spec == Init /\ [][Next]_vars

-----------------------------------------------------------------------------
(* Properties *)

TablesOK ==
  /\ made \in 0..MaxNotes /\ stored \subseteq 1..made /\ row \in [Notes -> Row]
  /\ mapped \subseteq Entities \X Notes /\ cached \subseteq Entities \X Notes
  /\ edges \subseteq Notes \X Notes /\ ner \subseteq stored
WritersOK == pc \in [Writers -> WriterPc] /\ frame \in [Writers -> Frame]
BackgroundOK == stage \in [Background -> Stages] /\ task \in [Background -> Task]
HistoryOK ==
  /\ bounds \in [Bounds -> Nat]
  /\ torn \subseteq Notes \X Notes /\ cut \subseteq Notes /\ overlap \subseteq Notes \X Notes

\* The variables have the shape the code gives them: what is indexed or linked is a note, what
\* waits for NER has a row.
TypeOK == TablesOK /\ WritersOK /\ BackgroundOK /\ HistoryOK

\* w has written the old note's link and not yet the edge.
Marking(w, m, n) ==
  Own(w) = m /\ Best(w) = n /\ pc[w] \in {"write_new", "uncache", "unmap", "edge"}

\* A link in a row, at either end, is backed by a SUPERSEDES edge in the graph, whatever stale
\* copies are written back, unless it is being made right now or its making was cut short.
LinksHaveEdges ==
  \A m, n \in Notes :
    row[n].superseded_by = m \/ n \in row[m].supersedes =>
      <<m, n>> \in edges \/ <<m, n>> \in torn \/ \E w \in Writers : Marking(w, m, n)

\* Only two calls that ran at the same time can leave a note superseded by an older one, and no
\* note supersedes itself: outside such races the links lead to ever newer notes, so that every
\* chain of them ends in a current note.
OlderOnlyInRaces ==
  \A m, n \in Notes :
    row[n].superseded_by = m => m > n \/ <<m, n>> \in overlap

\* A note nothing ever superseded is found by every entity remember() saw in it, in the store and
\* in the JSON index: removing the mappings of one note takes none of another.
NeverSupersededIsIndexed ==
  \A n \in stored \ cut :
    \/ \E m \in Notes : <<m, n>> \in edges \cup torn
    \/ \E w \in Writers : Best(w) = n /\ pc[w] \in {"unmap", "edge"}
    \/ \E w \in Writers : Own(w) = n /\ pc[w] \in {"cache", "map"}
    \/ Mentions[n] \X {n} \subseteq mapped \cap cached

\* What the reference says of mark_note_superseded: it updates both notes' links. Once a marking
\* is over, the old note stays superseded, and the superseding note lists it.
MarksLast ==
  \A m, n \in Notes :
    <<m, n>> \in edges \ torn /\ (\A w \in Writers : ~Marking(w, m, n)) =>
      row[n].superseded_by # None /\ n \in row[m].supersedes

\* What the changelog says: the index entries of a superseded note are removed.
SupersededNotIndexed ==
  \A m, n \in Notes :
    <<m, n>> \in edges \ torn /\ (\A w \in Writers : ~Marking(w, m, n)) =>
      n \notin {x[2] : x \in mapped}

\* What the reference says of superseded_by: the id of a newer note.
SupersededByNewer ==
  \A n \in Notes : row[n].superseded_by # None => row[n].superseded_by > n
=============================================================================
