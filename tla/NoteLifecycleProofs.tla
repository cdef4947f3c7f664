-------------------------- MODULE NoteLifecycleProofs --------------------------
(***************************************************************************)
(* Theorems about NoteLifecycle for any number of writers, notes, entities *)
(* and background threads, and any budget.                                 *)
(*                                                                         *)
(* TypeOK is not inductive: Dispatch queues Own(w) and WriteOld rewrites   *)
(* Best(w), and only the program counter says that these are notes with a  *)
(* row. LifeInv adds that. The other invariants are stated for every copy  *)
(* of a row a thread holds, since any of them may be written back.         *)
(***************************************************************************)
EXTENDS NoteLifecycle, TLAPS

MarkingPc == {"read_old", "read_new", "write_old", "write_new", "uncache", "unmap", "edge"}

\* A writer in the middle of a call has a note, after WriteNote one with a row; the notes it found
\* by looking have rows too, and none of them is its own.
FrameInv ==
  \A w \in Writers :
    /\ pc[w] # "idle" => Own(w) \in 1..made
    /\ pc[w] \notin {"idle", "write"} => Own(w) \in stored
    /\ pc[w] \in MarkingPc => Best(w) \in stored
    /\ frame[w].op = "UPDATE" => frame[w].similar \in stored
    /\ Best(w) # None => Best(w) \in stored

\* The note an NER job works on has a row.
TaskInv == \A b \in Background : stage[b] \in {"map", "cache"} => task[b].source \in stored

LifeInv == TypeOK /\ FrameInv /\ TaskInv

-----------------------------------------------------------------------------
(* What the threads leave alone *)

\* A stuttering step changes no variable.
LEMMA Stutter ==
  ASSUME UNCHANGED vars
  PROVE UNCHANGED <<made, stored, row, mapped, cached, edges, ner, pc, frame, stage, task,
                    bounds, torn, cut, overlap>>
BY DEF vars, tables, writer, background, history

\* Writers never touch a background thread.
LEMMA WriterKeeps ==
  ASSUME NEW w \in Writers, WriterStep(w)
  PROVE UNCHANGED <<stage, task>>
BY DEF WriterStep, Construct, ConstructAs, WriteNote, CacheEntities, MapEntity, Look, Scan, ReadOld,
       ReadNew, WriteOld, WriteNew, Uncache, Unmap, AddEdge, Dispatch, RewriteReturned, Fail, background

\* A step of one writer leaves the others where they are.
LEMMA OthersKeep ==
  ASSUME WritersOK, NEW w \in Writers, WriterStep(w), NEW d \in Writers, d # w
  PROVE pc'[d] = pc[d] /\ frame'[d] = frame[d]
BY DEF WritersOK, WriterStep, Construct, ConstructAs, WriteNote, CacheEntities, MapEntity, Look,
       Candidates, Scan, ReadOld, ReadNew, WriteOld, WriteNew, Uncache, Unmap, AddEdge, Marked,
       Dispatch, RewriteReturned, Fail, Return, Goto, Set

\* Background threads never touch a writer, a graph edge or the history, and construct no note.
LEMMA BackgroundKeeps ==
  ASSUME NEW b \in Background, BackgroundStep(b)
  PROVE UNCHANGED <<made, stored, edges, pc, frame, torn, cut, overlap>>
BY DEF BackgroundStep, BeginRewriting, Gather, Apply, BeginNer, NerMap, NerCache, tables, writer,
       history

\* Notes and rows only come; edges, torn markings and overlaps stay.
LEMMA Grows ==
  ASSUME TypeOK, [Next]_vars
  PROVE /\ made \in Nat /\ made' \in Nat /\ made <= made' /\ made' <= MaxNotes
        /\ stored \subseteq stored' /\ edges \subseteq edges'
        /\ torn \subseteq torn' /\ cut \subseteq cut' /\ overlap \subseteq overlap'
<1> USE DEF TypeOK, TablesOK, LifecycleAssumption
<1>1. ASSUME NEW w \in Writers, WriterStep(w)
      PROVE /\ made' \in {made, made + 1} /\ (made' # made => made < MaxNotes)
            /\ stored \subseteq stored' /\ edges \subseteq edges'
            /\ torn \subseteq torn' /\ cut \subseteq cut' /\ overlap \subseteq overlap'
  BY <1>1 DEF WriterStep, Construct, ConstructAs, WriteNote, CacheEntities, MapEntity, Look, Scan,
       ReadOld, ReadNew, WriteOld, WriteNew, Uncache, Unmap, AddEdge, Dispatch, RewriteReturned,
       Fail, tables, history
<1>2. ASSUME NEW b \in Background, BackgroundStep(b)
      PROVE UNCHANGED <<made, stored, edges, torn, cut, overlap>>
  BY <1>2, BackgroundKeeps
<1>3. made \in 0..MaxNotes /\ MaxNotes \in Nat
  BY LifecycleAssumption
<1> QED BY <1>1, <1>2, <1>3, Stutter DEF Next

-----------------------------------------------------------------------------
(* Each part of LifeInv is preserved *)

\* stored only has notes that were constructed.
LEMMA StoredNotes ==
  ASSUME TypeOK
  PROVE /\ made \in Nat /\ made <= MaxNotes /\ 1..made \subseteq Notes
        /\ stored \subseteq 1..made /\ stored \subseteq Notes
<1>1. MaxNotes \in Nat /\ made \in 0..MaxNotes /\ stored \subseteq 1..made
  BY LifecycleAssumption DEF TypeOK, TablesOK
<1>2. made \in Nat /\ made <= MaxNotes
  BY <1>1
<1>3. 1..made \subseteq Notes
  BY <1>1, <1>2 DEF Notes
<1> QED BY <1>1, <1>2, <1>3

\* What a writer in the middle of a call works on.
LEMMA Working ==
  ASSUME LifeInv, NEW w \in Writers, pc[w] # "idle"
  PROVE /\ Own(w) \in Notes /\ Own(w) \in 1..made
        /\ pc[w] # "write" => Own(w) \in stored
        /\ pc[w] \in MarkingPc => Best(w) \in stored /\ Best(w) \in Notes
        /\ frame[w] \in Frame
<1>1. TypeOK /\ FrameInv /\ frame[w] \in Frame
  BY DEF LifeInv, TypeOK, WritersOK
<1>2. /\ Own(w) \in 1..made
      /\ pc[w] # "write" => Own(w) \in stored
      /\ pc[w] \in MarkingPc => Best(w) \in stored
  BY <1>1 DEF FrameInv
<1> QED BY <1>1, <1>2, StoredNotes

\* What a writer stores, links and maps are notes and entities.
LEMMA WriterTables ==
  ASSUME LifeInv, NEW w \in Writers, WriterStep(w)
  PROVE TablesOK'
<1> USE DEF TablesOK, Notes
<1>1. made \in 0..MaxNotes /\ MaxNotes \in Nat /\ TablesOK /\ stored \subseteq 1..made
  BY LifecycleAssumption DEF LifeInv, TypeOK
<1>2. ASSUME pc[w] # "idle"
      PROVE /\ Own(w) \in Notes /\ Own(w) \in 1..made
            /\ pc[w] # "write" => Own(w) \in stored
            /\ pc[w] \in MarkingPc => Best(w) \in stored /\ Best(w) \in Notes
            /\ frame[w] \in Frame
  BY <1>2, Working
<1>3. ASSUME NEW n \in Notes, NEW r \in Row, Rewrite(n, r)
      PROVE row' \in [Notes -> Row]
  BY <1>1, <1>3 DEF Rewrite
<1>4. Fresh \in Row
  BY DEF Fresh, Row, None
<1>5. CASE Construct(w)
  BY <1>1, <1>5 DEF Construct, ConstructAs, tables
<1>6. CASE WriteNote(w)
  BY <1>1, <1>2, <1>3, <1>4, <1>6 DEF WriteNote
<1>7. CASE CacheEntities(w)
  <2>1. Mentions[Own(w)] \subseteq Entities
    BY <1>2, <1>7, LifecycleAssumption DEF CacheEntities
  <2> QED BY <1>1, <1>2, <1>7, <2>1 DEF CacheEntities, tables
<1>8. CASE MapEntity(w)
  <2>1. frame[w].todo \subseteq Entities
    BY <1>2, <1>8 DEF MapEntity, Frame
  <2> QED BY <1>1, <1>2, <1>8, <2>1 DEF MapEntity
<1>9. CASE WriteOld(w)
  <2>1. [frame[w].old EXCEPT !.superseded_by = Own(w)] \in Row
    BY <1>2, <1>9 DEF WriteOld, Frame, Row
  <2>2. Best(w) \in Notes
    BY <1>2, <1>9 DEF WriteOld, MarkingPc
  <2> QED BY <1>1, <1>3, <1>9, <2>1, <2>2 DEF WriteOld
<1>10. CASE WriteNew(w)
  <2>1. Best(w) \in Notes
    BY <1>2, <1>10 DEF WriteNew, MarkingPc
  <2>2. [frame[w].new EXCEPT !.supersedes = @ \cup {Best(w)}] \in Row
    BY <1>2, <1>10, <2>1 DEF WriteNew, Frame, Row
  <2> QED BY <1>1, <1>2, <1>3, <1>10, <2>2 DEF WriteNew
<1>11. CASE Uncache(w) \/ Unmap(w)
  BY <1>1, <1>11 DEF Uncache, Unmap, Without, tables
<1>12. CASE AddEdge(w)
  <2>1. Best(w) \in Notes
    BY <1>2, <1>12 DEF AddEdge, MarkingPc
  <2> QED BY <1>1, <1>2, <1>12, <2>1 DEF AddEdge
<1>13. CASE Dispatch(w)
  BY <1>1, <1>2, <1>13 DEF Dispatch, tables
<1>14. CASE RewriteReturned(w)
  BY <1>1, <1>2, <1>3, <1>4, <1>14 DEF RewriteReturned
<1>15. CASE Look(w) \/ Scan(w) \/ ReadOld(w) \/ ReadNew(w) \/ Fail(w)
  BY <1>1, <1>15 DEF Look, Scan, ReadOld, ReadNew, Fail, tables
<1> QED BY <1>5, <1>6, <1>7, <1>8, <1>9, <1>10, <1>11, <1>12, <1>13, <1>14, <1>15 DEF WriterStep

\* So are what the background threads rewrite and map.
LEMMA BackgroundTables ==
  ASSUME LifeInv, NEW b \in Background, BackgroundStep(b)
  PROVE TablesOK'
<1> USE DEF TablesOK
<1>1. TablesOK /\ task[b] \in Task
  BY DEF LifeInv, TypeOK, BackgroundOK
<1>2. CASE BeginRewriting(b) \/ Gather(b)
  BY <1>1, <1>2 DEF BeginRewriting, Gather, tables
<1>3. CASE Apply(b)
  BY <1>1, <1>3 DEF Apply, Rewrite, Task, Copy
<1>4. CASE BeginNer(b)
  BY <1>1, <1>4 DEF BeginNer, tables
<1>5. ASSUME stage[b] \in {"map", "cache"}
      PROVE task[b].source \in Notes
  <2>1. task[b].source \in stored /\ stored \subseteq Notes
    BY <1>5, StoredNotes DEF LifeInv, TaskInv
  <2> QED BY <2>1
<1>6. CASE NerMap(b)
  <2>1. task[b].todo \subseteq Entities
    BY <1>1 DEF Task
  <2>2. stage[b] = "map"
    BY <1>6 DEF NerMap
  <2>3. \A e \in task[b].todo : <<e, task[b].source>> \in Entities \X Notes
    BY <1>5, <2>1, <2>2
  <2>4. mapped' \subseteq Entities \X Notes
    BY <1>1, <1>6, <2>3 DEF NerMap
  <2> QED BY <1>1, <1>6, <2>4 DEF NerMap
<1>7. CASE NerCache(b)
  BY <1>1, <1>5, <1>7 DEF NerCache, Task, tables
<1> QED BY <1>2, <1>3, <1>4, <1>6, <1>7 DEF BackgroundStep

\* No step leaves the store with something that is not a note or an entity.
LEMMA TablesPreserved == ASSUME LifeInv, [Next]_vars PROVE TablesOK'
<1>1. CASE UNCHANGED vars
  BY <1>1, Stutter DEF LifeInv, TypeOK, TablesOK
<1> QED BY <1>1, WriterTables, BackgroundTables DEF Next

\* A writer's position and its note go together.
LEMMA WriterSteps ==
  ASSUME LifeInv, NEW w \in Writers, WriterStep(w)
  PROVE WritersOK' /\ FrameInv'
<1> DEFINE OfNote(f, l) ==
      /\ f \in Frame
      /\ l # "idle" => f.own \in 1..made'
      /\ l \notin {"idle", "write"} => f.own \in stored'
      /\ l \in MarkingPc => f.best \in stored'
      /\ f.op = "UPDATE" => f.similar \in stored'
      /\ f.best # None => f.best \in stored'
<1>1. WritersOK /\ FrameInv /\ TypeOK
  BY DEF LifeInv, TypeOK
<1>2. 1..made \subseteq 1..made' /\ stored \subseteq stored'
  <2>1. [Next]_vars
    BY DEF Next
  <2>2. made \in Nat /\ made' \in Nat /\ made <= made' /\ stored \subseteq stored'
    BY <1>1, <2>1, Grows
  <2> QED BY <2>2
<1>3. ASSUME NEW f, NEW l \in WriterPc, OfNote(f, l),
             frame' = [frame EXCEPT ![w] = f], pc' = [pc EXCEPT ![w] = l]
      PROVE WritersOK' /\ FrameInv'
  <2>1. WritersOK'
    BY <1>1, <1>3 DEF WritersOK
  <2>2. ASSUME NEW d \in Writers
        PROVE OfNote(frame'[d], pc'[d])
    <3>1. CASE d = w
      BY <1>1, <1>3, <3>1 DEF WritersOK
    <3>2. CASE d # w
      <4>1. frame'[d] = frame[d] /\ pc'[d] = pc[d] /\ frame[d] \in Frame
        BY <1>1, <1>3, <3>2 DEF WritersOK
      <4> QED BY <1>1, <1>2, <4>1 DEF FrameInv, Own, Best
    <3> QED BY <3>1, <3>2
  <2>3. FrameInv'
    BY <2>2 DEF FrameInv, Own, Best
  <2> QED BY <2>1, <2>3
<1>4. /\ OfNote(NoFrame, "idle")
      /\ frame[w] \in Frame
      /\ pc[w] # "idle" => /\ Own(w) \in 1..made' /\ Own(w) \in Notes
                           /\ pc[w] # "write" => OfNote(frame[w], "cache")
                           /\ pc[w] \in MarkingPc => OfNote(frame[w], "edge")
  BY <1>1, <1>2, Working DEF NoFrame, Frame, Fresh, Row, FrameInv, Own, Best, None, WritersOK, MarkingPc, Operations
<1>5. ASSUME NEW l \in WriterPc, OfNote(frame[w], l), Goto(w, l), UNCHANGED frame
      PROVE WritersOK' /\ FrameInv'
  <2>1. frame' = [frame EXCEPT ![w] = frame[w]]
    BY <1>1, <1>5 DEF WritersOK
  <2> QED BY <1>3, <1>5, <2>1 DEF Goto
<1>6. CASE Construct(w)
  <2>1. PICK op \in Operations, s \in stored \cup {None} :
          (op = "UPDATE" <=> s # None) /\ ConstructAs(w, op, s)
    BY <1>6 DEF Construct
  <2> DEFINE f == [NoFrame EXCEPT !.own = made + 1, !.op = op, !.similar = s]
  <2>2. made \in Nat /\ made + 1 \in 1..made' /\ made + 1 \in Notes /\ stored \subseteq Notes
    BY <1>1, <2>1, StoredNotes, LifecycleAssumption DEF ConstructAs, Notes
  <2>3. OfNote(f, "write")
    BY <1>2, <2>1, <2>2 DEF NoFrame, Frame, Fresh, Row, None, MarkingPc
  <2> QED BY <1>3, <2>1, <2>3 DEF ConstructAs, Set, Goto, WriterPc
<1>7. CASE WriteNote(w)
  <2>1. Own(w) \in stored'
    BY <1>7 DEF WriteNote
  <2>2. OfNote(frame[w], "cache")
    BY <1>1, <1>2, <1>4, <1>7, <2>1 DEF WriteNote, FrameInv, Own, Best, MarkingPc
  <2> QED BY <1>5, <1>7, <2>2 DEF WriteNote, WriterPc
<1>8. CASE CacheEntities(w)
  <2> DEFINE f == [frame[w] EXCEPT !.todo = Mentions[Own(w)]]
  <2>1. Mentions[Own(w)] \subseteq Entities
    BY <1>4, <1>8, LifecycleAssumption DEF CacheEntities
  <2>2. OfNote(f, "dispatch") /\ OfNote(f, "map")
    BY <1>4, <1>8, <2>1 DEF CacheEntities, Frame, MarkingPc
  <2> QED BY <1>3, <1>8, <2>2 DEF CacheEntities, Set, Goto, WriterPc
<1>9. CASE MapEntity(w)
  <2>1. PICK e \in frame[w].todo :
          \/ Set(w, [frame[w] EXCEPT !.todo = @ \ {e}]) /\ UNCHANGED pc
          \/ Set(w, [frame[w] EXCEPT !.todo = Mentions[Own(w)]]) /\ Goto(w, "look")
    BY <1>9 DEF MapEntity
  <2>2. Mentions[Own(w)] \subseteq Entities
    BY <1>4, <1>9, LifecycleAssumption DEF MapEntity
  <2>3. OfNote([frame[w] EXCEPT !.todo = @ \ {e}], "map")
    BY <1>4, <1>9 DEF MapEntity, Frame, MarkingPc
  <2>4. OfNote([frame[w] EXCEPT !.todo = Mentions[Own(w)]], "look")
    BY <1>4, <1>9, <2>2 DEF MapEntity, Frame, MarkingPc
  <2>5. pc = [pc EXCEPT ![w] = "map"]
    BY <1>1, <1>9 DEF MapEntity, WritersOK
  <2> QED BY <1>3, <2>1, <2>3, <2>4, <2>5 DEF Set, Goto, WriterPc
<1>10. CASE Look(w)
  <2>1. PICK e \in frame[w].todo : Candidates(w, e, NoteIds(e) \ {Own(w)})
    BY <1>10 DEF Look
  <2> DEFINE f == [frame[w] EXCEPT !.todo = @ \ {e}, !.candidates = @ \cup (NoteIds(e) \ {Own(w)})]
  <2>2. NoteIds(e) \subseteq Notes
    BY DEF NoteIds, NotesOf
  <2>3. OfNote(f, "look") /\ OfNote(f, "scan") /\ OfNote(f, "dispatch")
    BY <1>4, <1>10, <2>2 DEF Look, Frame, MarkingPc
  <2> QED BY <1>3, <2>1, <2>3 DEF Candidates, Set, Goto, WriterPc
<1>11. CASE Scan(w)
  <2> DEFINE Scanned(n, best) ==
        /\ IF n \in stored /\ row[n].superseded_by = None THEN best # None ELSE best = Best(w)
        /\ Set(w, [frame[w] EXCEPT !.candidates = frame[w].candidates \ {n}, !.best = best])
        /\ Goto(w, IF frame[w].candidates \ {n} # {} THEN "scan"
                   ELSE IF best # None THEN "read_old" ELSE "dispatch")
  <2>1. PICK n \in frame[w].candidates : \E best \in {n, Best(w)} : Scanned(n, best)
    BY <1>11 DEF Scan
  <2>2. PICK best \in {n, Best(w)} : Scanned(n, best)
    BY <2>1
  <2> DEFINE f == [frame[w] EXCEPT !.candidates = frame[w].candidates \ {n}, !.best = best]
  <2>3. best # None => best \in stored'
    BY <1>1, <1>2, <2>2 DEF FrameInv
  <2>4. OfNote(f, "scan") /\ OfNote(f, "dispatch") /\ (best # None => OfNote(f, "read_old"))
    BY <1>4, <1>11, <2>1, <2>2, <2>3 DEF Scan, Frame, MarkingPc, Best, None
  <2> QED BY <1>3, <2>2, <2>4 DEF Set, Goto, WriterPc
<1>12. CASE ReadOld(w)
  <2>1. Best(w) \in Notes /\ row[Best(w)] \in Row
    BY <1>1, <1>12, Working DEF ReadOld, MarkingPc, TypeOK, TablesOK
  <2>2. OfNote([frame[w] EXCEPT !.old = row[Best(w)]], "read_new")
    BY <1>4, <1>12, <2>1 DEF ReadOld, Frame, MarkingPc
  <2> QED BY <1>3, <1>12, <2>2 DEF ReadOld, Set, Goto, WriterPc
<1>13. CASE ReadNew(w)
  <2>1. row[Own(w)] \in Row
    BY <1>1, <1>4, <1>13 DEF ReadNew, TypeOK, TablesOK
  <2>2. OfNote([frame[w] EXCEPT !.new = row[Own(w)]], "write_old")
    BY <1>4, <1>13, <2>1 DEF ReadNew, Frame, MarkingPc
  <2> QED BY <1>3, <1>13, <2>2 DEF ReadNew, Set, Goto, WriterPc
<1>14. CASE WriteOld(w) \/ WriteNew(w) \/ Uncache(w) \/ Unmap(w)
  <2>1. PICK l \in MarkingPc : pc[w] \in MarkingPc /\ Goto(w, l) /\ UNCHANGED frame
    BY <1>14 DEF WriteOld, WriteNew, Uncache, Unmap, MarkingPc
  <2>2. OfNote(frame[w], l)
    BY <1>4, <2>1 DEF MarkingPc
  <2> QED BY <1>5, <2>1, <2>2 DEF WriterPc, MarkingPc
<1>15. CASE AddEdge(w)
  <2>1. OfNote(frame[w], "dispatch")
    BY <1>4, <1>15 DEF AddEdge, MarkingPc
  <2> QED BY <1>3, <1>4, <1>5, <1>15, <2>1 DEF AddEdge, Marked, Return, Set, Goto, WriterPc
<1>16. CASE Dispatch(w)
  <2>1. OfNote(frame[w], "rewrite")
    BY <1>4, <1>16 DEF Dispatch, MarkingPc
  <2> QED BY <1>3, <1>4, <1>5, <1>16, <2>1 DEF Dispatch, Return, Set, Goto, WriterPc
<1>17. CASE RewriteReturned(w)
  <2> DEFINE f == [frame[w] EXCEPT !.op = "marking", !.best = frame[w].similar]
  <2>1. frame[w].op = "UPDATE" => frame[w].similar \in stored'
    BY <1>1, <1>2 DEF FrameInv
  <2>2. frame[w].op = "UPDATE" => OfNote(f, "read_old")
    BY <1>4, <1>17, <2>1 DEF RewriteReturned, Frame, MarkingPc
  <2> QED BY <1>3, <1>4, <1>17, <2>2 DEF RewriteReturned, Return, Set, Goto, WriterPc
<1>18. CASE Fail(w)
  BY <1>3, <1>4, <1>18 DEF Fail, Return, Set, Goto, WriterPc
<1> QED BY <1>6, <1>7, <1>8, <1>9, <1>10, <1>11, <1>12, <1>13, <1>14, <1>15, <1>16, <1>17, <1>18
        DEF WriterStep

\* Background threads leave the writers alone.
LEMMA WritersPreserved == ASSUME LifeInv, [Next]_vars PROVE WritersOK' /\ FrameInv'
<1>1. WritersOK /\ FrameInv
  BY DEF LifeInv, TypeOK
<1>2. ASSUME UNCHANGED <<made, stored, pc, frame>> PROVE WritersOK' /\ FrameInv'
  BY <1>1, <1>2 DEF WritersOK, FrameInv, Own, Best
<1>3. CASE \E b \in Background : BackgroundStep(b)
  BY <1>2, <1>3, BackgroundKeeps
<1>4. CASE UNCHANGED vars
  BY <1>2, <1>4, Stutter
<1> QED BY <1>3, <1>4, WriterSteps DEF Next

\* A background thread's position, copies and note go together.
LEMMA BackgroundSteps ==
  ASSUME LifeInv, NEW b \in Background, BackgroundStep(b)
  PROVE BackgroundOK' /\ TaskInv'
<1> USE DEF BackgroundOK, Stages
<1>1. BackgroundOK /\ TaskInv /\ TypeOK /\ TablesOK /\ task[b] \in Task /\ UNCHANGED stored
  BY BackgroundKeeps DEF LifeInv, TypeOK
<1>2. stored \subseteq Notes /\ ner \subseteq stored
  BY <1>1, StoredNotes DEF TablesOK
<1>3. ASSUME NEW l \in Stages, NEW t \in Task, Stage(b, l, t),
             l \in {"map", "cache"} => t.source \in stored
      PROVE BackgroundOK' /\ TaskInv'
  BY <1>1, <1>3 DEF Stage, TaskInv
<1>4. NoTask \in Task
  BY DEF NoTask, Task
<1>5. CASE BeginRewriting(b)
  <2>1. \A n \in stored : [NoTask EXCEPT !.source = n] \in Task
    BY <1>2 DEF NoTask, Task
  <2> QED BY <1>3, <1>4, <1>5, <2>1 DEF BeginRewriting
<1>6. CASE Gather(b)
  <2>1. ASSUME NEW n \in stored
        PROVE [task[b] EXCEPT !.copies = @ \cup {[id |-> n, row |-> row[n]]}] \in Task
    <3>1. [id |-> n, row |-> row[n]] \in Copy
      BY <1>1, <1>2 DEF Copy, TablesOK
    <3> QED BY <1>1, <3>1 DEF Task
  <2> QED BY <1>1, <1>3, <1>6, <2>1 DEF Gather
<1>7. CASE Apply(b)
  <2>1. \A c \in task[b].copies : [task[b] EXCEPT !.copies = @ \ {c}] \in Task
    BY <1>1 DEF Task
  <2> QED BY <1>3, <1>4, <1>7, <2>1 DEF Apply
<1>8. CASE BeginNer(b)
  <2>1. PICK n \in ner, found \in SUBSET Entities :
          \/ UNCHANGED background
          \/ Stage(b, "map", [NoTask EXCEPT !.source = n, !.found = found, !.todo = found])
    BY <1>8 DEF BeginNer
  <2>2. [NoTask EXCEPT !.source = n, !.found = found, !.todo = found] \in Task
    BY <1>2 DEF NoTask, Task
  <2>3. [NoTask EXCEPT !.source = n, !.found = found, !.todo = found].source \in stored
    BY <1>2 DEF NoTask
  <2>4. CASE UNCHANGED background
    BY <1>1, <2>4 DEF background, TaskInv
  <2> QED BY <1>3, <2>1, <2>2, <2>3, <2>4
<1>9. CASE NerMap(b)
  <2>1. task[b].source \in stored
    BY <1>1, <1>9 DEF NerMap, TaskInv
  <2>2. ASSUME NEW e \in task[b].todo
        PROVE /\ [task[b] EXCEPT !.todo = @ \ {e}] \in Task
              /\ [task[b] EXCEPT !.todo = @ \ {e}].source = task[b].source
    BY <1>1 DEF Task
  <2> QED BY <1>1, <1>3, <1>4, <1>9, <2>1, <2>2 DEF NerMap
<1>10. CASE NerCache(b)
  BY <1>3, <1>4, <1>10 DEF NerCache
<1> QED BY <1>5, <1>6, <1>7, <1>8, <1>9, <1>10 DEF BackgroundStep

\* Writers only add rows.
LEMMA BackgroundPreserved == ASSUME LifeInv, [Next]_vars PROVE BackgroundOK' /\ TaskInv'
<1>1. BackgroundOK /\ TaskInv /\ TypeOK
  BY DEF LifeInv, TypeOK
<1>2. ASSUME UNCHANGED <<stage, task>> PROVE BackgroundOK' /\ TaskInv'
  BY <1>1, <1>2, Grows DEF BackgroundOK, TaskInv
<1>3. CASE \E w \in Writers : WriterStep(w)
  BY <1>2, <1>3, WriterKeeps
<1>4. CASE UNCHANGED vars
  BY <1>2, <1>4, Stutter
<1> QED BY <1>3, <1>4, BackgroundSteps DEF Next

\* Budgets stay natural numbers, and what the history records are notes.
LEMMA HistoryPreserved == ASSUME LifeInv, [Next]_vars PROVE HistoryOK'
<1> USE DEF HistoryOK
<1>1. HistoryOK /\ TypeOK
  BY DEF LifeInv, TypeOK
<1>2. ASSUME NEW events, Spend(events) PROVE bounds' \in [Bounds -> Nat]
  BY <1>1, <1>2 DEF Spend
<1>3. ASSUME NEW w \in Writers, Construct(w) PROVE HistoryOK'
  <2>1. bounds' \in [Bounds -> Nat] /\ UNCHANGED <<torn, cut>>
    BY <1>2, <1>3 DEF Construct, ConstructAs
  <2>2. made + 1 \in Notes
    BY <1>1, <1>3, StoredNotes, LifecycleAssumption DEF Construct, ConstructAs, Notes
  <2>3. \A d \in Writers : pc[d] # "idle" => Own(d) \in Notes
    BY Working
  <2>4. overlap' = overlap \cup {<<Own(d), made + 1>> : d \in {d \in Writers : pc[d] # "idle"}}
    BY <1>3 DEF Construct, ConstructAs
  <2> QED BY <1>1, <2>1, <2>2, <2>3, <2>4
<1>4. ASSUME NEW w \in Writers, Fail(w) PROVE HistoryOK'
  <2>1. bounds' \in [Bounds -> Nat] /\ UNCHANGED overlap
    BY <1>2, <1>4 DEF Fail
  <2>2. Own(w) \in Notes /\ (pc[w] \in MarkingPc => Best(w) \in Notes)
    BY <1>4, Working DEF Fail
  <2> QED BY <1>1, <1>4, <2>1, <2>2 DEF Fail, MarkingPc
<1>5. ASSUME NEW b \in Background, BackgroundStep(b)
      PROVE bounds' \in [Bounds -> Nat]
  BY <1>1, <1>2, <1>5 DEF BackgroundStep, BeginRewriting, Gather, Apply, BeginNer, NerMap, NerCache
<1>6. ASSUME UNCHANGED <<bounds, torn, cut, overlap>> PROVE HistoryOK'
  BY <1>1, <1>6
<1>7. CASE \E w \in Writers : WriterStep(w)
  BY <1>3, <1>4, <1>6, <1>7 DEF WriterStep, WriteNote, CacheEntities, MapEntity, Look, Scan, ReadOld,
     ReadNew, WriteOld, WriteNew, Uncache, Unmap, AddEdge, Dispatch, RewriteReturned, history
<1>8. CASE \E b \in Background : BackgroundStep(b)
  BY <1>1, <1>5, <1>8, BackgroundKeeps
<1>9. CASE UNCHANGED vars
  BY <1>6, <1>9, Stutter
<1> QED BY <1>7, <1>8, <1>9 DEF Next

\* At first there is no note and nobody is in a call.
LEMMA InitLife == Init => LifeInv
<1> SUFFICES ASSUME Init PROVE LifeInv
  OBVIOUS
<1> USE LifecycleAssumption DEF Init
<1>1. TablesOK
  BY DEF TablesOK, Fresh, Row, None
<1>2. WritersOK /\ BackgroundOK
  BY DEF WritersOK, WriterPc, NoFrame, Frame, Operations, Fresh, Row, None,
         BackgroundOK, Stages, NoTask, Task
<1>3. HistoryOK
  BY DEF HistoryOK
<1>4. FrameInv /\ TaskInv
  BY DEF FrameInv, TaskInv, MarkingPc, NoFrame, Own, Best, None
<1> QED BY <1>1, <1>2, <1>3, <1>4 DEF LifeInv, TypeOK

\* LifeInv is inductive.
LEMMA StepLife == LifeInv /\ [Next]_vars => LifeInv'
BY TablesPreserved, WritersPreserved, BackgroundPreserved, HistoryPreserved DEF LifeInv, TypeOK

\* Every reachable state satisfies LifeInv.
LEMMA LifeCorrect == Spec => []LifeInv
BY InitLife, StepLife, PTL DEF Spec

\* For any number of writers, notes and background threads the variables keep their shape: what
\* remember(), apply() and the jobs store, index and link are notes with a row.
THEOREM LifecycleTypeCorrect == Spec => []TypeOK
<1>1. LifeInv => TypeOK
  BY DEF LifeInv
<1> QED BY <1>1, LifeCorrect, PTL

-----------------------------------------------------------------------------
(* The copies of a row that may be written back *)

\* r is the row of n, or a copy of it some thread may still write.
Held(n, r) ==
  \/ n \in Notes /\ r = row[n]
  \/ \E w \in Writers : pc[w] \in {"read_new", "write_old"} /\ n = Best(w) /\ r = frame[w].old
  \/ \E w \in Writers : pc[w] \in {"write_old", "write_new"} /\ n = Own(w) /\ r = frame[w].new
  \/ \E b \in Background : \E c \in task[b].copies : n = c.id /\ r = c.row

\* The two rows mark_note_superseded makes.
OldLinked(w) == [frame[w].old EXCEPT !.superseded_by = Own(w)]
NewLinked(w) == [frame[w].new EXCEPT !.supersedes = @ \cup {Best(w)}]

\* Only mark_note_superseded makes a row that is neither a copy nor without links.
LEMMA WriterProvenance ==
  ASSUME LifeInv, NEW w \in Writers, WriterStep(w), NEW n, NEW r, Held(n, r)'
  PROVE \/ Held(n, r) \/ r = Fresh
        \/ WriteOld(w) /\ n = Best(w) /\ r = OldLinked(w)
        \/ WriteNew(w) /\ n = Own(w) /\ r = NewLinked(w)
<1>1. row \in [Notes -> Row] /\ WritersOK /\ UNCHANGED <<stage, task>>
  BY WriterKeeps DEF LifeInv, TypeOK, TablesOK
<1>2. pc[w] # "idle" => Own(w) \in Notes /\ (pc[w] \in MarkingPc => Best(w) \in Notes)
  BY Working
<1>3. ASSUME NEW d \in Writers, d # w
      PROVE pc'[d] = pc[d] /\ frame'[d] = frame[d]
  BY <1>1, <1>3, OthersKeep
<1>4. ASSUME n \in Notes, r = row'[n]
      PROVE \/ r = row[n] \/ r = Fresh
            \/ WriteOld(w) /\ n = Best(w) /\ r = OldLinked(w)
            \/ WriteNew(w) /\ n = Own(w) /\ r = NewLinked(w)
  <2>1. CASE WriteNote(w) \/ RewriteReturned(w)
    BY <1>1, <1>4, <2>1 DEF WriteNote, RewriteReturned, Rewrite
  <2>2. CASE WriteOld(w)
    BY <1>1, <1>4, <2>2 DEF WriteOld, Rewrite, OldLinked
  <2>3. CASE WriteNew(w)
    BY <1>1, <1>4, <2>3 DEF WriteNew, Rewrite, NewLinked
  <2>4. CASE UNCHANGED row
    BY <1>4, <2>4
  <2> QED BY <2>1, <2>2, <2>3, <2>4 DEF WriterStep, Construct, ConstructAs, CacheEntities, MapEntity,
     Look, Scan, ReadOld, ReadNew, Uncache, Unmap, AddEdge, Dispatch, Fail, tables
<1>5. CASE ReadOld(w)
  <2>1. pc'[w] = "read_new" /\ Best(w)' = Best(w) /\ frame'[w].old = row[Best(w)] /\ Best(w) \in Notes
    BY <1>1, <1>2, <1>5 DEF ReadOld, Goto, Set, Best, WritersOK, Frame, MarkingPc
  <2> QED BY <1>1, <1>3, <1>4, <1>5, <2>1 DEF Held, Own, Best
<1>6. CASE ReadNew(w)
  <2>1. /\ pc[w] = "read_new" /\ pc'[w] = "write_old" /\ Best(w)' = Best(w) /\ Own(w)' = Own(w)
        /\ frame'[w].old = frame[w].old /\ frame'[w].new = row[Own(w)] /\ Own(w) \in Notes
    BY <1>1, <1>2, <1>6 DEF ReadNew, Goto, Set, Best, Own, WritersOK, Frame
  <2> QED BY <1>1, <1>3, <1>4, <1>6, <2>1 DEF Held, Own, Best
<1>7. CASE WriteOld(w)
  <2>1. pc[w] = "write_old" /\ pc'[w] = "write_new" /\ frame' = frame
    BY <1>1, <1>7 DEF WriteOld, Goto, WritersOK
  <2> QED BY <1>1, <1>3, <1>4, <1>7, <2>1 DEF Held, Own, Best
<1>8. ASSUME pc'[w] \notin {"read_new", "write_old", "write_new"}
      PROVE Held(n, r) \/ (n \in Notes /\ r = row'[n])
  <2>1. ASSUME NEW d \in Writers, pc'[d] \in {"read_new", "write_old", "write_new"}
        PROVE pc'[d] = pc[d] /\ frame'[d] = frame[d]
    BY <1>3, <1>8, <2>1
  <2>2. UNCHANGED task
    BY <1>1
  <2> QED BY <2>1, <2>2 DEF Held, Own, Best
<1>9. ASSUME ~ReadOld(w), ~ReadNew(w), ~WriteOld(w)
      PROVE pc'[w] \notin {"read_new", "write_old", "write_new"}
  BY <1>1, <1>9 DEF WritersOK, WriterStep, Construct, ConstructAs, WriteNote, CacheEntities, MapEntity,
     Look, Candidates, Scan, WriteNew, Uncache, Unmap, AddEdge, Marked, Dispatch, RewriteReturned,
     Fail, Return, Goto
<1> QED BY <1>4, <1>5, <1>6, <1>7, <1>8, <1>9 DEF Held

\* Background threads make no row: what they write back they read.
LEMMA BackgroundProvenance ==
  ASSUME LifeInv, NEW b \in Background, BackgroundStep(b), NEW n, NEW r, Held(n, r)'
  PROVE Held(n, r)
<1>1. row \in [Notes -> Row] /\ BackgroundOK /\ stored \subseteq Notes
  BY StoredNotes DEF LifeInv, TypeOK, TablesOK
<1>2. UNCHANGED <<pc, frame>>
  BY BackgroundKeeps
<1>3. ASSUME NEW d \in Background, d # b PROVE task'[d] = task[d]
  BY <1>1, <1>3 DEF BackgroundOK, BackgroundStep, BeginRewriting, Gather, Apply, BeginNer, NerMap,
     NerCache, Stage, background
<1>4. ASSUME NEW c \in task'[b].copies
      PROVE c \in task[b].copies \/ \E i \in Notes : c = [id |-> i, row |-> row[i]]
  <2>1. task \in [Background -> Task] /\ task[b] \in Task
    BY <1>1 DEF BackgroundOK
  <2>2. CASE Gather(b)
    <3>1. ASSUME NEW i \in stored, NEW l,
                 Stage(b, l, [task[b] EXCEPT !.copies = @ \cup {[id |-> i, row |-> row[i]]}])
          PROVE task'[b].copies = task[b].copies \cup {[id |-> i, row |-> row[i]]}
      BY <2>1, <3>1 DEF Stage, Task
    <3>2. ASSUME NEW l, Stage(b, l, task[b]) PROVE task'[b] = task[b]
      BY <2>1, <3>2 DEF Stage
    <3>3. \/ Stage(b, "apply", task[b])
          \/ \E i \in stored :
               Stage(b, "gather", [task[b] EXCEPT !.copies = @ \cup {[id |-> i, row |-> row[i]]}])
      BY <2>2 DEF Gather
    <3> QED BY <1>1, <1>4, <3>1, <3>2, <3>3
  <2>3. CASE Apply(b)
    <3>1. ASSUME NEW d \in task[b].copies, NEW l, Stage(b, l, [task[b] EXCEPT !.copies = @ \ {d}])
          PROVE task'[b].copies = task[b].copies \ {d}
      BY <2>1, <3>1 DEF Stage, Task
    <3>2. ASSUME NEW l, Stage(b, l, NoTask) PROVE task'[b].copies = {}
      BY <2>1, <3>2 DEF Stage, NoTask
    <3> QED BY <1>4, <2>3, <3>1, <3>2 DEF Apply
  <2>4. CASE NerMap(b)
    BY <1>4, <2>1, <2>4 DEF NerMap, Stage, NoTask, Task
  <2>5. ASSUME NEW l, NEW t, Stage(b, l, t), t.copies = {} PROVE FALSE
    BY <1>4, <2>1, <2>5 DEF Stage
  <2>6. CASE BeginRewriting(b) \/ NerCache(b)
    BY <2>5, <2>6 DEF BeginRewriting, NerCache, NoTask
  <2>7. CASE BeginNer(b)
    BY <1>4, <2>5, <2>7 DEF BeginNer, NoTask, background
  <2> QED BY <2>2, <2>3, <2>4, <2>6, <2>7 DEF BackgroundStep
<1>5. ASSUME NEW i \in Notes
      PROVE row'[i] = row[i] \/ \E c \in task[b].copies : i = c.id /\ row'[i] = c.row
  BY <1>1, <1>5 DEF BackgroundStep, BeginRewriting, Gather, Apply, BeginNer, NerMap, NerCache, Rewrite,
     tables, BackgroundOK, Task, Copy
<1> QED BY <1>1, <1>2, <1>3, <1>4, <1>5 DEF Held, Own, Best

\* Over all threads: a row in the store or in a copy was there before, has no links, or is one of
\* the two mark_note_superseded makes.
LEMMA Provenance ==
  ASSUME LifeInv, [Next]_vars, NEW n, NEW r, Held(n, r)'
  PROVE \/ Held(n, r) \/ r = Fresh
        \/ \E w \in Writers : WriteOld(w) /\ n = Best(w) /\ r = OldLinked(w)
        \/ \E w \in Writers : WriteNew(w) /\ n = Own(w) /\ r = NewLinked(w)
<1>1. CASE UNCHANGED vars
  BY <1>1, Stutter DEF Held, Own, Best
<1> QED BY <1>1, WriterProvenance, BackgroundProvenance DEF Next

\* The copies mark_note_superseded changes are held, of notes that exist.
LEMMA Linking ==
  ASSUME LifeInv, NEW w \in Writers, pc[w] \in {"write_old", "write_new"}
  PROVE /\ Own(w) \in Notes /\ Best(w) \in Notes /\ frame[w].old \in Row /\ frame[w].new \in Row
        /\ pc[w] = "write_old" => Held(Best(w), frame[w].old)
        /\ Held(Own(w), frame[w].new)
BY Working DEF Held, MarkingPc, Frame

-----------------------------------------------------------------------------
(* LinksHaveEdges *)

Backed(m, n) ==
  <<m, n>> \in edges \/ <<m, n>> \in torn \/ \E w \in Writers : Marking(w, m, n)

RowBacked(n, r) ==
  \A m \in Notes : (r.superseded_by = m => Backed(m, n)) /\ (m \in r.supersedes => Backed(n, m))

\* Every copy that may be written back has backed links only.
LinksInv == \A n \in Notes, r \in Row : Held(n, r) => RowBacked(n, r)

\* A marking ends with the edge, or is torn by a fault.
LEMMA BackedStays ==
  ASSUME LifeInv, [Next]_vars, NEW m, NEW n, Backed(m, n)
  PROVE Backed(m, n)'
<1>1. edges \subseteq edges' /\ torn \subseteq torn'
  BY Grows DEF LifeInv
<1>2. WritersOK
  BY DEF LifeInv, TypeOK
<1>3. ASSUME UNCHANGED <<pc, frame>> PROVE Backed(m, n)'
  BY <1>1, <1>3 DEF Backed, Marking, Own, Best
<1>4. ASSUME NEW w \in Writers, WriterStep(w), NEW d \in Writers, Marking(d, m, n) PROVE Backed(m, n)'
  <2>1. CASE d # w
    <3>1. pc'[d] = pc[d] /\ frame'[d] = frame[d]
      BY <1>2, <1>4, <2>1, OthersKeep
    <3> QED BY <1>4, <3>1 DEF Backed, Marking, Own, Best
  <2>2. CASE d = w
    <3>1. pc[w] \in {"write_new", "uncache", "unmap", "edge"} /\ Own(w) = m /\ Best(w) = n
      BY <1>4, <2>2 DEF Marking
    <3>2. CASE AddEdge(w)
      BY <3>1, <3>2 DEF AddEdge, Backed
    <3>3. CASE Fail(w)
      BY <3>1, <3>3 DEF Fail, Backed
    <3>4. CASE WriteNew(w) \/ Uncache(w) \/ Unmap(w)
      <4>1. pc'[w] \in {"uncache", "unmap", "edge"} /\ frame' = frame
        BY <1>2, <3>4 DEF WriteNew, Uncache, Unmap, Goto, WritersOK
      <4> QED BY <3>1, <4>1 DEF Backed, Marking, Own, Best
    <3> QED BY <1>4, <3>1, <3>2, <3>3, <3>4 DEF WriterStep, Construct, ConstructAs, WriteNote,
         CacheEntities, MapEntity, Look, Scan, ReadOld, ReadNew, WriteOld, Dispatch, RewriteReturned
  <2> QED BY <2>1, <2>2
<1>5. CASE \E w \in Writers : WriterStep(w)
  BY <1>1, <1>4, <1>5 DEF Backed
<1>6. CASE \E b \in Background : BackgroundStep(b)
  BY <1>3, <1>6, BackgroundKeeps
<1>7. CASE UNCHANGED vars
  BY <1>3, <1>7, Stutter
<1> QED BY <1>5, <1>6, <1>7 DEF Next

\* LinksInv is inductive relative to LifeInv.
LEMMA LinksStep == ASSUME LifeInv, LinksInv, [Next]_vars PROVE LinksInv'
<1> SUFFICES ASSUME NEW n \in Notes, NEW r \in Row, Held(n, r)'
             PROVE RowBacked(n, r)'
  BY DEF LinksInv
<1>1. ASSUME NEW k \in Notes, NEW q \in Row, Held(k, q)
      PROVE RowBacked(k, q)'
  <2>1. RowBacked(k, q)
    BY <1>1 DEF LinksInv
  <2> QED BY <2>1, BackedStays DEF RowBacked
<1>2. CASE Held(n, r)
  BY <1>1, <1>2
<1>3. CASE r = Fresh
  BY <1>3 DEF RowBacked, Fresh, None, Notes
<1>4. ASSUME NEW w \in Writers, WriteOld(w), n = Best(w), r = OldLinked(w)
      PROVE RowBacked(n, r)'
  <2>1. PICK old \in Row : old = frame[w].old /\ Held(n, old)
    BY <1>4, Linking DEF WriteOld
  <2>2. RowBacked(n, old)'
    BY <1>1, <2>1
  <2>3. ASSUME NEW m \in Notes, m = Own(w) PROVE Backed(m, n)'
    <3>1. pc'[w] = "write_new" /\ frame' = frame
      BY <1>4 DEF WriteOld, Goto, LifeInv, TypeOK, WritersOK
    <3> QED BY <1>4, <2>3, <3>1 DEF Backed, Marking, Own, Best
  <2>4. r.superseded_by = Own(w) /\ r.supersedes = old.supersedes
    BY <1>4, <2>1 DEF OldLinked, Row
  <2> QED BY <2>2, <2>3, <2>4 DEF RowBacked
<1>5. ASSUME NEW w \in Writers, WriteNew(w), n = Own(w), r = NewLinked(w)
      PROVE RowBacked(n, r)'
  <2>1. PICK new \in Row : new = frame[w].new /\ Held(n, new)
    BY <1>5, Linking DEF WriteNew
  <2>2. RowBacked(n, new)'
    BY <1>1, <2>1
  <2>3. ASSUME NEW m \in Notes, m = Best(w) PROVE Backed(n, m)'
    <3>1. Backed(n, m)
      BY <1>5, <2>3 DEF Backed, Marking, WriteNew
    <3> QED BY <3>1, BackedStays
  <2>4. /\ r.superseded_by = new.superseded_by
        /\ r.supersedes = new.supersedes \cup {Best(w)}
    BY <1>5, <2>1 DEF NewLinked, Row
  <2> QED BY <2>2, <2>3, <2>4 DEF RowBacked
<1> QED BY <1>2, <1>3, <1>4, <1>5, Provenance

\* Nothing is linked at first.
LEMMA InitHeld ==
  ASSUME Init, NEW n, NEW r, Held(n, r)
  PROVE r = Fresh
BY DEF Init, Held, NoTask

\* Whatever stale copies are written back, every link in a row has its SUPERSEDES edge, but for a
\* marking in progress or cut short.
THEOREM LinksCorrect == Spec => []LinksHaveEdges
<1>1. Init => LinksInv
  <2> SUFFICES ASSUME Init, NEW n \in Notes, NEW r \in Row, Held(n, r) PROVE RowBacked(n, r)
    BY DEF LinksInv
  <2>1. r = Fresh
    BY InitHeld
  <2> QED BY <2>1 DEF RowBacked, Fresh, None, Notes
<1>2. LifeInv /\ LinksInv => LinksHaveEdges
  <2> SUFFICES ASSUME LifeInv, LinksInv, NEW m \in Notes, NEW n \in Notes,
                      row[n].superseded_by = m \/ n \in row[m].supersedes
               PROVE Backed(m, n)
    BY DEF LinksHaveEdges, Backed
  <2>1. Held(n, row[n]) /\ Held(m, row[m]) /\ row[n] \in Row /\ row[m] \in Row
    BY DEF Held, LifeInv, TypeOK, TablesOK
  <2> QED BY <2>1 DEF LinksInv, RowBacked
<1>3. LifeInv /\ LinksInv /\ [Next]_vars => LinksInv'
  BY LinksStep
<1> QED BY <1>1, <1>2, <1>3, LifeCorrect, PTL DEF Spec

-----------------------------------------------------------------------------
(* OlderOnlyInRaces *)

InOrder(m, n) == m > n \/ <<m, n>> \in overlap

\* A call overlaps every note constructed since its own, and never has its own note in view.
RaceInv ==
  /\ \A w \in Writers : pc[w] # "idle" =>
       /\ \A n \in 1..made : InOrder(Own(w), n) \/ n = Own(w)
       /\ Own(w) \notin frame[w].candidates /\ Own(w) # frame[w].similar /\ Own(w) # Best(w)
  /\ \A n \in Notes, r \in Row : Held(n, r) => \A m \in Notes : r.superseded_by = m => InOrder(m, n)

\* The notes a writer finds are not its own.
LEMMA RaceWriters ==
  ASSUME LifeInv, RaceInv, [Next]_vars, NEW d \in Writers, pc'[d] # "idle"
  PROVE /\ \A n \in 1..made' : InOrder(Own(d), n)' \/ n = Own(d)'
        /\ Own(d)' \notin frame'[d].candidates /\ Own(d)' # frame'[d].similar /\ Own(d)' # Best(d)'
<1> DEFINE Apart(f) == f.own \notin f.candidates /\ f.own # f.similar /\ f.own # f.best
           Newer(m) == \A n \in 1..made' : m > n \/ <<m, n>> \in overlap' \/ n = m
<1>1. /\ WritersOK /\ TypeOK /\ made \in Nat /\ stored \subseteq 1..made
      /\ overlap \subseteq overlap' /\ Own(d) = frame[d].own
  <2>1. TypeOK /\ WritersOK
    BY DEF LifeInv, TypeOK
  <2> QED BY <2>1, StoredNotes, Grows DEF Own
<1>2. ASSUME pc[d] # "idle", frame'[d].own = frame[d].own, Apart(frame'[d]),
             made' = made \/ (made' = made + 1 /\ <<Own(d), made + 1>> \in overlap')
      PROVE Newer(Own(d)') /\ Apart(frame'[d])
  <2>1. \A n \in 1..made : frame[d].own > n \/ <<frame[d].own, n>> \in overlap \/ n = frame[d].own
    BY <1>1, <1>2 DEF RaceInv, InOrder
  <2>2. \A n \in 1..made' : n \in 1..made \/ (made' = made + 1 /\ n = made + 1)
    BY <1>1, <1>2
  <2> QED BY <1>1, <1>2, <2>1, <2>2 DEF Own
<1> SUFFICES Newer(Own(d)') /\ Apart(frame'[d])
  BY DEF InOrder, Own, Best
<1>3. pc[d] # "idle" => Apart(frame[d])
  BY DEF RaceInv, Own, Best
<1>4. CASE UNCHANGED <<made, pc, frame>>
  BY <1>2, <1>3, <1>4
<1>5. ASSUME NEW w \in Writers, WriterStep(w), w # d PROVE Newer(Own(d)') /\ Apart(frame'[d])
  <2>1. pc'[d] = pc[d] /\ frame'[d] = frame[d]
    BY <1>1, <1>5, OthersKeep
  <2>2. made' = made \/ (made' = made + 1 /\ <<Own(d), made + 1>> \in overlap')
    BY <1>5, <2>1 DEF WriterStep, Construct, ConstructAs, WriteNote, CacheEntities, MapEntity, Look,
       Scan, ReadOld, ReadNew, WriteOld, WriteNew, Uncache, Unmap, AddEdge, Dispatch,
       RewriteReturned, Fail
  <2> QED BY <1>2, <1>3, <2>1, <2>2
<1>6. CASE Construct(d)
  <2>1. PICK op \in Operations, s \in stored \cup {None} : ConstructAs(d, op, s)
    BY <1>6 DEF Construct
  <2>2. frame'[d] = [NoFrame EXCEPT !.own = made + 1, !.op = op, !.similar = s] /\ made' = made + 1
    BY <1>1, <2>1 DEF ConstructAs, Set, WritersOK
  <2>3. Newer(made + 1)
    BY <1>1, <2>2
  <2>4. s # made + 1
    BY <1>1, <2>1 DEF None
  <2> QED BY <1>1, <2>2, <2>3, <2>4 DEF NoFrame, Own, None
<1>7. CASE Look(d)
  <2>1. PICK e \in frame[d].todo : Candidates(d, e, NoteIds(e) \ {Own(d)})
    BY <1>7 DEF Look
  <2>2. frame'[d] = [frame[d] EXCEPT !.todo = @ \ {e}, !.candidates = @ \cup (NoteIds(e) \ {Own(d)})]
    BY <1>1, <2>1 DEF Candidates, Set, WritersOK
  <2>3. frame'[d].own = frame[d].own /\ Apart(frame'[d])
    BY <1>1, <1>3, <1>7, <2>2 DEF Look, WritersOK, Frame
  <2> QED BY <1>2, <1>7, <2>3 DEF Look
<1>8. CASE Scan(d)
  <2>1. PICK n \in frame[d].candidates : \E best \in {n, Best(d)} :
          Set(d, [frame[d] EXCEPT !.candidates = frame[d].candidates \ {n}, !.best = best])
    BY <1>8 DEF Scan
  <2>2. PICK best \in {n, Best(d)} :
          frame'[d] = [frame[d] EXCEPT !.candidates = frame[d].candidates \ {n}, !.best = best]
    BY <1>1, <2>1 DEF Set, WritersOK
  <2>3. frame'[d].own = frame[d].own /\ Apart(frame'[d])
    BY <1>1, <1>3, <1>8, <2>2 DEF Scan, WritersOK, Frame, Best
  <2> QED BY <1>2, <1>8, <2>3 DEF Scan
<1>9. CASE RewriteReturned(d)
  <2>1. frame'[d] = [frame[d] EXCEPT !.op = "marking", !.best = frame[d].similar]
    BY <1>1, <1>9 DEF RewriteReturned, Return, Set, Goto, WritersOK
  <2>2. frame'[d].own = frame[d].own /\ Apart(frame'[d])
    BY <1>1, <1>3, <1>9, <2>1 DEF RewriteReturned, WritersOK, Frame
  <2> QED BY <1>2, <1>9, <2>2 DEF RewriteReturned
<1>10. CASE CacheEntities(d) \/ MapEntity(d) \/ ReadOld(d) \/ ReadNew(d)
  <2>1. /\ frame'[d].own = frame[d].own /\ frame'[d].candidates = frame[d].candidates
        /\ frame'[d].similar = frame[d].similar /\ frame'[d].best = frame[d].best
    BY <1>1, <1>10 DEF CacheEntities, MapEntity, ReadOld, ReadNew, Set, WritersOK, Frame
  <2>2. pc[d] # "idle" /\ made' = made
    BY <1>10 DEF CacheEntities, MapEntity, ReadOld, ReadNew
  <2> QED BY <1>2, <1>3, <2>1, <2>2
<1>11. CASE \/ WriteNote(d) \/ WriteOld(d) \/ WriteNew(d) \/ Uncache(d) \/ Unmap(d) \/ AddEdge(d)
            \/ Dispatch(d) \/ Fail(d)
  <2>1. pc[d] # "idle" /\ made' = made /\ frame'[d] = frame[d]
    BY <1>1, <1>11 DEF WriteNote, WriteOld, WriteNew, Uncache, Unmap, AddEdge, Marked, Dispatch, Fail,
       Return, Goto, Set, WritersOK
  <2> QED BY <1>2, <1>3, <2>1
<1>12. CASE \E b \in Background : BackgroundStep(b)
  BY <1>4, <1>12, BackgroundKeeps
<1>13. CASE UNCHANGED vars
  BY <1>4, <1>13, Stutter
<1> QED BY <1>5, <1>6, <1>7, <1>8, <1>9, <1>10, <1>11, <1>12, <1>13 DEF Next, WriterStep

\* RaceInv is inductive relative to LifeInv.
LEMMA RaceStep == ASSUME LifeInv, RaceInv, [Next]_vars PROVE RaceInv'
<1>1. overlap \subseteq overlap'
  BY Grows DEF LifeInv
<1>2. ASSUME NEW n \in Notes, NEW r \in Row, Held(n, r)', NEW m \in Notes, r.superseded_by = m
      PROVE InOrder(m, n)'
  <2>1. ASSUME NEW q \in Row, Held(n, q), q.superseded_by = m PROVE InOrder(m, n)'
    BY <1>1, <2>1 DEF RaceInv, InOrder
  <2>2. CASE r = Fresh
    BY <1>2, <2>2 DEF Fresh, None, Notes
  <2>3. ASSUME NEW w \in Writers, WriteOld(w), n = Best(w), r = OldLinked(w) PROVE InOrder(m, n)'
    <3>1. m = Own(w) /\ pc[w] = "write_old"
      BY <1>2, <2>3, Linking DEF OldLinked, Row, WriteOld
    <3>2. n \in 1..made /\ n # m
      BY <2>3, <3>1, Working, StoredNotes DEF LifeInv, RaceInv, MarkingPc
    <3> QED BY <1>1, <3>1, <3>2 DEF RaceInv, InOrder
  <2>4. ASSUME NEW w \in Writers, WriteNew(w), n = Own(w), r = NewLinked(w) PROVE InOrder(m, n)'
    <3>1. /\ frame[w].new \in Row /\ Held(n, frame[w].new)
          /\ frame[w].new.superseded_by = m
      BY <1>2, <2>4, Linking DEF NewLinked, Row, WriteNew
    <3> QED BY <2>1, <3>1
  <2> QED BY <1>2, <2>1, <2>2, <2>3, <2>4, Provenance
<1> QED BY <1>2, RaceWriters DEF RaceInv

\* A note is superseded by an older one only when the older one's call was in progress when the
\* newer was constructed, and never by itself.
THEOREM RacesCorrect == Spec => []OlderOnlyInRaces
<1>1. Init => RaceInv
  <2> SUFFICES ASSUME Init PROVE RaceInv
    OBVIOUS
  <2>1. \A n \in Notes, r \in Row : Held(n, r) => r = Fresh
    BY InitHeld
  <2> QED BY <2>1 DEF RaceInv, Init, Fresh, None, Notes
<1>2. LifeInv /\ RaceInv => OlderOnlyInRaces
  <2>1. ASSUME LifeInv, NEW n \in Notes PROVE Held(n, row[n]) /\ row[n] \in Row
    BY <2>1 DEF Held, LifeInv, TypeOK, TablesOK
  <2> QED BY <2>1 DEF RaceInv, OlderOnlyInRaces, InOrder
<1>3. LifeInv /\ RaceInv /\ [Next]_vars => RaceInv'
  BY RaceStep
<1> QED BY <1>1, <1>2, <1>3, LifeCorrect, PTL DEF Spec

-----------------------------------------------------------------------------
(* NeverSupersededIsIndexed *)

\* A marking of n has removed its index entries, or is about to.
Removed(n) ==
  \/ \E m \in Notes : <<m, n>> \in edges \cup torn
  \/ \E w \in Writers : Best(w) = n /\ pc[w] \in {"unmap", "edge"}

Indexing(n) == \E w \in Writers : Own(w) = n /\ pc[w] \in {"cache", "map"}
Indexed(n) == \A e \in Mentions[n] : <<e, n>> \in mapped /\ <<e, n>> \in cached

\* In the middle of the mappings, what is not mapped yet is still to do.
IndexInv ==
  /\ \A n \in stored \ cut : Removed(n) \/ Indexing(n) \/ Indexed(n)
  /\ \A w \in Writers : pc[w] = "map" =>
       \/ Removed(Own(w))
       \/ \A e \in Mentions[Own(w)] :
            <<e, Own(w)>> \in cached /\ (<<e, Own(w)>> \in mapped \/ e \in frame[w].todo)

\* A marking that took the index entries of n ends with the edge, or is torn by a fault.
LEMMA RemovedStays ==
  ASSUME LifeInv, [Next]_vars, NEW n, Removed(n)
  PROVE Removed(n)'
<1>1. edges \subseteq edges' /\ torn \subseteq torn' /\ WritersOK
  BY Grows DEF LifeInv, TypeOK
<1>2. ASSUME UNCHANGED <<pc, frame>> PROVE Removed(n)'
  BY <1>1, <1>2 DEF Removed, Best
<1>3. ASSUME NEW w \in Writers, WriterStep(w), NEW d \in Writers, Best(d) = n,
             pc[d] \in {"unmap", "edge"}
      PROVE Removed(n)'
  <2>1. CASE d # w
    BY <1>1, <1>3, <2>1, OthersKeep DEF Removed, Best
  <2>2. CASE d = w
    <3>1. Own(w) \in Notes
      BY <1>3, <2>2, Working
    <3>2. CASE Unmap(w)
      <4>1. pc'[w] = "edge" /\ frame' = frame
        BY <1>1, <3>2 DEF Unmap, Goto, WritersOK
      <4> QED BY <1>3, <2>2, <4>1 DEF Removed, Best
    <3>3. CASE AddEdge(w) \/ Fail(w)
      BY <1>3, <2>2, <3>1, <3>3 DEF Removed, AddEdge, Fail
    <3> QED BY <1>3, <2>2, <3>2, <3>3 DEF WriterStep, Construct, ConstructAs, WriteNote,
         CacheEntities, MapEntity, Look, Scan, ReadOld, ReadNew, WriteOld, WriteNew, Uncache,
         Dispatch, RewriteReturned
  <2> QED BY <2>1, <2>2
<1>4. CASE \E w \in Writers : WriterStep(w)
  BY <1>1, <1>3, <1>4 DEF Removed
<1>5. CASE \E b \in Background : BackgroundStep(b)
  BY <1>2, <1>5, BackgroundKeeps
<1>6. CASE UNCHANGED vars
  BY <1>2, <1>6, Stutter
<1> QED BY <1>4, <1>5, <1>6 DEF Next

\* Only a marking of n takes entries of n out of either index.
LEMMA IndexKeeps ==
  ASSUME LifeInv, [Next]_vars, NEW n, ~Removed(n)', NEW e
  PROVE /\ <<e, n>> \in mapped => <<e, n>> \in mapped'
        /\ <<e, n>> \in cached => <<e, n>> \in cached'
<1>1. WritersOK
  BY DEF LifeInv, TypeOK
<1>2. ASSUME NEW w \in Writers, Uncache(w) \/ Unmap(w) PROVE n # Best(w)
  <2>1. pc'[w] \in {"unmap", "edge"} /\ frame' = frame
    BY <1>1, <1>2 DEF Uncache, Unmap, Goto, WritersOK
  <2> QED BY <2>1 DEF Removed, Best
<1>3. ASSUME NEW w \in Writers, WriterStep(w)
      PROVE /\ <<e, n>> \in mapped => <<e, n>> \in mapped'
            /\ <<e, n>> \in cached => <<e, n>> \in cached'
  <2>1. CASE Uncache(w) \/ Unmap(w)
    BY <1>2, <2>1 DEF Uncache, Unmap, Without, tables
  <2> QED BY <1>3, <2>1 DEF WriterStep, Construct, ConstructAs, WriteNote, CacheEntities, MapEntity,
       Look, Scan, ReadOld, ReadNew, WriteOld, WriteNew, AddEdge, Dispatch, RewriteReturned, Fail,
       tables
<1>4. ASSUME NEW b \in Background, BackgroundStep(b)
      PROVE /\ <<e, n>> \in mapped => <<e, n>> \in mapped'
            /\ <<e, n>> \in cached => <<e, n>> \in cached'
  BY <1>4 DEF BackgroundStep, BeginRewriting, Gather, Apply, BeginNer, NerMap, NerCache, tables
<1> QED BY <1>3, <1>4, Stutter DEF Next

\* The mappings still to do in the middle of a call.
LEMMA MappingStep ==
  ASSUME LifeInv, IndexInv, [Next]_vars, NEW d \in Writers, pc'[d] = "map", ~Removed(Own(d))',
         NEW e \in Mentions[Own(d)']
  PROVE <<e, Own(d)'>> \in cached' /\ (<<e, Own(d)'>> \in mapped' \/ e \in frame'[d].todo)
<1>1. WritersOK
  BY DEF LifeInv, TypeOK
<1>2. ASSUME pc[d] = "map", Own(d)' = Own(d)
      PROVE <<e, Own(d)>> \in cached' /\ (<<e, Own(d)>> \in mapped' \/ e \in frame[d].todo)
  <2>1. PICK n : n = Own(d) /\ n = Own(d)'
    BY <1>2
  <2>2. ~Removed(n)' /\ ~Removed(n)
    BY <2>1, RemovedStays DEF Removed
  <2> QED BY <1>2, <2>1, <2>2, IndexKeeps DEF IndexInv
<1>3. ASSUME pc'[d] = pc[d], frame'[d] = frame[d]
      PROVE <<e, Own(d)'>> \in cached' /\ (<<e, Own(d)'>> \in mapped' \/ e \in frame'[d].todo)
  BY <1>2, <1>3 DEF Own
<1>4. CASE CacheEntities(d)
  <2>1. Own(d)' = Own(d) /\ frame'[d].todo = Mentions[Own(d)]
    BY <1>1, <1>4 DEF CacheEntities, Set, Own, WritersOK, Frame
  <2> QED BY <1>4, <2>1 DEF CacheEntities
<1>5. CASE MapEntity(d)
  <2>1. PICK x \in frame[d].todo :
          /\ mapped' = mapped \cup {<<x, Own(d)>>}
          /\ Set(d, [frame[d] EXCEPT !.todo = @ \ {x}])
    BY <1>1, <1>5 DEF MapEntity, Goto, WritersOK
  <2>2. Own(d)' = Own(d) /\ frame'[d].todo = frame[d].todo \ {x}
    BY <1>1, <2>1 DEF Set, Own, WritersOK, Frame
  <2> QED BY <1>2, <1>5, <2>1, <2>2 DEF MapEntity
<1>6. ASSUME WriterStep(d), ~CacheEntities(d), ~MapEntity(d) PROVE FALSE
  BY <1>1, <1>6 DEF WritersOK, WriterStep, Construct, ConstructAs, WriteNote, Look, Candidates, Scan,
     ReadOld, ReadNew, WriteOld, WriteNew, Uncache, Unmap, AddEdge, Marked, Dispatch,
     RewriteReturned, Fail, Return, Goto
<1> QED BY <1>1, <1>3, <1>4, <1>5, <1>6, OthersKeep, BackgroundKeeps, Stutter DEF Next

\* IndexInv is inductive relative to LifeInv.
LEMMA IndexStep == ASSUME LifeInv, IndexInv, [Next]_vars PROVE IndexInv'
<1>1. WritersOK /\ TypeOK
  BY DEF LifeInv, TypeOK
<1>2. ASSUME NEW n \in stored' \ cut', ~Removed(n)' PROVE Indexing(n)' \/ Indexed(n)'
  <2>1. ~Removed(n) /\ n \notin cut
    BY <1>1, <1>2, RemovedStays, Grows
  <2>2. CASE n \notin stored
    <3>1. PICK w \in Writers : WriteNote(w)
      BY <1>2, <2>2, BackgroundKeeps, Stutter DEF Next, WriterStep, Construct, ConstructAs,
         CacheEntities, MapEntity, Look, Scan, ReadOld, ReadNew, WriteOld, WriteNew, Uncache, Unmap,
         AddEdge, Dispatch, RewriteReturned, Fail, tables
    <3>2. pc'[w] = "cache" /\ frame' = frame /\ n = Own(w)
      BY <1>1, <1>2, <2>2, <3>1 DEF WriteNote, Goto, WritersOK
    <3> QED BY <3>2 DEF Indexing, Own
  <2>3. CASE Indexed(n)
    BY <1>2, <2>3, IndexKeeps DEF Indexed
  <2>4. ASSUME NEW d \in Writers, Own(d) = n, pc[d] \in {"cache", "map"}
        PROVE Indexing(n)' \/ Indexed(n)'
    <3>1. CASE pc'[d] = pc[d] /\ frame'[d] = frame[d]
      BY <2>4, <3>1 DEF Indexing, Own
    <3>2. CASE CacheEntities(d)
      <4>1. Own(d)' = Own(d)
        BY <1>1, <3>2 DEF CacheEntities, Set, Own, WritersOK, Frame
      <4>2. pc'[d] = "map" \/ Mentions[n] = {}
        BY <1>1, <2>4, <3>2 DEF CacheEntities, Goto, WritersOK
      <4> QED BY <2>4, <4>1, <4>2 DEF Indexing, Indexed
    <3>3. CASE MapEntity(d)
      <4>1. PICK e \in frame[d].todo :
              /\ mapped' = mapped \cup {<<e, n>>}
              /\ (frame[d].todo = {e} \/ UNCHANGED pc)
        BY <2>4, <3>3 DEF MapEntity
      <4>2. Own(d)' = Own(d) /\ pc[d] = "map"
        BY <1>1, <3>3 DEF MapEntity, Set, Own, WritersOK, Frame
      <4>3. \A x \in Mentions[n] : <<x, n>> \in cached' /\ (<<x, n>> \in mapped' \/ x \in frame[d].todo)
        BY <1>2, <2>1, <2>4, <4>2, IndexKeeps DEF IndexInv
      <4> QED BY <2>4, <4>1, <4>2, <4>3 DEF Indexing, Indexed
    <3>4. ASSUME WriterStep(d), ~CacheEntities(d), ~MapEntity(d) PROVE FALSE
      BY <1>2, <2>4, <3>4 DEF WriterStep, Construct, ConstructAs, WriteNote, Look, Scan, ReadOld,
         ReadNew, WriteOld, WriteNew, Uncache, Unmap, AddEdge, Dispatch, RewriteReturned, Fail
    <3> QED BY <1>1, <3>1, <3>2, <3>3, <3>4, OthersKeep, BackgroundKeeps, Stutter DEF Next
  <2> QED BY <2>1, <2>2, <2>3, <2>4 DEF IndexInv, Indexing
<1>3. ASSUME NEW d \in Writers, pc'[d] = "map", ~Removed(Own(d))', NEW e \in Mentions[Own(d)']
      PROVE <<e, Own(d)'>> \in cached' /\ (<<e, Own(d)'>> \in mapped' \/ e \in frame'[d].todo)
  BY <1>3, MappingStep
<1> QED BY <1>2, <1>3 DEF IndexInv

\* A note nothing ever superseded is in both indexes under every entity remember() saw in it,
\* unless its own call is still mapping or was cut short.
THEOREM IndexCorrect == Spec => []NeverSupersededIsIndexed
<1>1. Init => IndexInv
  BY DEF Init, IndexInv
<1>2. LifeInv /\ IndexInv => NeverSupersededIsIndexed
  <2> SUFFICES ASSUME LifeInv, IndexInv, NEW n \in stored \ cut, Indexed(n)
               PROVE Mentions[n] \X {n} \subseteq mapped \cap cached
    BY DEF IndexInv, NeverSupersededIsIndexed, Removed, Indexing
  <2> QED BY DEF Indexed
<1>3. LifeInv /\ IndexInv /\ [Next]_vars => IndexInv'
  BY IndexStep
<1> QED BY <1>1, <1>2, <1>3, LifeCorrect, PTL DEF Spec
=============================================================================
