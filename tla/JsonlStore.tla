------------------------------ MODULE JsonlStore ------------------------------
(***************************************************************************)
(* MemoryStore: one line per note in a JSONL file.  write_note appends,    *)
(* _rewrite_note copies the file with one line changed and renames the     *)
(* copy into place; both hold flock() on the file they opened, which is    *)
(* the file under the name only until the next rename, and write_note      *)
(* gives it back while its line is still in the buffer of the open file.   *)
(* _flush_access rewrites the notes whose access counts changed.           *)
(***************************************************************************)
EXTENDS Integers

CONSTANTS JNotes, JThreads,
          Flusher,             \* the thread that runs _flush_access
          MaxRenames, MaxVersion, MaxFaults   \* bounds of the search

VARIABLES name,       \* the file the path names; files are numbered in the order of creation
          lines,      \* lines[f][n]: version of note n in file f, 0 when it has no line
          holder,     \* who holds flock() on each file
          job,        \* the call each thread is in
          cache,      \* _note_cache: version of each note in memory
          saved,      \* notes whose line in each file has the access count of the cached note
          dirty, batch, flushing,   \* _dirty_access, its copy, and where _flush_access is
          overtaken,  \* a call wrote through a file that another call had renamed over, or
                      \* had copied before the line left the buffer
          slipped,    \* an id was added between copy() and clear(), or a rewrite of the batch raised
          faults
fileVars == <<name, lines, saved, holder>>
accessVars == <<dirty, batch, flushing, slipped>>
jsonlVars == <<fileVars, accessVars, job, cache, overtaken, faults>>

Nobody == "nobody"
Files == 1..MaxRenames + 1
Content == [JNotes -> 0..MaxVersion]
Threads == JThreads \cup {Flusher}
ASSUME JsonlConstants ==
  /\ JNotes # {} /\ Flusher \notin JThreads /\ Nobody \notin Threads
  /\ MaxRenames \in Nat /\ MaxVersion \in Nat \ {0} /\ MaxFaults \in Nat
NoJob(n) == [at |-> "idle", op |-> "append", note |-> n, file |-> 1,
             copy |-> [m \in JNotes |-> 0], kept |-> {}]

JsonlTypeOK ==
  /\ name \in Files /\ lines \in [Files -> Content] /\ holder \in [Files -> Threads \cup {Nobody}]
  /\ job \in [Threads -> [at : {"idle", "opened", "locked", "buffered", "copied"},
                          op : {"append", "rewrite"}, note : JNotes, file : Files,
                          copy : Content, kept : SUBSET JNotes]]
  /\ cache \in Content /\ saved \in [Files -> SUBSET JNotes]
  /\ dirty \subseteq JNotes /\ batch \subseteq JNotes
  /\ flushing \in {"no", "copied", "writing"}
  /\ overtaken \in BOOLEAN /\ slipped \in BOOLEAN /\ faults \in 0..MaxFaults

JsonlInit ==
  /\ name = 1
  /\ lines = [f \in Files |-> [n \in JNotes |-> 0]]
  /\ holder = [f \in Files |-> Nobody]
  /\ job = [t \in Threads |-> NoJob(CHOOSE n \in JNotes : TRUE)]
  /\ cache = [n \in JNotes |-> 0]
  /\ saved = [f \in Files |-> {}] /\ dirty = {} /\ batch = {} /\ flushing = "no"
  /\ overtaken = FALSE /\ slipped = FALSE /\ faults = 0

Stored(n) == cache[n] # 0
Finish(t) == job' = [job EXCEPT ![t] = NoJob(@.note)]
Unlocked(f) == holder' = [holder EXCEPT ![f] = Nobody]

-----------------------------------------------------------------------------
\* open(self.jsonl_path): the file that has the name now.
Open(t, op, n) ==
  /\ job[t].at = "idle"
  /\ job' = [job EXCEPT ![t] = [NoJob(n) EXCEPT !.at = "opened", !.op = op, !.file = name]]

BeginWrite(t, n) ==
  /\ ~Stored(n)
  /\ \A u \in Threads : job[u].at # "idle" => job[u].note # n
  /\ Open(t, "append", n)
  /\ UNCHANGED <<fileVars, accessVars, cache, overtaken, faults>>

BeginRewrite(t, n) ==
  /\ Stored(n)
  /\ Open(t, "rewrite", n)
  /\ UNCHANGED <<fileVars, accessVars, cache, overtaken, faults>>

\* flock(LOCK_EX) waits for the holder of this file.
Lock(t) ==
  /\ job[t].at = "opened"
  /\ holder[job[t].file] = Nobody
  /\ holder' = [holder EXCEPT ![job[t].file] = t]
  /\ job' = [job EXCEPT ![t].at = "locked"]
  /\ UNCHANGED <<name, lines, saved, accessVars, cache, overtaken, faults>>

\* write() leaves the line in the buffer; flock(LOCK_UN) follows at once.
BufferLine(t) ==
  /\ job[t].at = "locked" /\ job[t].op = "append"
  /\ job' = [job EXCEPT ![t].at = "buffered"]
  /\ Unlocked(job[t].file)
  /\ UNCHANGED <<name, lines, saved, accessVars, cache, overtaken, faults>>

\* The end of the with block flushes the line, lock or no lock; then the cache has the note.
FlushLine(t) ==
  LET j == job[t] IN
  /\ j.at = "buffered"
  /\ lines' = [lines EXCEPT ![j.file][j.note] = 1]
  /\ saved' = [saved EXCEPT ![j.file] = @ \cup {j.note}]
  /\ cache' = [cache EXCEPT ![j.note] = 1]
  /\ overtaken' = \/ overtaken \/ j.file # name
                  \/ \E u \in Threads : job[u].at = "copied" /\ job[u].file = j.file
  /\ Finish(t)
  /\ UNCHANGED <<name, holder, accessVars, faults>>

\* The flush raises: no line, no note in the cache.
LineRaises(t) ==
  /\ job[t].at = "buffered" /\ faults < MaxFaults
  /\ faults' = faults + 1
  /\ Finish(t)
  /\ UNCHANGED <<fileVars, accessVars, cache, overtaken>>

\* The lines of the locked file, the note's own replaced (or added when it has none).
CopyLines(t) ==
  LET j == job[t] IN
  /\ j.at = "locked" /\ j.op = "rewrite"
  /\ cache[j.note] < MaxVersion
  /\ job' = [job EXCEPT ![t].at = "copied",
                        ![t].copy = [lines[j.file] EXCEPT ![j.note] = cache[j.note] + 1],
                        ![t].kept = saved[j.file] \cup {j.note}]
  /\ UNCHANGED <<fileVars, accessVars, cache, overtaken, faults>>

\* os.replace, then the cache, then the lock of the file that was opened.
Rename(t) ==
  LET j == job[t] IN
  /\ j.at = "copied"
  /\ name < MaxRenames + 1
  /\ name' = name + 1
  /\ lines' = [lines EXCEPT ![name + 1] = j.copy]
  /\ saved' = [saved EXCEPT ![name + 1] = j.kept]
  /\ cache' = [cache EXCEPT ![j.note] = j.copy[j.note]]
  /\ overtaken' = (overtaken \/ j.file # name)
  /\ Unlocked(j.file) /\ Finish(t)
  /\ batch' = IF t = Flusher THEN batch \ {j.note} ELSE batch
  /\ UNCHANGED <<dirty, flushing, slipped, faults>>

\* Mutation of RewriteRaises: the cache was updated before the file was written.
RewriteRaisesCached(t) ==
  LET j == job[t] IN
  /\ j.at = "copied" /\ faults < MaxFaults
  /\ faults' = faults + 1
  /\ IF t = Flusher THEN batch' = {} /\ slipped' = TRUE ELSE UNCHANGED <<batch, slipped>>
  /\ Unlocked(j.file) /\ Finish(t)
  /\ cache' = [cache EXCEPT ![j.note] = j.copy[j.note]]
  /\ UNCHANGED <<name, lines, saved, dirty, flushing, overtaken>>

\* The temporary file cannot be written: it is removed and the exception leaves the call; in
\* _flush_access it leaves the loop, and the rest of the batch with it.
RewriteRaises(t) ==
  LET j == job[t] IN
  /\ j.at = "copied" /\ faults < MaxFaults
  /\ faults' = faults + 1
  /\ IF t = Flusher THEN batch' = {} /\ slipped' = TRUE ELSE UNCHANGED <<batch, slipped>>
  /\ Unlocked(j.file) /\ Finish(t)
  /\ UNCHANGED <<name, lines, saved, dirty, flushing, cache, overtaken>>

-----------------------------------------------------------------------------
\* The count in the cached note has grown: no file has it, nor a copy a rewrite has taken.
MarkAccess(n) ==
  /\ Stored(n)
  /\ saved' = [f \in Files |-> saved[f] \ {n}]
  /\ job' = [t \in Threads |-> [job[t] EXCEPT !.kept = @ \ {n}]]
  /\ dirty' = dirty \cup {n}
  /\ slipped' = (slipped \/ (flushing = "copied" /\ n \notin batch))
  /\ UNCHANGED <<name, lines, holder, batch, flushing, cache, overtaken, faults>>

FlushCopy ==
  /\ flushing = "no" /\ dirty # {}
  /\ batch' = dirty
  /\ flushing' = "copied"
  /\ UNCHANGED <<fileVars, dirty, slipped, job, cache, overtaken, faults>>

FlushClear ==
  /\ flushing = "copied"
  /\ dirty' = {}
  /\ flushing' = "writing"
  /\ UNCHANGED <<fileVars, batch, slipped, job, cache, overtaken, faults>>

FlushNote(n) == flushing = "writing" /\ n \in batch /\ BeginRewrite(Flusher, n)

\* Mutation of FlushEnd: the set of ids is cleared once the batch is written.
FlushEndClearing ==
  /\ flushing = "writing" /\ batch = {} /\ job[Flusher].at = "idle"
  /\ flushing' = "no"
  /\ dirty' = {}
  /\ UNCHANGED <<fileVars, batch, slipped, job, cache, overtaken, faults>>

FlushEnd ==
  /\ flushing = "writing" /\ batch = {} /\ job[Flusher].at = "idle"
  /\ flushing' = "no"
  /\ UNCHANGED <<fileVars, dirty, batch, slipped, job, cache, overtaken, faults>>

JsonlNext ==
  \/ \E t \in JThreads, n \in JNotes : BeginWrite(t, n) \/ BeginRewrite(t, n)
  \/ \E t \in Threads : \/ Lock(t) \/ BufferLine(t) \/ FlushLine(t) \/ LineRaises(t)
                        \/ CopyLines(t) \/ Rename(t) \/ RewriteRaises(t)
  \/ \E n \in JNotes : MarkAccess(n) \/ FlushNote(n)
  \/ FlushCopy \/ FlushClear \/ FlushEnd

JsonlSpec == JsonlInit /\ [][JsonlNext]_jsonlVars

-----------------------------------------------------------------------------
\* Every note is in the file as the process has it, whatever the order of appends, rewrites,
\* failed rewrites and access flushes: a line is lost or turned back only after some call wrote
\* through a file that had lost the name while the call waited for its lock (memory_store.py:357),
\* or an append's line left the buffer, unlocked, under a rewrite that had read the file (:179).
DiskCurrentUnlessOvertaken == ~overtaken => lines[name] = cache

\* An access count that is not in the file is in the set to flush or in the flush under way,
\* unless it was marked between copy() and clear(), a rewrite of its batch raised, or a rewrite
\* from lines that were no longer the file's put an older count back.
UnsavedAccessIsPending ==
  ~slipped /\ ~overtaken => {n \in JNotes : Stored(n)} \ saved[name] \subseteq dirty \cup batch
=============================================================================
