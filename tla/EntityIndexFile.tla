--------------------------- MODULE EntityIndexFile ---------------------------
(***************************************************************************)
(* EntityIndexer: the index in memory, its JSON file, and the timer that   *)
(* writes the file five seconds after a change.  The lock guards every     *)
(* mutation and the whole flush; build() takes it only for its parts, and  *)
(* save(), which anyone may call, only for the snapshot it then writes.    *)
(***************************************************************************)
EXTENDS Integers, FiniteSets

CONSTANTS Indexed,              \* notes
          IndexThreads,         \* threads that call add_note and remove_note
          MaxChanges, MaxBuilds, MaxSaveErrors   \* bounds of the search

ASSUME IndexConstants == MaxChanges \in Nat /\ MaxBuilds \in Nat /\ MaxSaveErrors \in Nat

VARIABLES index, file,   \* notes with mappings in memory and in entity_index.json
          modified,      \* _dirty
          timer,         \* the thread behind _flush_timer
          stray,         \* a timer that build() dropped after it had fired
          caller,        \* who is between its mutation and _schedule_flush
          builder, todo, copy,   \* build(): where it is, notes to add, snapshot to write
          saving, saveCopy,      \* a call of save(), and its snapshot
          known,         \* notes in the store build() reads
          raced,         \* a change or a save() ran beside build(), or a flush beside a save()
                         \* that had an older snapshot to write
          missed,        \* a change relied on a timer that had left its flush, or a save raised
          halfBuilt,     \* build() replaced the index and raised before it was written
          changes, builds, saveErrors
buildVars == <<builder, todo, copy, builds>>
saveVars == <<saving, saveCopy>>
excuses == <<raced, missed, halfBuilt>>
indexVars == <<index, file, modified, timer, stray, caller, buildVars, saveVars, known, excuses,
               changes, saveErrors>>

Callers == IndexThreads \cup {"builder"}
Alive == {"waiting", "fired", "leaving"}

IndexTypeOK ==
  /\ index \subseteq Indexed /\ file \subseteq Indexed /\ known \subseteq Indexed
  /\ timer \in Alive \cup {"none"} /\ stray \in BOOLEAN
  /\ caller \subseteq Callers
  /\ builder \in {"idle", "adding", "cancel", "snapshot", "write", "clear"}
  /\ todo \subseteq Indexed /\ copy \subseteq Indexed
  /\ saving \in BOOLEAN /\ saveCopy \subseteq Indexed
  /\ modified \in BOOLEAN /\ raced \in BOOLEAN /\ missed \in BOOLEAN /\ halfBuilt \in BOOLEAN
  /\ changes \in 0..MaxChanges /\ builds \in 0..MaxBuilds /\ saveErrors \in 0..MaxSaveErrors

IndexInit ==
  /\ index = {} /\ file = {} /\ known = {} /\ modified = FALSE
  /\ timer = "none" /\ stray = FALSE /\ caller = {}
  /\ builder = "idle" /\ todo = {} /\ copy = {}
  /\ saving = FALSE /\ saveCopy = {}
  /\ raced = FALSE /\ missed = FALSE /\ halfBuilt = FALSE
  /\ changes = 0 /\ builds = 0 /\ saveErrors = 0

-----------------------------------------------------------------------------
\* add_note and remove_note: the mutation under the lock, then _schedule_flush.
Mutate(t, new) ==
  /\ t \notin caller
  /\ index' = new
  /\ modified' = TRUE
  /\ caller' = caller \cup {t}

Change(t, n) ==
  /\ changes < MaxChanges
  /\ changes' = changes + 1
  /\ raced' = (raced \/ builder # "idle")
  /\ \/ Mutate(t, index \cup {n}) /\ known' = known \cup {n}
     \/ n \in index /\ Mutate(t, index \ {n}) /\ UNCHANGED known
  /\ UNCHANGED <<file, timer, stray, buildVars, saveVars, missed, halfBuilt, saveErrors>>

\* A timer thread is alive until its callback has returned and it has ended.
ScheduleFlush(t) ==
  /\ t \in caller
  /\ caller' = caller \ {t}
  /\ timer' = IF timer \in Alive THEN timer ELSE "waiting"
  /\ missed' = (missed \/ (timer = "leaving" /\ modified))
  /\ UNCHANGED <<index, file, modified, stray, buildVars, saveVars, known, raced, halfBuilt, changes,
                 saveErrors>>

TimerFires ==
  /\ timer = "waiting"
  /\ timer' = "fired"
  /\ UNCHANGED <<index, file, modified, stray, caller, buildVars, saveVars, known, excuses, changes,
                 saveErrors>>

\* What a write of the index makes good; a save() under way may still put an older one back.
Settled ==
  /\ raced' = \/ raced /\ builder # "idle"
              \/ saving /\ saveCopy # index
  /\ missed' = FALSE /\ halfBuilt' = FALSE

\* Mutation of FlushSync: the flag is cleared before the save, which may raise.
FlushClearingFirst ==
  \/ /\ modified
     /\ file' = index
     /\ modified' = FALSE
     /\ Settled
     /\ UNCHANGED saveErrors
  \/ /\ modified /\ saveErrors < MaxSaveErrors
     /\ saveErrors' = saveErrors + 1
     /\ missed' = TRUE
     /\ modified' = FALSE
     /\ UNCHANGED <<file, raced, halfBuilt>>

\* _flush_sync: the check, the save and the clear of the flag under one acquisition.
FlushSync ==
  \/ /\ ~modified
     /\ UNCHANGED <<file, modified, excuses, saveErrors>>
  \/ /\ modified
     /\ file' = index
     /\ modified' = FALSE
     /\ Settled
     /\ UNCHANGED saveErrors
  \/ /\ modified /\ saveErrors < MaxSaveErrors
     /\ saveErrors' = saveErrors + 1
     /\ missed' = TRUE
     /\ UNCHANGED <<file, modified, raced, halfBuilt>>

FlushTimer ==
  /\ FlushSync
  /\ \/ timer = "fired" /\ timer' = "leaving" /\ UNCHANGED stray
     \/ stray /\ stray' = FALSE /\ UNCHANGED timer
  /\ UNCHANGED <<index, caller, buildVars, saveVars, known, changes>>

TimerEnds ==
  /\ timer = "leaving"
  /\ timer' = "none"
  /\ UNCHANGED <<index, file, modified, stray, caller, buildVars, saveVars, known, excuses, changes,
                 saveErrors>>

\* save() on its own: a snapshot under the lock, the file without it; the flag is left alone.
SaveSnapshot ==
  /\ ~saving
  /\ saving' = TRUE /\ saveCopy' = index
  /\ raced' = (raced \/ builder # "idle")
  /\ UNCHANGED <<index, file, modified, timer, stray, caller, buildVars, known, missed, halfBuilt,
                 changes, saveErrors>>

SaveEnds ==
  /\ saving
  /\ saving' = FALSE /\ saveCopy' = {}
  /\ \/ file' = saveCopy /\ UNCHANGED saveErrors
     \/ saveErrors < MaxSaveErrors /\ saveErrors' = saveErrors + 1 /\ UNCHANGED file
  /\ UNCHANGED <<index, modified, timer, stray, caller, buildVars, known, excuses, changes>>

-----------------------------------------------------------------------------
\* build(): a new index without the lock, every note of the store through add_note, the timer
\* cancelled, then the file written and the flag cleared without the lock.
BuildStart ==
  /\ builder = "idle" /\ builds < MaxBuilds
  /\ builds' = builds + 1
  /\ index' = {}
  /\ todo' = known
  /\ builder' = "adding"
  /\ raced' = (raced \/ caller # {} \/ saving)
  /\ UNCHANGED <<file, modified, timer, stray, caller, copy, saveVars, known, missed, halfBuilt,
                 changes, saveErrors>>

BuildAdd(n) ==
  /\ builder = "adding" /\ n \in todo
  /\ Mutate("builder", index \cup {n})
  /\ todo' = todo \ {n}
  /\ UNCHANGED <<file, timer, stray, builder, copy, builds, saveVars, known, excuses, changes,
                 saveErrors>>

BuildCancel ==
  /\ builder = "adding" /\ todo = {} /\ "builder" \notin caller
  /\ builder' = "snapshot"
  /\ stray' = (stray \/ timer = "fired")
  /\ timer' = "none"
  /\ UNCHANGED <<index, file, modified, caller, todo, copy, builds, saveVars, known, excuses,
                 changes, saveErrors>>

BuildSnapshot ==
  /\ builder = "snapshot"
  /\ copy' = index
  /\ builder' = "write"
  /\ UNCHANGED <<index, file, modified, timer, stray, caller, todo, builds, saveVars, known, excuses,
                 changes, saveErrors>>

BuildWrite ==
  /\ builder = "write"
  /\ file' = copy
  /\ builder' = "clear"
  /\ UNCHANGED <<index, modified, timer, stray, caller, todo, copy, builds, saveVars, known,
                 excuses, changes, saveErrors>>

BuildClear ==
  /\ builder = "clear"
  /\ modified' = FALSE
  /\ builder' = "idle"
  /\ copy' = {}
  /\ halfBuilt' = FALSE
  /\ UNCHANGED <<index, file, timer, stray, caller, todo, builds, saveVars, known, raced, missed,
                 changes, saveErrors>>

\* The store or the extractor raises between two notes, or save() before the file is replaced:
\* the index stays as far as it came, and in the second case the timer is gone.
BuildRaises ==
  /\ builder \in {"adding", "snapshot", "write"} /\ "builder" \notin caller
  /\ saveErrors < MaxSaveErrors
  /\ saveErrors' = saveErrors + 1
  /\ halfBuilt' = TRUE
  /\ missed' = (missed \/ builder # "adding")
  /\ builder' = "idle" /\ todo' = {} /\ copy' = {}
  /\ UNCHANGED <<index, file, modified, timer, stray, caller, builds, saveVars, known, raced,
                 changes>>

IndexTimer == TimerFires \/ FlushTimer \/ TimerEnds
IndexNext ==
  \/ \E t \in IndexThreads, n \in Indexed : Change(t, n)
  \/ \E t \in Callers : ScheduleFlush(t)
  \/ IndexTimer \/ SaveSnapshot \/ SaveEnds
  \/ \E n \in Indexed : BuildAdd(n)
  \/ BuildStart \/ BuildCancel \/ BuildSnapshot \/ BuildWrite \/ BuildClear \/ BuildRaises

IndexSpec == IndexInit /\ [][IndexNext]_indexVars

-----------------------------------------------------------------------------
\* Every change is in the file or on its way there: a clear flag means that the file has the
\* index (entity_indexer.py:629-640: "so the dirty flag and the on-disk state stay consistent"),
\* a set one that a timer before its flush or a caller about to start one will write it.  The
\* first fails, until the next flush, after a change or save() beside a build(), a flush beside a
\* save(), or a build() that raised; the second where a change met a timer on its way out or a
\* save raised: then it waits for the next change.
ChangesReachFile ==
  builder = "idle" =>
    /\ ~modified => file = index \/ raced \/ halfBuilt
    /\ modified => caller # {} \/ timer \in {"waiting", "fired"} \/ missed
=============================================================================
