# ZettelForge: TLA+ models and proofs

ZettelForge is a memory for agents that work on cyber threat intelligence. A
`MemoryManager` writes notes to SQLite, keeps entity indexes and a knowledge
graph beside them, hands slow LLM work to a background thread, and answers
recall queries. This directory models the parts of it whose correctness
depends on order, interleaving and failure.

Files are named by path from the repository root below (`src/zettelforge/...`
is abbreviated to the file name).

## Inventory

| Component (source) | State it keeps | Operations | Interacts with | What makes it correct |
| --- | --- | --- | --- | --- |
| Enrichment pipeline (`memory_manager.py`) | `_enrichment_queue` (500), its `unfinished_tasks`, `_pending_enrichment`, one daemon thread, two atexit handlers | dispatch in `remember()`, `evolve_note`, worker loop, `flush`, drain | ledger, note table, LLM | a job runs once, is settled once, and `flush()` waits for exactly the jobs put |
| Ledger (`enrichment_ledger.py`, `sqlite_backend.py`) | table `enrichment_jobs` | insert, mark running, mark terminal | pipeline | queued, running, terminal, in that order; what is terminal stays |
| Note store, supersession (`sqlite_backend.py`, `memory_manager.py`, `memory_updater.py`, `memory_evolver.py`) | table `notes` (whole rows), `entity_index` table | `write_note`, `rewrite_note`, `mark_note_superseded`, `apply`, `apply_evolution`, `rollback` | callers, worker, consolidation thread | `superseded_by` and `supersedes` agree; links are backed by edges and lead to newer notes; the indexes lose only what was superseded |
| SQLite backend (`sqlite_backend.py`) | one connection, its open transaction, cursors, graph tables | statement and commit under a lock, `add_kg_edge`, `iterate_notes`, `close` | everything that stores | what is committed is what returned; a scan passes nothing over |
| Consolidation (`consolidation.py`) | window counters under a lock, last consolidation time, one async thread | `before_write`, `consolidate`, `reset` | note store, `remember()` | every note has its turn in a run |
| Entity index (`entity_indexer.py`) | dict of sets, dirty flag, 5 s timer, JSON file | `add_note`, `remove_note`, `save`, `build`, flush | supersession, NER job, recall | the file catches up with memory |
| JSONL store (`memory_store.py`) | JSONL file, cache, dirty access ids, 60 s timer, LanceDB handle | append, rewrite under `flock`, access flush | LanceDB maintenance | no line lost to a concurrent rewrite |
| JSONL knowledge graph (`knowledge_graph.py`) | nodes, edges, indexes, timeline, two files | upsert node and edge, temporal edge, load, traverse | remember, supersession | memory equals a reload of the files |
| Graph and blended retrieval (`graph_retriever.py`, `blended_retriever.py`, `vector_retriever.py`) | none | walks over the graph, vector search, blend | recall | distances and reach are those of the graph, though it grows meanwhile |
| Recall, synthesis, telemetry (`memory_manager.py`, `synthesis_generator.py`, `telemetry.py`) | last query id and notes, query contexts, event file | `recall` with timeout, `synthesize`, feedback | store, vectors, LLM | nothing stale returned, a timeout bounds the call, events belong to their query |
| LLM calls (`llm_client.py`, `llm_providers/`) | registry, singletons under a lock, loaded model | `generate`, `get`, `reset`, `reload`, fallback | all LLM users | one instance per name, none of an old configuration |
| Embeddings (`vector_memory.py`, `cache.py`) | cache with lifetime and limit | `get_embedding` | recall, `remember()` | one vector for a text while its entry lives |
| LanceDB maintenance (`lance_maintenance.py`) | one thread per table, stop event | `start`, `register_table`, `stop` | JSONL store | a written table has a live thread, `stop` stops all |
| Memory defense, governance (`memory_defense.py`, `governance_validator.py`, `pii_validator.py`) | configuration, quarantine | `evaluate`, `enforce`, redaction | `remember()` | the stored text is the redacted one; the order of the gate |
| Long texts (`memory_manager.py`, `fact_extractor.py`, `memory_updater.py`) | the call's pieces and facts | `remember_chunked`, `remember_report`, `remember_with_extraction` | `remember()`, LLM | a text is taken in piece by piece up to a point, and what is passed over is known |
| Rule ingestion (`sigma/`, `yara/`) | none | walk, ingest, relations, `flush(timeout)` | `remember()`, graph | ingested once, with all its relations |
| OSINT (`osint/`) | the run and its counts | run the collectors of a seed, write tuples | network, graph | tuples are written whole and counted |
| Ontology (`ontology.py`) | entities, relations, two files | create entity, create relation, reload | OSINT, rules | the schema holds of the relations |
| Configuration (`config.py`) | one global object | `get_config`, `reload_config`, edits | everything | what is published is what the layers say |
| Migration (`scripts/migrate_jsonl_to_sqlite.py`) | lookup of nodes | four files line by line | SQLite backend | everything readable arrives, whatever ran before |
| Web application (`src/web/app.py`) | rate windows, log stream position | guard, stream, configuration editor | `MemoryManager`, log | no caller exceeds its rate, the stream follows the log |
| Other entry points (`mcp/`, `integrations/`) | sessions | request handlers | `MemoryManager` | translation only |

The threads: any number of callers (web requests, MCP calls, ingest loops) run
`remember`, `evolve_note`, `flush`; one daemon worker runs
`_enrichment_loop`; a consolidation thread runs at most one scan; timers flush
indexes; one thread per LanceDB table compacts it; at interpreter exit the
main thread runs the atexit handlers while the daemon threads still run. They
share the SQLite connection (one lock per statement, none across statements),
the queue, and the in-memory indexes. The hard behaviours are listed with their
lines in `PROJECT.json` under `hazards`.

## Plan

Done, in this order:

1. `EnrichmentLedger`, `EnrichmentPipeline` and its proofs: the one part with a
   queue, a barrier, failures and a shutdown protocol.
2. `NoteLifecycle` and its proofs: notes as rows rewritten whole from copies read
   earlier, by callers, the worker and consolidation.
3. The stores and their maintenance: `SqliteBackend` and its proofs, `JsonlStore`,
   `EntityIndexFile`, `KnowledgeGraphLog`, `Consolidation`, `LanceMaintenance`,
   composed in `MCStores`.
4. The services: `WriteGate`, `GraphSearch`, `Recall`, `Synthesis`, `LlmCalls`,
   `EmbeddingCache`, `FactIngest`, `RuleIngest`, `OsintRuns`, `TypedStore`,
   `ConfigLoad`, `WebApi`, `Migration`, composed in `MCServices`.

5. Proofs of every safety property the passing runs check, with the pipeline's
   refinement of `EnrichmentLedger`, and of both compositions; see Proofs.

What a continuation would add is in Not modelled; what is only model-checked is at
the end of Proofs.

## EnrichmentLedger and EnrichmentPipeline

`EnrichmentLedger` says what the table `enrichment_jobs` promises, without
threads: a row is admitted once, an execution starts at most once, an outcome stays.

`EnrichmentPipeline` is the code. One step is one call on a shared object: a
store statement (each takes the backend's lock), a queue operation (under the
queue's mutex), an operation on the pending set. Whatever a thread does between two of
those is local, so that this is the grain at which threads interleave.

| Variable | In the code |
| --- | --- |
| `phase` | the process: up, atexit handlers running, store closed, exited, crashed |
| `note` | presence of a note in table `notes` |
| `ledger`, `attempts`, `code` | columns `state`, `attempt_count`, `last_error_code` |
| `queue`, `unfinished`, `pending` | `_enrichment_queue`, its `unfinished_tasks`, `_pending_enrichment` |
| `pc`, `job` | per caller: the statement of `_enqueue_enrichment_job` (or `flush`) it is at, and the job |
| `cpc`, `hold`, `err` | per consumer (the worker's loop and the drain have the same body): position, job, `ledger_error_code` |
| `bounds` | how many faults, deadlines, deletions, evolve calls and stops are left |
| `lost` | history: rows given up for a known reason (stop, closed store, a fault in the settling statement) |

| Action | In the code |
| --- | --- |
| `Remember`, `EvolveNote` | the note is written (read), the first job is built |
| `CreateRow`, `Put`, `AddPending`, `Reject` | the statements of `_enqueue_enrichment_job` in their order |
| `CountNotes` | `count_notes() >= 3` decides on the neighbor evolution job |
| `Flush`, `FlushTrue`, `FlushFalse` | `flush()` waiting, returning True, giving up |
| `DeleteNote` | `delete_note` of the storage API, between dispatch and execution |
| `Take` ... `TaskDone` | the loop body: get, mark running, handler (`FetchNote`, `Work`), mark terminal, except clause, finally |
| `DrainReturn`, `BeginExit`, `CloseStore`, `Exit` | interpreter exit: drain first, then close, then the daemon thread is gone |
| `Crash`, `Restart` | the process dies; `__init__` starts again on the same database |

Abstractions. A job is its note and its kind; `evolve_note` jobs are
neighbor-evolution jobs with an identity of their own, one per note. A note
passes `should_enrich` or not (`Deep`). An LLM call succeeds or fails. Error
codes are kept as far as they tell failures apart (the three
`..._failed` codes are one). A store fault is a statement that raises without
effect (`CallerFault`, `StoreRaises`); a fault between a statement and its
commit is in `SqliteBackend`. `job.defer` is never set in the repository;
`sync=True` runs inline and writes no row, so both are left out. The
`enrichment.enabled` switch is on. The queue's wake-ups are not modelled: a
thread whose condition holds may run.

### Properties

* `TypeOK`; the queue never exceeds its maxsize.
* `OneOwner`: a job is in one place, with its caller, once in the queue, or with one
  consumer. The drain and the worker take from the same queue at exit.
* `NoRowForgotten`: a row that is queued or running belongs to somebody who will
  settle it, or was lost for a recorded reason.
* `UnfinishedExact`: the counter behind `flush()` is the jobs in the queue plus the
  jobs in flight, on every path out of the loops.
* `RowTruth`: at most one attempt, also across restarts; a refused job never ran;
  a handler's outcome means it ran.
* `FlushBarrier`: when an untimed `flush()` returns, every job put before is settled
  or was lost. Of the timed one the model has both answers and no property: it looks at
  the counter after its wait, and True then says as much as the counter does.
* `DrainLeavesOnlyInFlight`: after a drain without fault or deadline the store
  closes with at most the worker's job open.
* `LedgerSpec`: the pipeline implements `EnrichmentLedger`.
* `EveryJobSettles`, `FlushReturns`: liveness while the worker lives.

### Runs

| Run | Instance | Shows |
| --- | --- | --- |
| `pipeline_safety` | 2 callers, 1 note, queue of 1, all four kinds of job, 2 faults, 1 deadline, 1 deletion, 1 evolve call, 1 stop | the safety properties and the refinement |
| `pipeline_liveness` | the same without NER and without the deadline, 1 fault, note below the enrichment threshold | the liveness properties |
| `pipeline_clean_exit` | queue of 2, one stop, nothing else | a clean exit leaves a row running (finding) |
| `pipeline_worker_dies` | queue of 2, two faults | two errors in a row end the worker (finding) |

The bounds. One note yields three dispatched jobs and an evolve job, so with a queue of
one slot the queue is full, empty and contended in the same run; two callers are
enough for a caller to find the queue filled by another between its insert and
its put. Two faults reach the error inside the except clause. One stop,
followed by the restart, is enough to see rows of an earlier process beside the new
one. More callers and notes are what the proofs are for. Deadlock
checking is off: the model stops when its bounds are used up and nobody has
anything to do. The callers are symmetric in the safety run; the liveness run
uses no symmetry.

Fairness. `CallerStep` and `ConsumerStep` are weakly fair: a thread in the
middle of a call is scheduled, and an LLM call ends because every provider call has
a timeout. `Work` stays enabled until the thread takes it, so weak fairness is
enough. Nothing obliges a caller to start a call, a note to be deleted, a fault to
happen or the process to stop, and the drain's return and the atexit steps are not
fair either; a drain that is interrupted does not matter to the properties.

### Findings

* `CleanExitTerminal`: the comment at the atexit registrations says that running the
  drain before the close avoids rows left non-terminal after a clean exit. The
  drain looks at the queue only. With the last job in the worker's hands it returns at
  once, the store closes, and the row stays `running`.
* `WorkerLivesUntilExit`: the worker's docstring says that it processes jobs until the
  process exits. The except clause calls the store outside any handler; a
  second error there ends the only worker thread. `EveryJobSettles` and
  `FlushReturns` are therefore stated for a worker that lives.

## NoteLifecycle

What happens to a note after its text exists. A note is a row that is read whole
and written whole (`INSERT OR REPLACE`), and five kinds of thread do so with
copies of different age: `remember()` and `mark_note_superseded` (milliseconds),
`MemoryUpdater.apply` (the object `remember()` returned), neighbor evolution
and consolidation (an LLM call or a whole scan). One step is one call on the
store or on the in-memory JSON index.

| Variable | In the code |
| --- | --- |
| `stored`, `row` | table `notes`, and the links of each row |
| `mapped`, `cached` | table `entity_index`, and the JSON entity index in memory |
| `edges` | SUPERSEDES edges of the graph |
| `ner` | notes with an `llm_ner` job queued |
| `pc`, `frame` | per writer: the statement it is at, the local variables of the calls it is in |
| `stage`, `task` | per background thread: the same, with the copies it holds |
| `made`, `bounds` | notes constructed, what is left of the budget |
| `torn`, `cut`, `overlap` | history: markings and mappings a fault cut short, calls that ran at the same time |

| Action | In the code |
| --- | --- |
| `Construct`, `WriteNote`, `CacheEntities`, `MapEntity` | `_remember_inner` up to the mappings; `Construct` also chooses what `decide()` asked for |
| `Look`, `Scan` | `_check_supersession`: candidates by entity, the best current one |
| `ReadOld` ... `AddEdge` | the seven statements of `mark_note_superseded` |
| `Dispatch`, `RewriteReturned` | the end of `remember()`; `apply()` rewriting the returned note and marking the similar one |
| `Fail` | a store call raises out of the writer's call |
| `BeginRewriting`, `Gather`, `Apply` | `evolve_neighbors` and `consolidate`: read, think, write back |
| `BeginNer`, `NerMap`, `NerCache` | `_run_llm_ner` |

Abstractions. Of a row only the links are kept; text, vector, tier and importance
travel with the same copies and are lost the same way. A note is its place
in the order of `created_at`. Entities are those of the types
`_check_supersession` looks at. The score of a candidate is a choice: the first current
candidate always becomes the best, a later one may. No code deletes a note of
this table, so both notes of a marking exist. A crash leaves the tables as a
`Fail` of every thread does, apart from the history variables. Left out: the graph edges of entities, LanceDB,
`sync=True`, `MemoryEvolver.rollback` (nothing calls it).

### Properties

* `TypeOK`: also that what is linked, indexed or queued for NER is a note with a row.
* `LinksHaveEdges`: a link in a row, at either end, has its edge in the graph,
  unless the marking is in progress or a fault cut it short. Stale copies lose
  links, they never invent one.
* `OlderOnlyInRaces`: only two calls that overlap can leave a note superseded by an
  older one; no note supersedes itself. A caller that writes one note at a
  time therefore gets chains that end in a current note.
* `NeverSupersededIsIndexed`: a note nothing superseded is in both indexes under every
  entity `remember()` found: the removal for one note takes nothing of another.

### Runs

| Run | Instance | Shows |
| --- | --- | --- |
| `lifecycle_safety` | 2 writers, the worker, consolidation, 3 notes with one common entity, a second entity the LLM may find in the first | the four properties |
| `lifecycle_stale_evolution` | 1 writer, the worker, 2 notes, one evolution job | a supersession undone (finding) |
| `lifecycle_late_ner` | 1 writer, the worker, 2 notes | a superseded note indexed again (finding) |
| `lifecycle_mutual` | 2 writers, 2 notes | the older note supersedes the newer (finding) |

The bounds. All notes share an entity, which makes every pair of calls a
candidate for supersession. Two notes carry every event at once (a two-phase
operation, a fault, a rewrite, an NER discovery); a third note, which makes
chains and a second victim, is combined with one or two of them: the initial state
picks one of the budgets of `SafetyLimits`. The drain has the worker's code and is
left out of the runs. Deadlock checking is off, the model stops when the budget
is spent. No fairness is assumed: there are no liveness properties here.

### Findings

* `MarksLast`: after `mark_note_superseded` has returned, an evolution job that read
  the old note before writes it back with `superseded_by` empty. The note is
  current again for `recall()`, while its index entries are gone and the edge says
  otherwise. Without any concurrency `MemoryUpdater.apply` loses
  `supersedes` the same way, because it rewrites the note it got before
  `remember()` changed the row.
* `SupersededNotIndexed`: the NER job of a note runs after the note was superseded
  and adds mappings for it.
* `SupersededByNewer`: `_check_supersession` prefers older candidates and does not
  exclude newer ones; two overlapping calls can supersede each other's note, after
  which neither is current.

## The stores (MCStores)

Six components that keep something on disk or clean it up. They share no state in
the model, so `MCStores` puts them in one specification in which `focus` picks the
one that runs: the behaviours are those of each component alone, and one run
explores all of them.

| Module | State and steps | What is abstracted |
| --- | --- | --- |
| `SqliteBackend` | the tables as the connection sees them (`live`) and as committed (`durable`); one action per call, because every call holds the write lock; `add_kg_edge` is two `add_kg_node` and an insert, each committing; `iterate_notes` is a SELECT and then one locked `fetchmany` after another over a live cursor; `Close`, `Crash`, `Initialize` | a row is its rowid and a content. `INSERT OR REPLACE` deletes the row and inserts one with the next rowid, because the key is a text. A commit that raises leaves the transaction open or has rolled it back: SQLite does either, the class neither |
| `JsonlStore` | which file the path names, the lines of each file, who holds `flock` on which; `Open` and `Lock` are separate steps, so a waiter may get the lock of a file that has lost its name; an append gives the lock back (`BufferLine`) before the end of its `with` block puts the line in the file (`FlushLine`); `_flush_access` in four steps | a line is a version number, the access counts in a file are the set of notes whose count is the current one; MarkAccess changes the note in memory between the steps of a rewrite |
| `EntityIndexFile` | index, file, dirty flag, the flush timer as a thread that is waiting, fired or leaving; `build()` in the five parts between which it holds no lock, each of which may raise; `save()`, which anyone may call, as a snapshot and a write | the mappings of a note are one element |
| `KnowledgeGraphLog` | edges in memory, the log, the timeline; `add_temporal_edge` of several threads as `add_edge` under the lock and the listing in the timeline after it; replay at a restart, also of logs that older versions wrote and of malformed lines | timestamps are small numbers, 0 stands for `created_at`. No caller passes a timestamp in the properties of `add_edge` for an edge that is already temporal, so `AddEdge` does not either |
| `Consolidation` | the window, each writer's way through `remember()`, the automatic and the manual run, time of the last run | the clock ticks when a note is constructed or a run ends. Entity novelty is computed, topic shift and time gap are a choice. The scan reads the table at once; its cursor is in `SqliteBackend` |
| `LanceMaintenance` | the thread of each table: looping, off, waiting, cleaning, ended; the stop event; `stop()` in three steps, its joins with or without a timeout | the interval is above 0 or not |

Properties:

* `DurableExplained`: the committed content of a note is what the last call on it
  that returned left there, or what a later call that raised had executed.
* `EdgesHaveNodes`: no committed edge lacks a committed node, wherever a commit
  fails or the process stops.
* `ScanMissesNothing`: a note that is in the table during a whole scan is seen by
  it or still ahead of the cursor, whatever is rewritten meanwhile (it may be
  yielded twice).
* `DiskCurrentUnlessOvertaken`: the file agrees with the cache unless some call
  wrote through a file that another call had replaced while it waited
  (`memory_store.py:357`), or an append's line left its buffer, after the unlock of
  line 182, while a rewrite held a copy of the file. Since an append is protected
  by no lock when its line is written, the lock orders rewrites only.
* `UnsavedAccessIsPending`: an access count that is not in the file is in the set or
  the batch to flush, unless it came between the copy and the clear, its batch raised, or
  a rewrite through such an old file put older lines, and with them older counts, back.
* `ChangesReachFile`: a clear dirty flag means that file and index agree, a set one
  that a flush is on its way. Exceptions of the first: a change or a `save()` beside a
  `build()`, a flush beside a `save()`, a `build()` that raised after it had replaced the
  index, all of them until the next flush; of the second: a change that met a timer on its
  way out, or a save that raised.
* `RestartAgrees`: a restart finds the edges, types and timestamps of memory, and its
  timeline but for points whose call has still to list them, or found another call's
  timestamp on the edge by then.
* `EveryNoteHasItsTurn`: a note too old for the next scan has been through one, but
  for notes in the making during a run and notes of a run that raised.
* `ThreadsFollowTables`: a written table keeps a live thread until `stop()`, also
  when the interval is set to 0 and back; what survives `stop()` registered after it
  or did not end before its timeout.
* `StoresTypeOK`: every module's type invariant.

The exceptions in these statements are history variables (`overtaken`, `slipped`,
`raced`, `missed`, `halfBuilt`, `outrun`, `excused`, `torn`, `late`). Each is set by the
interleavings or faults named at its declaration and by nothing else, so the property
says that these are the only ways to lose what it protects; the hazards in
`PROJECT.json` name the lines.

Bounds of `stores_safety`: two notes, two contents and four rowids let a row be
rewritten, deleted and inserted again behind and ahead of a cursor of one row per
fetch; one raising commit and one close or crash suffice for every property, each of
which concerns one such event. Two renames beside one appending or rewriting
thread and the flusher make a waiter's file stale twice. Four changes and two
builds of the index cover a change in every gap of `build()`. Three notes with
overlapping entities, two writers, two runs and one error fill the window twice.
Two tables, two switches of the interval. Deadlock checking is off, every
component stops at its bounds. No fairness is assumed.

## The services (MCServices)

Thirteen components on top of the stores, again one `focus` at a time.

| Module | State and steps | What is abstracted |
| --- | --- | --- |
| `WriteGate` | `enforce` (limits, injection patterns, personal data), the note's score against reference notes, block, quarantine, store | detections are spans with scores, their detection is a choice. The widening of the reference window is computed |
| `GraphSearch` | three walks, one read of a node's edges per step, while `Grow` adds edges | the depth-first walk stands for `traverse_kg` and for the JSONL graph's `traverse`, which have one algorithm; two indices of nodes as one set of pairs |
| `Recall` | the stages in their order, each reading the store as it then is; the copies of older versions in `notes.jsonl`, which the vector stage reads for a note the table does not have, and alone when it searches in memory; the pool's thread and the caller that waits for it | similarities, intent, indexes, the old file are a given world; scores are integers |
| `Synthesis` | the shared query id and notes, the contexts of the collector, the event file; the steps of `recall` and `synthesize` between which other threads run | an answer is the notes it cites; two questions |
| `LlmCalls` | the registry, its unlocked checks, reset and reload; lazy load of model and tokenizer; the litellm flag; fallback | a backend answers, answers nothing or raises. A provider may return an empty completion of its own |
| `EmbeddingCache` | `SmartCache` as a set of entries with their times; ask, compute without the lock, ask again and store; expiry, eviction, the periodic sweep | a vector is its source. Which of several oldest entries of one time is dropped is a choice. The cache drops an oldest entry, used or not; its docstring calls that LRU |
| `FactIngest` | pieces of a text, what of a piece the prompt shows and what a failure keeps, facts of each, an answer without facts, the updater's decision fact by fact, and the exception that ends the call | a text is the lengths of its sentences |
| `RuleIngest` | walks over a directory, refusals, the lookup, the backfill and its rewrite that may raise, note, relations one by one; several walks, faults and crashes; notes of an older version with any of their edges | a rule is what its parser yields: tags, metadata that pass or fail, relations |
| `OsintRuns` | a run over the collectors of a seed; validation, nodes and edge of each tuple | what a collector returns is a choice from a set with right and wrong tuples |
| `TypedStore` | check, append in memory, append to file as separate steps of several threads; reload | properties are sets of pairs; built-in and custom relations are two tables, of which the cycle check reads the first. The search for a cycle is the least set it visits, not the order of the visits |
| `ConfigLoad` | check, publish, file, environment, scaling as separate steps of several threads; reload; edits by the web application | four settings stand for the sections: one scaled, one a bare `int()`, two plain |
| `WebApi` | the guard and its rate windows, pruned from the left by every request, refused ones too; the log stream's stat and open while the log rotates | a log line is its number, a time an integer |
| `Migration` | the four files line by line, a line that cannot be written, a kill, a second run; the application beside it, which writes and deletes notes, writes edges and mappings and removes the mappings of a superseded note | `--dry-run` prints its notice and then writes like any other run (`migrate_jsonl_to_sqlite.py:261`): the flag is kept so that `MigratedWhole` can leave out a run that is not meant to write |

`Lists` holds what several of these modules do to lists: filter (`Only`), slice (`Take`) and
sort (`Descending`, `Arranged`). They take a set or a function where Python takes a
function, so that they can be reasoned about; an order that leaves ties open gives one
of the lists it allows.

Properties:

* `RedactionExact`: the stored text is the text with one placeholder per chosen
  detection at its place; nothing of a detection is left unless two of them overlap
  without one lying inside the other.
* `HopsExact`, `WalksExact`, `CausalNearestFirst`: a note's distance is one of the
  graph between the start and the end of the walk; a depth-first walk reaches all
  within its depth (true for the depth of 2 that `traverse_graph` allows: with 3 the
  visited set hides nodes, which the mutant `TraverseUncapped` shows); the causal
  search leaves out only what is at least as far as what it expanded.
* `NothingStaleReturned`: a note that was not in the table, or superseded where those are
  excluded, when recall began comes back only as a copy in `notes.jsonl` from before, and
  only if the table had no such note when it was asked, or the search was in memory; no
  note comes twice, and at most k. The stages after the vector search add nothing stale.
* `RegistryCurrent`: no two instances of a name between two resets; after a reload
  only a call that began before it can leave an instance of the old configuration.
* `OneVectorPerEra`: threads that get a vector for a text while its entry lives get
  the same one, whichever source computed it.
* `TextTakenInUpToAPoint`: the pieces are the text, within the size; what is stored
  is what the call reports, but for the fact at which it raised. What no note can be about
  is the end of a piece, beyond the 2000 characters the prompt shows or the 500 a failure
  keeps, and pieces of which no fact was kept; nothing in the middle of what was shown is
  skipped by the code (what the LLM makes of it is its own).
* `RulesExplained`: a second note of a rule needs two walks adding it at once, a
  missing relation a fault, a crash or an older version; the counts add up.
* `TuplesWholeAndCounted`: what a result counts as persisted is in the graph, edge and
  nodes, then and later; an accepted tuple lacks its edge only while it is written or if
  the graph raised at it; a refused one leaves nothing, and every tuple is counted.
* `SchemaHolds`: a relation the built-in table calls acyclic (`ontology.py:557` asks no
  other) has a cycle only if two of its relations were
  checked before either was in; an endpoint is missing, or of a type the relation may
  not join, only after a crash that lost it or an entity that took its id.
* `ConfigAgrees`: at rest the published configuration is what defaults, file,
  environment and scaling say; only a call that overlaps another gets anything else. A
  floor can stay behind: when two loads overlap, one applies the scaling while the
  object still has `reasoning_model` from a lower layer, and nothing lowers the budget
  again when the other's environment turns reasoning off (`LeftOver`). The proof's
  failure showed this case, and the instance now has an environment that does so.
* `RateBounded`, `StreamFollowsLog`: the limit holds in every window of time, of all
  requests ever let in and not only of those still remembered; the stream
  yields the log in order and skips only ends of rotated files, unless a rotation
  falls between its stat and its open. The limit is one of a window, whose key is the API
  key that was sent or else the address (`app.py:180`): who sends another key where none is
  configured has another window.
* `MigratedWhole`: a run that is no dry run and ends without a database error leaves
  everything readable in the database, whatever earlier runs left half done, but for what
  the application wrote over or took out meanwhile; and at any time nothing is in the graph
  or the index that neither the files say nor the application put there.
* `ServicesTypeOK`: every module's type invariant.

The bounds of `services_safety` are in its cfg and, for structured values, in
`MCServices`: five nodes with short ways, long ways and a cycle; three notes and two
worlds for recall, a temporal one without a graph and a causal one, in which one note's copy in the old file is of before its supersession
and another's of after; two threads wherever threads matter; rules with a successor and
one of an old store; files with a malformed line, a rewritten note and an edge to
nowhere; texts that fit, that do not, and with a sentence too long by itself. Loops
of the code are bounded by the instance, faults by one or two. `MCRecall`
and `MCSynthesis` hold the instances that the two runs below share with it.

| Run | Instance | Shows |
| --- | --- | --- |
| `services_safety` | all of the above | the properties listed |
| `recall_timeout` | three notes, caller's steps weakly fair, the search free to take as long as it likes | a timed-out recall that does not return (finding) |
| `synthesis_telemetry` | one thread, two questions | an event filed under another question (finding) |

Fairness. Only `recall_timeout` assumes any: the caller's own steps happen. The
search gets none, since the limit exists for searches that take too long.

Findings:

* `TimeoutCapsTheCall`: the docstring of `recall` promises a wall-clock cap. The
  `return []` leaves a `with ThreadPoolExecutor` block, whose exit waits for the
  worker, so the caller gets its empty list when the slow search is over.
* `SynthesisUnderItsQuery`: `synthesize` takes whatever id the last recall left; the
  comment there says that this correlates it to the same query. Nothing clears the
  slot, and nothing compares the questions.

Three more disagreements of documentation and code met on the way are in the models, where
the properties name them as exceptions, without a run of their own:

* `docs/explanation/zettelkasten-philosophy.md:66` says that `recall()` filters superseded
  notes out. The search in memory, which is taken when LanceDB finds nothing or raises, goes
  through `notes.jsonl`, where a note that was superseded in SQLite still is current, and
  the filter looks at what was read (`NothingStaleReturned` excepts such copies).
* `docs/explanation/two-phase-pipeline.md:105` says that a failed extraction degrades to
  append-only rather than losing data. It keeps 500 characters of a piece of up to 3000
  (`TextTakenInUpToAPoint` counts what was taken of a piece).
* The help of the migration (`migrate_jsonl_to_sqlite.py:233`, and its notice at line 262)
  says that `--dry-run` writes nothing to SQLite. The flag is read once, for the notice;
  a dry run writes what any run writes (`MigratedWhole` promises completeness of runs
  without the flag only, since nobody may rely on a dry run for it).

## Proofs

`EnrichmentPipelineProofs` proves, for every number of callers and notes, every
queue size, every threshold and all bounds, from `PipelineAssumption` (the queue
has at least one slot, the constants have their types, `NoJob` is no job):

* `TypeCorrect`: `Spec => []TypeOK`. `TypeOK` is not inductive: `Put` appends
  `job[c]`, and only the program counter says that this is a job. The
  inductive invariant `TypeInv` adds that a thread in the middle of its work has a
  job and a thread that is not has none, and what each phase of the process leaves alive
  (`ProcessInv`). Each part of it has a lemma about one step.
* `UnfinishedCorrect`: `Spec => []UnfinishedExact`, inductive relative to
  `TypeInv`: only `Put`, `Take`, `TaskDone` and the end of the process change the
  counter or what it counts, and each by one on both sides.

* `OwnerCorrect`, `NoRowForgottenCorrect`, `RowTruthCorrect`: `PipelineInv` is inductive. Beside
  `TypeInv` it says that no two callers dispatch one job, and that the rows a caller is
  still to insert are absent (`DispatchInv`); that the row of a job in the queue or with a
  consumer is where the consumer's last statement left it (`StageInv`); and that a row's
  state and its counter agree (`AttemptsInv`). Without the first, `Put` could put a job
  twice; without the second, `mark_running` could meet a row that runs already. The lemma
  `StepRows` reduces a step to the five statements that write a row.
* `FlushBarrierCorrect` and `DrainCorrect` are action properties. A flush returns when the counter is
  0; by `UnfinishedExact` queue and consumers are then empty, and by `NoRowForgotten` no
  row is open but those excepted. For the drain, `DrainInv` says that one that met no fault and
  no deadline is still at work or has emptied the queue for good.
* `LedgerImplemented`: `Spec => LedgerSpec`, the abstract specification with its variables read as the
  columns. `LedgerStep` maps each of the five statements to `Admit`, `GiveUp`, `Start`, `Finish`; what
  the abstract guards ask is what `PipelineInv` says of the row.

`NoteLifecycleProofs` proves, for any number of writers, notes, entities and
background threads, any mentions and any budget, from `LifecycleAssumption` (the
constants have their types):

* `LifecycleTypeCorrect`: `Spec => []TypeOK`. The inductive invariant `LifeInv` adds
  that a writer in the middle of a call has a note, with a row once it is written,
  that the notes it found have rows, and that an NER job's note has one.
* `LinksCorrect` and `RacesCorrect` speak of rows, but a row may be replaced by any copy
  a thread holds. `Held(n, r)` is the row of `n` and all copies of it that may still be
  written; the lemma `Provenance` says that a step holds only rows held before,
  rows without links, and the two that `mark_note_superseded` makes. The
  invariants `LinksInv` and `RaceInv` are the properties stated of every held row;
  `RaceInv` adds that a call overlaps every note constructed since its own and
  never has its own note among its candidates.
* `IndexCorrect`: `IndexInv` adds what is still to be mapped in the middle of a call; the
  lemmas say that only a marking of a note removes its entries, and that a marking
  that did ends with the edge or in `torn`.

`StoresProofs` proves of the six stores, one after the other, and of their composition:

Of `SqliteBackend`, for any notes, contents, graph and number of scanners, any
fetch size and all bounds, from `SqliteConstants` (the constants have their types):

* `SqliteTypeCorrect`: `SqliteSpec => []SqliteTypeOK`, which is inductive. It rests on the lemma
  `MaxOfBounded`: a bounded nonempty set of numbers has a greatest, so that
  `NextRowid` is above all rowids and a cursor moves to a row.
* `CommittedExplained` and `CommittedEdgesClosed`: the properties speak of the committed
  tables; the invariants `ExplainedInv` and `ClosedInv` say the same of what the connection
  sees, because any later commit makes that durable. A lemma shows that all calls on
  a note have one form, a row replaced and its content noted.
* `ScanComplete`: `ScanInv` adds that what stays is in the table. A write leaves a row where
  it is, removes it or moves it above all others, so a note still to be seen stays ahead
  (`ExecuteScan`); a fetch takes the nearest rows, so what it leaves out lies beyond
  (`FetchTakesNearest`).

Of `JsonlStore` and `KnowledgeGraphLog`, for any notes, threads, keys, timestamps and older logs, from
`JsonlConstants`, `GraphLogConstants` and `GraphLogBounds` (the constants have their types,
the flusher is none of the callers, 0 is no timestamp a caller gives):

* `JsonlTypeCorrect`, and `DiskCurrentCorrect` from `DiskInv`: a rewrite holds the lock of the file it opened
  (`LockInv`), so that a copy of the current file can differ from the cache in its own note
  only (`CopyInv`). The current file may be one that no lock protects any more, and a line
  that is flushed after its unlock may miss a copy: that is `overtaken`, and why it is
  excepted.
* `UnsavedAccessCorrect` from `AccessInv`: where the flush is says what its copy of the ids holds.
* `GraphLogTypeCorrect` and `RestartAgreesCorrect`. Replay is a function of the whole log; the lemmas show
  that appending a line changes it as the step changes memory, for each shape of line.

Of `EntityIndexFile`, `LanceMaintenance` and `Consolidation`, for any entities, tables, writers and facts, from
`IndexConstants`, `LanceConstants` (finitely many tables) and `GamConstants`:

* `IndexTypeCorrect`, and `ChangesReachFileCorrect` from `IndexInv`: `build()` between its publication of the
  index and its clearing of the flag has a copy that is the index (`BuildInv`), and a
  snapshot of `save()` that is not the index any more is excused or the flag is set.
* `LanceTypeCorrect`, and `ThreadsFollowTablesCorrect` from `LanceInv`: `stop()` still has to join every live
  thread that is not registered late.
* `GamTypeCorrect`, and `EveryNoteHasItsTurnCorrect` from `GamInv`: a note under construction that a run could make
  too old is excused (`MakingInv`), and what a scanning run has not gone through is in its
  list (`RunInv`).

Of the composition `MCStores`, that it is of its type
(`StoresTypeCorrect`) and keeps the nine properties of the stores (`StoresCorrect`): a step of the
composition is a step of one store and a stutter of the others, so a behaviour of the
composition is a behaviour of each, and the theorems about each apply.

`IngestionProofs` proves, for any rules, walkers, collectors and files, from
`FoundRules`, `RuleFields`, `WalkConstants`, `LegacyRules`, `OsintBounds`, `CanonicalSpellings`, `OldFilesRead`,
`MigrationBounds`. The last but one says what the files are: lines that name notes and contents there are, and node
lines that repeat id and entity, since the graph writes a node's line again whenever the
node changes (`knowledge_graph.py`):

* `RulesExplainedCorrect` from `RulesInv`: what a walk has counted and has before it add up
  (`CountInv`); a rule at its note has none yet, or two walks raced (`NoteInv`); the relations
  still to be written (`EdgeInv`).
* `IngestTypeCorrect` from `SizesInv`: the notes of a rule and the walks that are about to make
  one are together no more than the walkers. `remember()` can double a rule only as often as
  walkers look it up before the first has stored it, however many walks there are.
* `OsintTypeCorrect`, and `TuplesCorrect` from `OsintInv`: the tuple being written was accepted, its earlier
  nodes are there (`TupleInv`); what was accepted is in the graph, being written or cut
  short (`GraphInv`); and the tally includes the tuples still to come.
* `MigrationTypeCorrect`, and `MigratedWholeCorrect` from `MigrationInv`: the run's lookup table is right and complete for the
  lines it has passed (`LookupInv`), every table is ahead of the run's position (`NotesThere`,
  `GraphThere`) and within what the files and the application say.

`RuntimeProofs` proves, for any callers, providers, settings, schemas, texts and bounds:

* `LlmTypeCorrect`, and `RegistryCurrentCorrect` from `LlmInv` (`LlmConstants`, `LlmBounds`): the
  arguments a call in flight has read are the current ones, or it began before the last
  reset, or a reset is due (`CallsInv`).
* `WebTypeCorrect`; `StreamFollowsLogCorrect` from `StreamInv`: a file holds the last lines in order, so the
  position in it names the line that comes next (`PlaceInv`). `RateBoundedCorrect` from
  `GuardInv`: the window kept is a suffix of all requests let in, and what was
  dropped from it was older than the window when it was dropped (`KeptInv`). `WebConstants` asks
  that the limit be a natural number; `app.py:86` takes any integer, and one below 0
  refuses every request just as 0 does.
* `ConfigTypeCorrect`, and `ConfigAgreesCorrect` from `ConfigInv`: a layer that is missing from the published
  object is one that some thread will still apply (`LayersInv`); calls that overlap nobody
  have the object to themselves (`AloneInv`). `ConfigConstants` and `ConfigValues` say that a
  setting is a number, that `reasoning_model` is one of them without a floor, and that
  the environment's variables are read in an order that has each key.
* `TypedTypeCorrect`, and `SchemaCorrect` from `TypedInv`: the search that found no way back leaves a set of
  entities closed along the relation, with the target and without the source. As long as
  no other relation of the name comes in between, adding the edge closes no cycle: a set
  without a way out that has one would have it without the new edge (`NoNewCycle`). Cycles are
  stated with sets rather than paths, so no induction over paths is needed.
* `EmbeddingTypeCorrect`, and `OneVectorCorrect` from `EmbeddingInv`: an answer of the current era of its text is
  what the cache holds for it. The lemma `HeldStays` has two cases, an entry that
  goes ends the era, and a fresh one is never replaced since the cache is asked again.

`GraphSearchProofs` proves, for any finite graph, any starts and any limits, while edges
are added between any two reads, from `SearchConstants` (entities and notes are
different and finitely many, an edge joins two of them):

* `SearchTypeCorrect`: no queue holds a node deeper than its search goes, no stack more
  nodes than the walk's depth.
* `HopsExactCorrect` from `NotesInv`. A breadth-first search over a graph that grows
  keeps two graphs in mind, the one before it began and the one at its end. `Bfs` says
  that there is a depth for each visited node, at which it lies in the graph as it now
  is; that the queue is sorted by depth and holds nothing less deep than what was
  visited; and that a neighbor (in the graph at the beginning) of a visited node is
  visited or queued, one deeper at most. Then nothing that lay within a depth the search
  has passed can be missing. `Noted` and `Searched` carry this to the notes, and over
  the starts.
* `CausalNearestCorrect` from `CausalInv`: the same `Bfs` along the causal edges, either
  way, and that the edges of a node are reported when it is visited, which is once
  (`FoundOnce`). When `max_visited` stops the search, what it expanded are whole layers
  and a part of the next one.
* `WalksExactCorrect` from `WalkInv`: the frames on the stack of `traverse_kg` are a
  walk from the start (`Dfs`), with the neighbors each has still to try. That the
  visited set hides nothing is true for the two steps `traverse_graph` allows, because a
  node at distance two is an end whichever way it is reached; the proof needs that
  bound, and the mutant without it fails.

`NotePathProofs` proves, for texts, documents and worlds of any size:

* `NothingStaleCorrect` from `RecallInv` (`RecallConstants`): the lists of a recall are
  lists without repetition (`ListsOf`), each stage keeps them so, and a note that was
  stale at the beginning is in them only with its mark on or as a copy (`FreshScored`,
  `FreshEntries`), so the filter at the end removes all but the copies without a mark. A
  stage reads the store as it then is; what was superseded stays so, what is not in the
  table can only be read from the old file.
* `RedactionExactCorrect` from `GateInv` (`GateConstants`). The choice by length is a
  fold over the detections: what it has chosen never overlaps, and what it passed over
  overlaps something chosen that is at least as long; if no two cross, that covers it.
  The redaction is a fold from the last place to the first: what is before the splice is
  still the text, so the places of the others are right, and after the last splice the
  text is the one the property describes.
* `TextTakenInCorrect` from `FactInv` (`FactConstants`): the pieces joined so far and
  the open one are the sentences passed (the splitter as a fold); the answers about a
  piece are about its first facts in their order, all of them once the call is past the
  piece (`InTurn`); and what was taken of a piece is what its answer or its failure could
  reach.
* `RecallTypeCorrect`, `SynthesisTypeCorrect` (`SynthesisConstants`), `GateTypeCorrect`,
  `FactTypeCorrect`: types, for which the last two need what the folds return, and that
  an event's query was started.

The assumptions give the constants their types, beside those of `GateConstants` that a
window of references grows and `RecallConstants` that a world's lists are of notes.

The installed provers cannot use an induction theorem that takes an operator. The two
modules do without: `AllNumbers` and `AllLists` say that a *set* that holds 0 (the empty
list) and with each member the next one is everything, and each use names the set. Folds
are reasoned about through the sequence of their values (`Reaches`, `FoldRuns`).

`ServicesProofs` proves of the composition `MCServices` that it is of its type
(`ServicesTypeCorrect`) and keeps the fifteen properties of the services
(`ServicesCorrect`), in the same way as `StoresProofs`: a step of it is a step of one
service and a stutter of the others.

An invariant that TLC can evaluate was checked on the instance of its run before it was
proved; those with a bound over all lists or all depths (`NotesInv`, `CausalInv`,
`InTurn`) are proved only, the properties they imply are checked. The proofs changed the
models where they could not be reasoned about: the cycle search and the cache as sets,
filters and sorts as `Lists` has them, the nodes within a distance as a function of the
distance. Once the property was wrong (`ConfigAgrees`, above), and once a type was too
weak: `IngestTypeOK` allowed a rule as many notes as there are walks, and now only as
many as walkers.

Model-checked only:

* `EveryJobSettles` and `FlushReturns`: liveness under fairness.
* The properties of the runs that expect a violation, which are false.

## Not modelled

* Text processing: regular expressions, prompts, JSON repair, the parsers of rules, the
  construction of a note. They keep no state; where a property needs their result it is
  a choice or given by the instance.
* Numbers of the retrieval: embeddings, similarities, the cross-encoder, the anomaly
  score of the memory defense. Given, or any order.
* HTTP, LanceDB and ONNX I/O; the formats of logs and telemetry; the retry decorator.
* `VectorMemory` (session memory on LanceDB), `osint/investigation.py`, the llama-cpp
  backend (its lazy load has the shape of the ONNX one), `MemoryEvolver.rollback`
  (nothing calls it), `sync=True` (no queue, no row), `job.defer` (never set).
* In modelled parts: a configuration file whose values cannot be converted (the file's layer
  never raises, the environment's may), and what a key set through the API becomes at the
  next reload (such keys are exempt from `ConfigAgrees` from then on); what a run of
  consolidation forgets when it resets the window, beyond when the next run comes; the
  acyclic flag of a custom schema, which the code does not read.
* The other handlers of the web application, the MCP server, the integrations and the
  CLI: they translate a request into one call of a modelled operation. Benchmarks.

`PROJECT.json` lists every component with its status, and under `hazards` the lines at
which the code is exposed, with the properties about each.
