--------------------------- MODULE EnrichmentPipeline ---------------------------
(***************************************************************************)
(* The slow path of MemoryManager: remember() and evolve_note() hand       *)
(* deferred LLM work to one background thread through a bounded queue,     *)
(* every job has a row in the SQLite ledger, flush() is a barrier, and at  *)
(* process exit a drain empties the queue before the store is closed.      *)
(*                                                                         *)
(* One step is one call on a shared object (a store statement under the    *)
(* backend's write lock, a queue operation under the queue's mutex, an     *)
(* operation on the pending set): threads interleave between them.         *)
(* Left out: job.defer (nothing in the repository sets it), sync=True      *)
(* (runs inline, writes no row), and what the LLM returns.                 *)
(***************************************************************************)
EXTENDS Integers, Sequences, FiniteSets

CONSTANTS
  Callers,      \* threads that call remember, evolve_note and flush
  Notes,        \* identities of notes
  Deep,         \* the notes whose domain or length passes should_enrich
  QueueMax,     \* queue.Queue(maxsize=500)
  MinNotes,     \* notes needed before neighbor evolution is dispatched (3)
  NerEnabled,   \* config llm_ner.enabled
  Limit,        \* Limit[b]: how often each event named in Bounds may happen
  NoJob         \* what a thread holds that holds no job

\* The events a run bounds: store calls that raise something other than BackendClosedError,
\* drains whose ten-second window elapses with jobs still queued, calls of store.delete_note and
\* of evolve_note, and process stops, clean or by a crash.
Bounds == {"faults", "timeouts", "deletes", "evolves", "stops"}

\* job_type; the jobs of evolve_note are neighbor_evolution jobs of their own identity.
Kinds == {"causal_extraction", "llm_ner", "neighbor_evolution", "evolve_note"}
Job == [note : Notes, kind : Kinds]

ASSUME PipelineAssumption ==
  /\ Deep \subseteq Notes
  /\ QueueMax \in Nat \ {0}
  /\ MinNotes \in Nat
  /\ NerEnabled \in BOOLEAN
  /\ Limit \in [Bounds -> Nat]
  /\ NoJob \notin Job

VARIABLES
  phase,      \* of the process: "up", "draining" (atexit), "closed" (store), "exited", "crashed"
  note,       \* note[n]: "new", "stored" or "deleted" in the table notes
  ledger,     \* ledger[j]: the state column of enrichment_jobs, "absent" before the INSERT
  attempts,   \* attempts[j]: attempt_count
  code,       \* code[j]: last_error_code, up to what tells the failures apart
  queue,      \* _enrichment_queue
  unfinished, \* its unfinished_tasks counter
  pending,    \* _pending_enrichment
  pc, job,    \* per caller: where it is, and the job it dispatches
  cpc, hold, err, \* per consumer: where it is, the job it took, job.ledger_error_code
  bounds,     \* what is left of Limit
  lost        \* history: rows no thread will settle, and why is known (a stop, a closed store, two faults)

caller == <<pc, job>>
consumer == <<cpc, hold, err>>
rows == <<ledger, attempts, code>>
shared == <<queue, unfinished, pending>>
vars == <<phase, note, rows, shared, caller, consumer, bounds, lost>>

Consumers == {"worker", "drain"}   \* _enrichment_loop and _drain_enrichment_queue
Terminal == {"succeeded", "failed"}
LedgerState == {"absent", "queued", "running"} \cup Terminal
Codes == {"none", "queue_full", "note_missing", "job_failed", "consumer_error"}
CallerPc == {"idle", "record", "put", "pend", "reject", "count", "flush", "flush_timed"}
ConsumerPc == {"off", "idle", "got", "run", "work", "finish", "except", "done", "leave", "dead"}

Live(j) == ledger[j] \in {"queued", "running"}
LiveJobs == {j \in Job : Live(j)}
Open == phase \in {"up", "draining"}
Running == phase \in {"up", "draining", "closed"}

Init ==
  /\ phase = "up"
  /\ note = [n \in Notes |-> "new"]
  /\ ledger = [j \in Job |-> "absent"]
  /\ attempts = [j \in Job |-> 0]
  /\ code = [j \in Job |-> "none"]
  /\ queue = <<>> /\ unfinished = 0 /\ pending = {}
  /\ pc = [c \in Callers |-> "idle"] /\ job = [c \in Callers |-> NoJob]
  /\ cpc = [p \in Consumers |-> IF p = "worker" THEN "idle" ELSE "off"]
  /\ hold = [p \in Consumers |-> NoJob] /\ err = [p \in Consumers |-> "none"]
  /\ bounds = Limit
  /\ lost = {}

Spend(b) == bounds[b] > 0 /\ bounds' = [bounds EXCEPT ![b] = @ - 1]

-----------------------------------------------------------------------------
(* Callers *)

At(c, l) == phase = "up" /\ pc[c] = l
CallerGoto(c, l) == pc' = [pc EXCEPT ![c] = l]
Dispatch(c, j) == CallerGoto(c, "record") /\ job' = [job EXCEPT ![c] = j]
Return(c) == CallerGoto(c, "idle") /\ job' = [job EXCEPT ![c] = NoJob]

\* A store call of a caller raises: remember() or evolve_note() propagates it.
CallerFault(c) == Spend("faults") /\ Return(c) /\ UNCHANGED <<phase, note, rows, shared, consumer>>

\* The note is written; the dispatch of its jobs begins with the causal one.
Remember(c, n) ==
  /\ At(c, "idle") /\ note[n] = "new"
  /\ note' = [note EXCEPT ![n] = "stored"]
  /\ Dispatch(c, [note |-> n, kind |-> "causal_extraction"])
  /\ UNCHANGED <<phase, rows, shared, consumer, bounds, lost>>

EvolveNote(c, n) ==
  LET j == [note |-> n, kind |-> "evolve_note"] IN
  /\ At(c, "idle") /\ note[n] = "stored"
  /\ ledger[j] = "absent" /\ \A d \in Callers : job[d] # j   \* a job_id of its own
  /\ Spend("evolves") /\ Dispatch(c, j)
  /\ UNCHANGED <<phase, note, rows, shared, consumer, lost>>

CreateRow(c) ==
  /\ At(c, "record")
  /\ \/ /\ ledger' = [ledger EXCEPT ![job[c]] = "queued"]
        /\ CallerGoto(c, "put")
        /\ UNCHANGED <<phase, note, attempts, code, shared, job, consumer, bounds, lost>>
     \/ CallerFault(c) /\ UNCHANGED lost

\* Mutation of Put: the bound is off by one.
PutPastBound(c) ==
  /\ At(c, "put") /\ Len(queue) <= QueueMax
  /\ queue' = Append(queue, job[c]) /\ unfinished' = unfinished + 1
  /\ CallerGoto(c, "pend")
  /\ UNCHANGED <<phase, note, rows, pending, job, consumer, bounds, lost>>

\* put_nowait: the queue takes the job and counts it, or raises queue.Full.
Put(c) ==
  /\ At(c, "put")
  /\ IF Len(queue) < QueueMax
       THEN /\ queue' = Append(queue, job[c])
            /\ unfinished' = unfinished + 1
            /\ CallerGoto(c, "pend")
       ELSE CallerGoto(c, "reject") /\ UNCHANGED <<queue, unfinished>>
  /\ UNCHANGED <<phase, note, rows, pending, job, consumer, bounds, lost>>

\* What remember() does after the job it has just dispatched.
DispatchNext(c) ==
  \/ /\ job[c].kind = "causal_extraction" /\ NerEnabled
     /\ Dispatch(c, [note |-> job[c].note, kind |-> "llm_ner"])
  \/ /\ \/ job[c].kind = "causal_extraction" /\ ~NerEnabled
        \/ job[c].kind = "llm_ner"
     /\ CallerGoto(c, "count") /\ UNCHANGED job
  \/ job[c].kind \in {"neighbor_evolution", "evolve_note"} /\ Return(c)

AddPending(c) ==
  /\ At(c, "pend")
  /\ pending' = pending \cup {job[c].note}
  /\ DispatchNext(c)
  /\ UNCHANGED <<phase, note, rows, queue, unfinished, consumer, bounds, lost>>

\* Mutation of Reject: a full queue is only logged.
RejectSilently(c) ==
  /\ At(c, "reject") /\ DispatchNext(c)
  /\ UNCHANGED <<phase, note, rows, shared, consumer, bounds, lost>>

\* except queue.Full: the row becomes terminal, or this statement raises out of remember().
Reject(c) ==
  /\ At(c, "reject")
  /\ \/ /\ ledger' = [ledger EXCEPT ![job[c]] = "failed"]
        /\ code' = [code EXCEPT ![job[c]] = "queue_full"]
        /\ DispatchNext(c)
        /\ UNCHANGED <<phase, note, attempts, shared, consumer, bounds, lost>>
     \/ CallerFault(c) /\ lost' = lost \cup {job[c]}

CountNotes(c) ==
  /\ At(c, "count")
  /\ \/ /\ IF Cardinality({n \in Notes : note[n] = "stored"}) >= MinNotes
             THEN Dispatch(c, [note |-> job[c].note, kind |-> "neighbor_evolution"])
             ELSE Return(c)
        /\ UNCHANGED <<phase, note, rows, shared, consumer, bounds, lost>>
     \/ CallerFault(c) /\ UNCHANGED lost

\* flush(): with no timeout it returns True or never, with one it may give up.
Flush(c) ==
  /\ At(c, "idle")
  /\ \E l \in {"flush", "flush_timed"} : CallerGoto(c, l)
  /\ UNCHANGED <<phase, note, rows, shared, job, consumer, bounds, lost>>

\* Mutation of FlushTrue: wait for an empty queue, not for the jobs in flight.
FlushTrueOnEmptyQueue(c) ==
  /\ At(c, "flush") \/ At(c, "flush_timed")
  /\ queue = <<>>
  /\ Return(c)
  /\ UNCHANGED <<phase, note, rows, shared, consumer, bounds, lost>>

FlushTrue(c) ==
  /\ At(c, "flush") \/ At(c, "flush_timed")
  /\ unfinished = 0
  /\ Return(c)
  /\ UNCHANGED <<phase, note, rows, shared, consumer, bounds, lost>>

FlushFalse(c) ==
  /\ At(c, "flush_timed") /\ unfinished # 0
  /\ Return(c)
  /\ UNCHANGED <<phase, note, rows, shared, consumer, bounds, lost>>

DeleteNote(n) ==
  /\ phase = "up" /\ note[n] = "stored"
  /\ note' = [note EXCEPT ![n] = "deleted"]
  /\ Spend("deletes")
  /\ UNCHANGED <<phase, rows, shared, caller, consumer, lost>>

-----------------------------------------------------------------------------
(* Consumers: the bodies of _enrichment_loop and _drain_enrichment_queue *)

In(p, l) == Running /\ cpc[p] = l
Goto(p, l) == cpc' = [cpc EXCEPT ![p] = l]

\* A store call outside the handlers' own try raises: BackendClosedError ends the consumer,
\* any other error goes to its except clause.
StoreRaises(p) ==
  \/ Open /\ Spend("faults") /\ Goto(p, "except") /\ UNCHANGED lost
  \/ ~Open /\ Goto(p, "leave") /\ lost' = lost \cup {hold[p]} /\ UNCHANGED bounds

\* Mutation of Take: look at the first job and leave it in the queue.
TakeByPeeking(p) ==
  /\ In(p, "idle") /\ queue # <<>>
  /\ hold' = [hold EXCEPT ![p] = Head(queue)] /\ err' = [err EXCEPT ![p] = "none"]
  /\ Goto(p, "got")
  /\ UNCHANGED <<phase, note, rows, shared, caller, bounds, lost>>

\* get() and get_nowait(); the drain also looks at the clock, see DrainReturn.
Take(p) ==
  /\ In(p, "idle") /\ queue # <<>>
  /\ hold' = [hold EXCEPT ![p] = Head(queue)]
  /\ queue' = Tail(queue)
  /\ err' = [err EXCEPT ![p] = "none"]
  /\ Goto(p, "got")
  /\ UNCHANGED <<phase, note, rows, unfinished, pending, caller, bounds, lost>>

MarkRunning(p) ==
  /\ In(p, "got")
  /\ \/ /\ Open
        /\ ledger' = [ledger EXCEPT ![hold[p]] = "running"]
        /\ attempts' = [attempts EXCEPT ![hold[p]] = @ + 1]
        /\ Goto(p, "run")
        /\ UNCHANGED <<bounds, lost>>
     \/ StoreRaises(p) /\ UNCHANGED <<ledger, attempts>>
  /\ UNCHANGED <<phase, note, code, shared, caller, hold, err>>

Skipped(j) == j.kind = "causal_extraction" /\ j.note \notin Deep

\* The handler up to its try: a note not worth the LLM, or one that is gone, ends it.
FetchNote(p) ==
  LET j == hold[p] IN
  /\ In(p, "run")
  /\ \/ /\ Skipped(j)
        /\ Goto(p, "finish") /\ pending' = pending \ {j.note}
        /\ UNCHANGED <<err, bounds, lost>>
     \/ /\ ~Skipped(j) /\ Open /\ note[j.note] = "stored"
        /\ Goto(p, "work")
        /\ UNCHANGED <<pending, err, bounds, lost>>
     \/ /\ ~Skipped(j) /\ Open /\ note[j.note] # "stored"
        /\ err' = [err EXCEPT ![p] = "note_missing"]
        /\ Goto(p, "finish") /\ pending' = pending \ {j.note}
        /\ UNCHANGED <<bounds, lost>>
     \/ ~Skipped(j) /\ StoreRaises(p) /\ UNCHANGED <<pending, err>>
  /\ UNCHANGED <<phase, note, rows, queue, unfinished, caller, hold>>

\* The handler's try: it ends, and any exception, BackendClosedError too, is a job failure.
Work(p) ==
  /\ In(p, "work")
  /\ \E e \in {"none", "job_failed"} : err' = [err EXCEPT ![p] = e]
  /\ pending' = pending \ {hold[p].note}
  /\ Goto(p, "finish")
  /\ UNCHANGED <<phase, note, rows, queue, unfinished, caller, hold, bounds, lost>>

MarkTerminal(p) ==
  /\ In(p, "finish")
  /\ \/ /\ Open
        /\ ledger' = [ledger EXCEPT ![hold[p]] = IF err[p] = "none" THEN "succeeded" ELSE "failed"]
        /\ code' = [code EXCEPT ![hold[p]] = err[p]]
        /\ Goto(p, "done")
        /\ UNCHANGED <<bounds, lost>>
     \/ StoreRaises(p) /\ UNCHANGED <<ledger, code>>
  /\ UNCHANGED <<phase, note, attempts, shared, caller, hold, err>>

\* Mutations of HandleError: the error is only logged; the job goes back to be retried.
HandleErrorLogOnly(p) ==
  /\ In(p, "except") /\ Goto(p, "done")
  /\ UNCHANGED <<phase, note, rows, shared, caller, hold, err, bounds, lost>>
HandleErrorRetry(p) ==
  /\ In(p, "except") /\ Open /\ Goto(p, "done")
  /\ ledger' = [ledger EXCEPT ![hold[p]] = "queued"]
  /\ UNCHANGED <<phase, note, attempts, code, shared, caller, hold, err, bounds, lost>>

\* except Exception: mark the job failed. Nothing catches what this call raises.
HandleError(p) ==
  /\ In(p, "except")
  /\ \/ /\ Open
        /\ ledger' = [ledger EXCEPT ![hold[p]] = "failed"]
        /\ code' = [code EXCEPT ![hold[p]] = "consumer_error"]
        /\ Goto(p, "done")
        /\ UNCHANGED <<bounds, lost>>
     \/ /\ \/ Open /\ Spend("faults")
           \/ ~Open /\ UNCHANGED bounds
        /\ Goto(p, "leave") /\ lost' = lost \cup {hold[p]}
        /\ UNCHANGED <<ledger, code>>
  /\ UNCHANGED <<phase, note, attempts, shared, caller, hold, err>>

\* Mutations of TaskDone: not on the way out of the loop; not for a job that failed.
TaskDoneInLoop(p) ==
  /\ In(p, "done") \/ In(p, "leave")
  /\ unfinished' = IF cpc[p] = "done" THEN unfinished - 1 ELSE unfinished
  /\ hold' = [hold EXCEPT ![p] = NoJob]
  /\ Goto(p, IF cpc[p] = "done" THEN "idle" ELSE "dead")
  /\ UNCHANGED <<phase, note, rows, queue, pending, caller, err, bounds, lost>>
TaskDoneOnSuccess(p) ==
  /\ In(p, "done") \/ In(p, "leave")
  /\ unfinished' = IF err[p] = "none" THEN unfinished - 1 ELSE unfinished
  /\ hold' = [hold EXCEPT ![p] = NoJob]
  /\ Goto(p, IF cpc[p] = "done" THEN "idle" ELSE "dead")
  /\ UNCHANGED <<phase, note, rows, queue, pending, caller, err, bounds, lost>>

\* finally: task_done(), then the next turn of the loop or the end of the consumer.
TaskDone(p) ==
  /\ In(p, "done") \/ In(p, "leave")
  /\ unfinished' = unfinished - 1
  /\ hold' = [hold EXCEPT ![p] = NoJob]
  /\ Goto(p, IF cpc[p] = "done" THEN "idle" ELSE "dead")
  /\ UNCHANGED <<phase, note, rows, queue, pending, caller, err, bounds, lost>>

\* The drain's loop condition fails: the queue is empty, or the window has elapsed.
DrainReturn ==
  /\ In("drain", "idle")
  /\ \/ queue = <<>> /\ UNCHANGED bounds
     \/ queue # <<>> /\ Spend("timeouts")
  /\ Goto("drain", "dead")
  /\ UNCHANGED <<phase, note, rows, shared, caller, hold, err, lost>>

-----------------------------------------------------------------------------
(* The process *)

\* Interpreter exit: non-daemon threads are joined, then atexit runs the drain first.
BeginExit ==
  /\ phase = "up" /\ \A c \in Callers : pc[c] = "idle"
  /\ Spend("stops")
  /\ phase' = "draining" /\ Goto("drain", "idle")
  /\ UNCHANGED <<note, rows, shared, caller, hold, err, lost>>

\* Mutation of CloseStore: the handlers registered the other way round, the store closes first.
CloseStoreFirst ==
  /\ phase = "draining" /\ phase' = "closed"
  /\ UNCHANGED <<note, rows, shared, caller, consumer, bounds, lost>>

\* The atexit handler registered first runs last.
CloseStore ==
  /\ phase = "draining" /\ cpc["drain"] = "dead"
  /\ phase' = "closed"
  /\ UNCHANGED <<note, rows, shared, caller, consumer, bounds, lost>>

\* The process is gone: what is not in the database goes with it.
Vanish ==
  /\ queue' = <<>> /\ unfinished' = 0 /\ pending' = {}
  /\ pc' = [c \in Callers |-> "idle"] /\ job' = [c \in Callers |-> NoJob]
  /\ cpc' = [p \in Consumers |-> "off"]
  /\ hold' = [p \in Consumers |-> NoJob] /\ err' = [p \in Consumers |-> "none"]
  /\ lost' = lost \cup LiveJobs
  /\ UNCHANGED <<note, rows>>

Exit == phase = "closed" /\ phase' = "exited" /\ Vanish /\ UNCHANGED bounds

Crash == Running /\ Spend("stops") /\ phase' = "crashed" /\ Vanish

\* Mutation of Restart: a stale row is queued again.
RestartRequeueing ==
  /\ phase \in {"exited", "crashed"}
  /\ phase' = "up" /\ Goto("worker", "idle")
  /\ \E j \in LiveJobs : queue' = <<j>> /\ unfinished' = 1
  /\ UNCHANGED <<note, rows, pending, caller, hold, err, bounds, lost>>

\* __init__ on the same database: a new queue and a new worker. No row is read back.
Restart ==
  /\ phase \in {"exited", "crashed"}
  /\ phase' = "up" /\ Goto("worker", "idle")
  /\ UNCHANGED <<note, rows, shared, caller, hold, err, bounds, lost>>

-----------------------------------------------------------------------------
CallerStep(c) ==
  \/ CreateRow(c) \/ Put(c) \/ AddPending(c) \/ Reject(c) \/ CountNotes(c)
  \/ FlushTrue(c) \/ FlushFalse(c)

CallerStart(c) == Flush(c) \/ \E n \in Notes : Remember(c, n) \/ EvolveNote(c, n)

ConsumerStep(p) ==
  \/ Take(p) \/ MarkRunning(p) \/ FetchNote(p) \/ Work(p) \/ MarkTerminal(p)
  \/ HandleError(p) \/ TaskDone(p)

ProcessStep == BeginExit \/ CloseStore \/ Exit \/ Crash \/ Restart

Next ==
  \/ \E c \in Callers : CallerStart(c) \/ CallerStep(c)
  \/ \E n \in Notes : DeleteNote(n)
  \/ \E p \in Consumers : ConsumerStep(p)
  \/ DrainReturn
  \/ ProcessStep

\* Threads that can run are scheduled; an LLM call ends, by an answer or its timeout.
\* No fairness for callers to begin anything, for deletes, faults, or the process to stop.
Fairness ==
  /\ \A c \in Callers : WF_vars(CallerStep(c))
  /\ \A p \in Consumers : WF_vars(ConsumerStep(p))

Spec == Init /\ [][Next]_vars
FairSpec == Spec /\ Fairness

-----------------------------------------------------------------------------
(* Properties *)

Queued == {queue[i] : i \in DOMAIN queue}
Busy(p) == IF hold[p] = NoJob THEN 0 ELSE 1
\* Callers whose job has a row that is not in the queue yet.
HasRow(c) == pc[c] \in {"put", "reject"}

RowsOK ==
  /\ note \in [Notes -> {"new", "stored", "deleted"}]
  /\ ledger \in [Job -> LedgerState] /\ attempts \in [Job -> Nat] /\ code \in [Job -> Codes]
  /\ lost \subseteq Job
QueueOK ==
  /\ queue \in Seq(Job) /\ Len(queue) <= QueueMax
  /\ unfinished \in Int /\ pending \subseteq Notes
CallersOK == pc \in [Callers -> CallerPc] /\ job \in [Callers -> Job \cup {NoJob}]
ConsumersOK ==
  /\ cpc \in [Consumers -> ConsumerPc] /\ hold \in [Consumers -> Job \cup {NoJob}]
  /\ err \in [Consumers -> Codes]
ProcessOK ==
  /\ phase \in {"up", "draining", "closed", "exited", "crashed"}
  /\ bounds \in [Bounds -> Nat]

\* The variables have the shape the code gives them; the queue respects its maxsize.
TypeOK == RowsOK /\ QueueOK /\ CallersOK /\ ConsumersOK /\ ProcessOK

\* A job is in one place: with the caller that recorded it, once in the queue, or with one of
\* the two consumers, which run side by side while the process exits.
OneOwner ==
  /\ \A i, k \in DOMAIN queue : queue[i] = queue[k] => i = k
  /\ \A p \in Consumers : hold[p] # NoJob =>
       /\ hold[p] \notin Queued
       /\ \A q \in Consumers \ {p} : hold[q] # hold[p]
       /\ \A c \in Callers : HasRow(c) => job[c] # hold[p]
  /\ \A c \in Callers : HasRow(c) =>
       /\ job[c] \notin Queued
       /\ \A d \in Callers \ {c} : HasRow(d) => job[d] # job[c]

\* No row is forgotten: a row that is queued or running belongs to a thread that will settle it,
\* unless the process stopped, the store closed under a consumer, or the settling statement
\* itself raised. In particular a job the full queue refused does not stay queued.
NoRowForgotten ==
  \A j \in Job : Live(j) =>
    \/ j \in lost
    \/ j \in Queued
    \/ \E p \in Consumers : hold[p] = j
    \/ \E c \in Callers : HasRow(c) /\ job[c] = j

\* The counter flush() waits on is the number of jobs put and not yet done, on every way out
\* of the consumers' loops (continue, return, an exception inside the except clause).
UnfinishedExact ==
  unfinished = Len(queue) + Busy("worker") + Busy("drain")

\* The ledger tells the truth about execution: at most one attempt, whichever consumer made it
\* and across restarts; a refused job never ran; an outcome of the handler means it did run.
RowTruth ==
  \A j \in Job :
    /\ attempts[j] <= 1
    /\ ledger[j] \in {"running", "succeeded"} => attempts[j] = 1
    /\ code[j] = "queue_full" => ledger[j] = "failed" /\ attempts[j] = 0
    /\ code[j] \in {"note_missing", "job_failed"} => ledger[j] = "failed" /\ attempts[j] = 1

\* When a flush() without timeout returns, every job put so far by this process is terminal in
\* the ledger: what is still live was given up for lost, or is not put yet by its caller.
FlushBarrier ==
  [][\A c \in Callers : pc[c] = "flush" /\ pc'[c] = "idle" /\ phase' = "up" =>
       \A j \in LiveJobs : j \in lost \/ \E d \in Callers : HasRow(d) /\ job[d] = j]_vars

\* The drain does its work while the store is open: when the store closes after a drain that
\* met neither a fault nor its deadline, the only row left open is the one the worker holds.
DrainLeavesOnlyInFlight ==
  [][phase = "draining" /\ phase' = "closed"
       /\ bounds["faults"] = Limit["faults"] /\ bounds["timeouts"] = Limit["timeouts"]
       => \A j \in LiveJobs : j \in lost \/ hold["worker"] = j]_vars

\* The rows of enrichment_jobs go through the life the ledger promises, in every interleaving.
Ledger == INSTANCE EnrichmentLedger WITH Job <- Job, ledger <- ledger, attempts <- attempts
LedgerSpec == Ledger!Spec

\* Every recorded job is settled while the worker lives: no interleaving of callers, worker and
\* drain strands a row. (That the worker may die is WorkerLivesUntilExit, below.)
EveryJobSettles ==
  \A j \in Job : Live(j) ~> (~Live(j) \/ j \in lost \/ cpc["worker"] = "dead")

\* flush() without timeout comes back while the worker lives.
FlushReturns ==
  \A c \in Callers : pc[c] = "flush" ~> (pc[c] # "flush" \/ cpc["worker"] = "dead")

\* What the comment at the atexit registrations claims: a clean exit leaves no row non-terminal.
CleanExitTerminal == phase = "exited" => LiveJobs = {}

\* What the docstring of _enrichment_loop says: it processes jobs until the process exits.
WorkerLivesUntilExit == phase = "up" => cpc["worker"] # "dead"
=============================================================================
