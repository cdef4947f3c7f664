------------------------ MODULE EnrichmentPipelineProofs ------------------------
(***************************************************************************)
(* Theorems about EnrichmentPipeline for every number of callers and       *)
(* notes, every queue length and every bound.                              *)
(*                                                                         *)
(* TypeOK is not inductive: Put appends job[c] and StoreRaises gives up    *)
(* hold[p], and only the program counters say that those are jobs. TypeInv *)
(* adds that, and which phases of the process leave a thread no step.      *)
(* Each part of TypeInv has a lemma of its own about one step.             *)
(***************************************************************************)
EXTENDS EnrichmentPipeline, TLAPS

IdlePc == {"idle", "flush", "flush_timed"}
FreePc == {"off", "idle", "dead"}

\* A caller in the middle of a dispatch has a job, a consumer in the middle of its loop too.
CallersInv == CallersOK /\ \A c \in Callers : pc[c] \in IdlePc <=> job[c] = NoJob
ConsumersInv == ConsumersOK /\ \A p \in Consumers : cpc[p] \in FreePc <=> hold[p] = NoJob

\* A process that is gone has no threads and no queue; the drain runs from exit on, callers before.
ProcessInv ==
  /\ phase \in {"exited", "crashed"} =>
       queue = <<>> /\ unfinished = 0 /\ \A p \in Consumers : cpc[p] = "off"
  /\ phase = "up" => cpc["drain"] = "off"
  /\ phase # "up" => \A c \in Callers : pc[c] = "idle"

TypeInv == RowsOK /\ QueueOK /\ CallersInv /\ ConsumersInv /\ ProcessOK /\ ProcessInv

-----------------------------------------------------------------------------
(* What the threads leave alone *)

\* A stuttering step changes no variable.
LEMMA Stutter ==
  ASSUME UNCHANGED vars
  PROVE UNCHANGED <<phase, note, ledger, attempts, code, queue, unfinished, pending,
                    pc, job, cpc, hold, err, bounds, lost>>
BY DEF vars, rows, shared, caller, consumer

\* Callers run while the process is up and never touch a consumer.
LEMMA CallerKeeps ==
  ASSUME NEW c \in Callers, CallerStart(c) \/ CallerStep(c)
  PROVE phase = "up" /\ UNCHANGED <<phase, consumer>>
BY DEF CallerStart, CallerStep, Flush, Remember, EvolveNote, CreateRow, Put, AddPending, Reject,
       CountNotes, FlushTrue, FlushFalse, CallerFault, At

\* Consumers never touch a caller, a note or the phase.
LEMMA ConsumerKeeps ==
  ASSUME NEW p \in Consumers, ConsumerStep(p)
  PROVE UNCHANGED <<phase, note, caller>>
BY DEF ConsumerStep, Take, MarkRunning, FetchNote, Work, MarkTerminal, HandleError, TaskDone

\* A caller in the middle of a dispatch works on a job.
LEMMA CallersWorking ==
  ASSUME CallersInv, NEW c \in Callers, pc[c] \notin IdlePc
  PROVE job[c] \in Job /\ job[c].note \in Notes /\ job[c].kind \in Kinds
BY DEF CallersInv, CallersOK, Job

\* So does a consumer in the middle of its loop.
LEMMA ConsumersWorking ==
  ASSUME ConsumersInv, NEW p \in Consumers, cpc[p] \notin FreePc
  PROVE hold[p] \in Job
BY DEF ConsumersInv, ConsumersOK, FreePc

\* The records the callers build are jobs.
LEMMA MadeJob ==
  \A n \in Notes, k \in Kinds :
    [note |-> n, kind |-> k] \in Job /\ [note |-> n, kind |-> k] # NoJob
BY PipelineAssumption DEF Job

-----------------------------------------------------------------------------
(* Each part of TypeInv is preserved *)

\* A caller's own steps keep its program counter and its job in step.
LEMMA CallerSteps ==
  ASSUME CallersInv, NEW c \in Callers, CallerStart(c) \/ CallerStep(c)
  PROVE CallersInv'
<1> USE MadeJob, PipelineAssumption DEF CallersInv, CallersOK, IdlePc, CallerPc
<1>1. ASSUME NEW l \in CallerPc, CallerGoto(c, l), UNCHANGED job, l \in IdlePc <=> pc[c] \in IdlePc
      PROVE CallersInv'
  BY <1>1 DEF CallerGoto
<1>2. ASSUME NEW j \in Job, Dispatch(c, j) PROVE CallersInv'
  BY <1>2 DEF CallerGoto, Dispatch
<1>3. ASSUME Return(c) PROVE CallersInv'
  BY <1>3 DEF CallerGoto, Return
<1>4. ASSUME NEW n \in Notes, Remember(c, n) \/ EvolveNote(c, n) PROVE CallersInv'
  BY <1>2, <1>4 DEF Remember, EvolveNote, Kinds
<1>5. CASE Flush(c)
  BY <1>1, <1>5 DEF Flush, At
<1>6. ASSUME pc[c] \notin IdlePc
      PROVE job[c] \in Job /\ job[c].note \in Notes /\ job[c].kind \in Kinds
  BY <1>6 DEF Job
<1>7. ASSUME pc[c] \notin IdlePc, DispatchNext(c) PROVE CallersInv'
  BY <1>1, <1>2, <1>3, <1>6, <1>7 DEF DispatchNext, Kinds
<1>8. CASE CreateRow(c) \/ Put(c)
  BY <1>1, <1>3, <1>8 DEF CreateRow, Put, CallerFault, At
<1>9. CASE AddPending(c) \/ Reject(c)
  BY <1>3, <1>7, <1>9 DEF AddPending, Reject, CallerFault, At
<1>10. CASE CountNotes(c)
  <2>1. [note |-> job[c].note, kind |-> "neighbor_evolution"] \in Job
    BY <1>6, <1>10 DEF CountNotes, At, Kinds
  <2> QED BY <1>2, <1>3, <1>10, <2>1 DEF CountNotes, CallerFault
<1>11. CASE FlushTrue(c) \/ FlushFalse(c)
  BY <1>3, <1>11 DEF FlushTrue, FlushFalse
<1> QED BY <1>4, <1>5, <1>8, <1>9, <1>10, <1>11 DEF CallerStart, CallerStep

\* When the process is gone no thread has a job.
LEMMA VanishThreads == ASSUME CallersInv, ConsumersInv, Vanish PROVE CallersInv' /\ ConsumersInv'
<1>1. CallersInv'
  BY DEF CallersInv, CallersOK, Vanish, CallerPc, IdlePc
<1>2. ConsumersInv'
  BY DEF ConsumersInv, ConsumersOK, Vanish, ConsumerPc, FreePc, Codes
<1> QED BY <1>1, <1>2

\* Nothing but the callers and the end of the process changes the callers.
LEMMA CallersPreserved == ASSUME CallersInv, ConsumersInv, [Next]_vars PROVE CallersInv'
<1>1. ASSUME UNCHANGED caller PROVE CallersInv'
  BY <1>1 DEF CallersInv, CallersOK, caller
<1>2. CASE \E p \in Consumers : ConsumerStep(p)
  BY <1>1, <1>2, ConsumerKeeps
<1>3. CASE (\E n \in Notes : DeleteNote(n)) \/ DrainReturn
  BY <1>1, <1>3 DEF DeleteNote, DrainReturn
<1>4. CASE ProcessStep
  BY <1>1, <1>4, VanishThreads DEF ProcessStep, BeginExit, CloseStore, Exit, Crash, Restart
<1>5. CASE UNCHANGED vars
  BY <1>1, <1>5 DEF vars
<1> QED BY CallerSteps, <1>2, <1>3, <1>4, <1>5 DEF Next

\* A consumer's own steps keep its program counter and the job it holds in step.
LEMMA ConsumerSteps ==
  ASSUME ConsumersInv, QueueOK, NEW p \in Consumers, ConsumerStep(p)
  PROVE ConsumersInv'
<1> USE DEF ConsumersInv, ConsumersOK, FreePc, ConsumerPc, In, Goto
<1>1. ASSUME NEW l \in ConsumerPc \ FreePc, Goto(p, l), cpc[p] \notin FreePc, UNCHANGED hold,
             NEW e \in Codes, err' = [err EXCEPT ![p] = e] \/ UNCHANGED err
      PROVE ConsumersInv'
  BY <1>1
<1>2. CASE Take(p)
  <2>1. Head(queue) \in Job /\ Head(queue) # NoJob
    BY <1>2, PipelineAssumption DEF Take, QueueOK
  <2> QED BY <1>2, <2>1 DEF Take, Codes
<1>3. CASE MarkRunning(p)
  BY <1>1, <1>3 DEF MarkRunning, StoreRaises, Codes
<1>4. CASE FetchNote(p)
  BY <1>1, <1>4 DEF FetchNote, StoreRaises, Codes
<1>5. CASE Work(p)
  BY <1>1, <1>5 DEF Work, Codes
<1>6. CASE MarkTerminal(p)
  BY <1>1, <1>6 DEF MarkTerminal, StoreRaises, Codes
<1>7. CASE HandleError(p)
  BY <1>1, <1>7 DEF HandleError, Codes
<1>8. CASE TaskDone(p)
  BY <1>8 DEF TaskDone
<1> QED BY <1>2, <1>3, <1>4, <1>5, <1>6, <1>7, <1>8 DEF ConsumerStep

\* The process starts and stops the consumers; callers leave them alone.
LEMMA ConsumersPreserved ==
  ASSUME ConsumersInv, CallersInv, QueueOK, ProcessInv, [Next]_vars
  PROVE ConsumersInv'
<1>1. ASSUME UNCHANGED consumer PROVE ConsumersInv'
  BY <1>1 DEF ConsumersInv, ConsumersOK, consumer
<1>2. ASSUME NEW p \in Consumers, hold[p] = NoJob, NEW l \in FreePc, Goto(p, l), UNCHANGED <<hold, err>>
      PROVE ConsumersInv'
  BY <1>2 DEF ConsumersInv, ConsumersOK, Goto, ConsumerPc, FreePc
<1>3. \A p \in Consumers : cpc[p] \in FreePc => hold[p] = NoJob
  BY DEF ConsumersInv
<1>4. CASE \E c \in Callers : CallerStart(c) \/ CallerStep(c)
  BY <1>1, <1>4, CallerKeeps
<1>5. CASE \E n \in Notes : DeleteNote(n)
  BY <1>1, <1>5 DEF DeleteNote
<1>6. CASE DrainReturn
  BY <1>2, <1>3, <1>6 DEF DrainReturn, In, FreePc, Consumers
<1>7. CASE BeginExit \/ Restart
  BY <1>2, <1>3, <1>7 DEF BeginExit, Restart, ProcessInv, FreePc, Consumers
<1>8. CASE CloseStore \/ Exit \/ Crash
  BY <1>1, <1>8, VanishThreads DEF CloseStore, Exit, Crash
<1>9. CASE UNCHANGED vars
  BY <1>1, <1>9 DEF vars
<1> QED BY ConsumerSteps, <1>4, <1>5, <1>6, <1>7, <1>8, <1>9 DEF Next, ProcessStep

\* Put is guarded by the queue's maxsize and appends a job; nothing else lengthens the queue.
LEMMA QueuePreserved == ASSUME QueueOK, CallersInv, ConsumersInv, [Next]_vars PROVE QueueOK'
<1> USE DEF QueueOK, shared
<1>1. ASSUME NEW c \in Callers, CallerStart(c) PROVE QueueOK'
  BY <1>1 DEF CallerStart, Flush, Remember, EvolveNote
<1>2. ASSUME NEW c \in Callers, CallerStep(c) PROVE QueueOK'
  <2>1. CASE Put(c)
    <3>1. job[c] \in Job
      BY CallersWorking, <2>1 DEF Put, At, IdlePc
    <3>2. CASE Len(queue) < QueueMax
      BY PipelineAssumption, <3>1, <3>2, <2>1 DEF Put
    <3>3. CASE ~(Len(queue) < QueueMax)
      BY <3>3, <2>1 DEF Put
    <3> QED BY <3>2, <3>3
  <2>2. CASE AddPending(c)
    <3>1. job[c].note \in Notes
      BY CallersWorking, <2>2 DEF AddPending, At, IdlePc
    <3> QED BY <3>1, <2>2 DEF AddPending
  <2>3. CASE CreateRow(c) \/ Reject(c) \/ CountNotes(c) \/ FlushTrue(c) \/ FlushFalse(c)
    BY <2>3 DEF CreateRow, Reject, CountNotes, FlushTrue, FlushFalse, CallerFault
  <2> QED BY <1>2, <2>1, <2>2, <2>3 DEF CallerStep
<1>3. ASSUME NEW n \in Notes, DeleteNote(n) PROVE QueueOK'
  BY <1>3 DEF DeleteNote
<1>4. ASSUME NEW p \in Consumers, ConsumerStep(p) PROVE QueueOK'
  <2>1. CASE Take(p)
    <3>1. Tail(queue) \in Seq(Job) /\ Len(Tail(queue)) = Len(queue) - 1
      BY <2>1 DEF Take
    <3> QED BY <2>1, <3>1, PipelineAssumption DEF Take
  <2>2. CASE MarkRunning(p) \/ FetchNote(p) \/ Work(p) \/ MarkTerminal(p) \/ HandleError(p)
    BY <2>2 DEF MarkRunning, FetchNote, Work, MarkTerminal, HandleError
  <2>3. CASE TaskDone(p)
    BY <2>3 DEF TaskDone
  <2> QED BY <1>4, <2>1, <2>2, <2>3 DEF ConsumerStep
<1>5. CASE DrainReturn
  BY <1>5 DEF DrainReturn
<1>6. CASE ProcessStep
  <2>1. CASE BeginExit \/ CloseStore \/ Restart
    BY <2>1 DEF BeginExit, CloseStore, Restart
  <2>2. CASE Vanish
    BY <2>2, PipelineAssumption DEF Vanish
  <2> QED BY <1>6, <2>1, <2>2 DEF ProcessStep, Exit, Crash
<1>7. CASE UNCHANGED vars
  BY <1>7 DEF vars
<1> QED BY <1>1, <1>2, <1>3, <1>4, <1>5, <1>6, <1>7 DEF Next

\* The rows change by the store statements of callers and consumers only.
LEMMA RowsPreserved == ASSUME RowsOK, CallersInv, ConsumersInv, [Next]_vars PROVE RowsOK'
<1> USE DEF RowsOK, rows, LedgerState, Terminal, Codes
<1>1. ASSUME NEW c \in Callers, CallerStart(c) PROVE RowsOK'
  BY <1>1 DEF CallerStart, Flush, Remember, EvolveNote
<1>2. ASSUME NEW c \in Callers, CallerStep(c) PROVE RowsOK'
  <2>1. CASE CreateRow(c)
    BY <2>1 DEF CreateRow, CallerFault
  <2>2. CASE Reject(c)
    <3>1. job[c] \in Job
      BY <2>2, CallersWorking DEF Reject, At, IdlePc
    <3> QED BY <3>1, <2>2 DEF Reject, CallerFault
  <2>3. CASE Put(c) \/ AddPending(c) \/ CountNotes(c) \/ FlushTrue(c) \/ FlushFalse(c)
    BY <2>3 DEF Put, AddPending, CountNotes, FlushTrue, FlushFalse, CallerFault
  <2> QED BY <1>2, <2>1, <2>2, <2>3 DEF CallerStep
<1>3. ASSUME NEW n \in Notes, DeleteNote(n) PROVE RowsOK'
  BY <1>3 DEF DeleteNote
<1>4. ASSUME NEW p \in Consumers, ConsumerStep(p) PROVE RowsOK'
  <2>1. ASSUME cpc[p] \notin FreePc, StoreRaises(p) PROVE lost' \subseteq Job
    BY <2>1, ConsumersWorking DEF StoreRaises
  <2>2. CASE Take(p) \/ Work(p) \/ TaskDone(p)
    BY <2>2 DEF Take, Work, TaskDone
  <2>3. CASE MarkRunning(p)
    BY <2>1, <2>3, ConsumersWorking DEF MarkRunning, In, FreePc
  <2>4. CASE FetchNote(p)
    BY <2>1, <2>4 DEF FetchNote, In, FreePc
  <2>5. CASE MarkTerminal(p)
    <3>1. err[p] \in Codes
      BY DEF ConsumersInv, ConsumersOK
    <3> QED BY <3>1, <2>1, <2>5, ConsumersWorking DEF MarkTerminal, In, FreePc
  <2>6. CASE HandleError(p)
    BY <2>6, ConsumersWorking DEF HandleError, In, FreePc
  <2> QED BY <1>4, <2>2, <2>3, <2>4, <2>5, <2>6 DEF ConsumerStep
<1>5. CASE DrainReturn
  BY <1>5 DEF DrainReturn
<1>6. CASE ProcessStep
  BY <1>6 DEF ProcessStep, BeginExit, CloseStore, Exit, Crash, Restart, Vanish, LiveJobs
<1>7. CASE UNCHANGED vars
  BY <1>7 DEF vars
<1> QED BY <1>1, <1>2, <1>3, <1>4, <1>5, <1>6, <1>7 DEF Next

\* A step uses up at most one of the bounded events, and only one that is left.
LEMMA StepSpends == ASSUME [Next]_vars PROVE UNCHANGED bounds \/ \E b \in Bounds : Spend(b)
<1> USE DEF Bounds
<1> DEFINE Goal == UNCHANGED bounds \/ \E b \in Bounds : Spend(b)
<1>1. ASSUME NEW c \in Callers, CallerStart(c) \/ CallerStep(c) PROVE Goal
  BY <1>1 DEF CallerStart, CallerStep, Flush, Remember, EvolveNote, CreateRow, Put, AddPending,
              Reject, CountNotes, FlushTrue, FlushFalse, CallerFault
<1>2. ASSUME NEW p \in Consumers, ConsumerStep(p) PROVE Goal
  BY <1>2 DEF ConsumerStep, Take, MarkRunning, FetchNote, Work, MarkTerminal, HandleError,
              TaskDone, StoreRaises
<1>3. ASSUME (\E n \in Notes : DeleteNote(n)) \/ DrainReturn \/ ProcessStep \/ UNCHANGED vars PROVE Goal
  BY <1>3 DEF DeleteNote, DrainReturn, ProcessStep, BeginExit, CloseStore, Exit, Crash, Restart, vars
<1> QED BY <1>1, <1>2, <1>3 DEF Next

\* The phases follow one another, and what each leaves alive is as ProcessInv says.
LEMMA ProcessPreserved ==
  ASSUME ProcessInv, ProcessOK, ConsumersInv, [Next]_vars
  PROVE ProcessInv' /\ ProcessOK'
<1> DEFINE Phases == {"up", "draining", "closed", "exited", "crashed"}
<1>1. phase \in Phases /\ "drain" \in Consumers /\ cpc \in [Consumers -> ConsumerPc]
  BY DEF ProcessOK, ConsumersInv, ConsumersOK, Consumers
<1>2. bounds' \in [Bounds -> Nat]
  BY StepSpends DEF ProcessOK, Spend
<1>3. ProcessInv' /\ phase' \in Phases
  <2> USE DEF ProcessInv
  <2>1. ASSUME NEW c \in Callers, CallerStart(c) \/ CallerStep(c) PROVE ProcessInv' /\ UNCHANGED phase
    BY <2>1, CallerKeeps DEF consumer
  <2>2. ASSUME NEW n \in Notes, DeleteNote(n) PROVE ProcessInv' /\ UNCHANGED phase
    BY <2>2 DEF DeleteNote, caller, consumer, shared
  <2>3. ASSUME NEW p \in Consumers, ConsumerStep(p) PROVE ProcessInv' /\ UNCHANGED phase
    <3>1. cpc[p] # "off" /\ Running
      BY <2>3 DEF ConsumerStep, Take, MarkRunning, FetchNote, Work, MarkTerminal, HandleError, TaskDone, In
    <3>2. \E l \in ConsumerPc : cpc' = [cpc EXCEPT ![p] = l]
      BY <2>3 DEF ConsumerStep, Take, MarkRunning, FetchNote, Work, MarkTerminal, HandleError,
                  TaskDone, StoreRaises, Goto, ConsumerPc
    <3>3. phase = "up" => UNCHANGED cpc["drain"]
      BY <3>1, <3>2, <1>1
    <3>4. UNCHANGED <<phase, pc>>
      BY <2>3, ConsumerKeeps DEF caller
    <3> QED BY <3>1, <3>3, <3>4 DEF Running
  <2>4. CASE DrainReturn
    BY <2>4, <1>1 DEF DrainReturn, In, Goto, Running, caller
  <2>5. CASE BeginExit
    BY <2>5, <1>1 DEF BeginExit, Goto, caller, shared
  <2>6. CASE CloseStore
    BY <2>6, <1>1 DEF CloseStore, caller, consumer, shared
  <2>7. CASE Exit \/ Crash
    BY <2>7 DEF Exit, Crash, Vanish
  <2>8. CASE Restart
    BY <2>8, <1>1 DEF Restart, Goto, caller
  <2>9. CASE UNCHANGED vars
    BY <2>9, <1>1, Stutter
  <2> QED BY <1>1, <2>1, <2>2, <2>3, <2>4, <2>5, <2>6, <2>7, <2>8, <2>9 DEF Next, ProcessStep
<1> QED BY <1>2, <1>3 DEF ProcessOK

-----------------------------------------------------------------------------
\* The inductive form of type correctness.
LEMMA TypeInvCorrect == Spec => []TypeInv
<1>1. Init => TypeInv
  <2> SUFFICES ASSUME Init PROVE TypeInv
    OBVIOUS
  <2> USE PipelineAssumption DEF Init
  <2>1. RowsOK
    BY DEF RowsOK, LedgerState, Codes
  <2>2. QueueOK
    BY DEF QueueOK
  <2>3. CallersInv
    BY DEF CallersInv, CallersOK, CallerPc, IdlePc
  <2>4. ConsumersInv
    BY DEF ConsumersInv, ConsumersOK, ConsumerPc, FreePc, Codes, Consumers
  <2>5. ProcessOK /\ ProcessInv
    BY DEF ProcessOK, ProcessInv, Consumers
  <2> QED BY <2>1, <2>2, <2>3, <2>4, <2>5 DEF TypeInv
<1>2. TypeInv /\ [Next]_vars => TypeInv'
  BY CallersPreserved, ConsumersPreserved, QueuePreserved, RowsPreserved, ProcessPreserved DEF TypeInv
<1> QED BY <1>1, <1>2, PTL DEF Spec

\* The variables keep the shape the code gives them; the queue never exceeds its maxsize.
THEOREM TypeCorrect == Spec => []TypeOK
<1>1. TypeInv => TypeOK
  BY DEF TypeInv, TypeOK, CallersInv, ConsumersInv
<1> QED BY <1>1, TypeInvCorrect, PTL

-----------------------------------------------------------------------------
(* The counter behind flush() *)

\* A consumer counts for one job or none.
LEMMA BusyInt ==
  /\ Busy("worker") \in Int /\ Busy("worker")' \in Int
  /\ Busy("drain") \in Int /\ Busy("drain")' \in Int
BY DEF Busy

\* A consumer that takes a job, or lets one go, changes its own share of the count only.
LEMMA BusyChanges ==
  ASSUME ConsumersInv, NEW p \in Consumers, NEW h \in Job \cup {NoJob}, hold' = [hold EXCEPT ![p] = h]
  PROVE Busy("worker")' + Busy("drain")' + Busy(p) = Busy("worker") + Busy("drain") + Busy(p)'
BY DEF ConsumersInv, ConsumersOK, Busy, Consumers

\* unfinished_tasks is exact after every step: only put_nowait, get and task_done move it or
\* what it counts, and each exit of a consumer's loop body passes task_done once.
LEMMA UnfinishedPreserved ==
  ASSUME TypeInv, UnfinishedExact, [Next]_vars
  PROVE UnfinishedExact'
<1> USE DEF UnfinishedExact, TypeInv
<1>1. ASSUME UNCHANGED <<queue, unfinished, hold>> PROVE UnfinishedExact'
  BY <1>1 DEF Busy
<1>2. ASSUME NEW c \in Callers, CallerStart(c) \/ CallerStep(c) PROVE UnfinishedExact'
  <2>1. CASE Put(c)
    <3>1. job[c] \in Job
      BY CallersWorking, <2>1 DEF Put, At, IdlePc
    <3>2. UNCHANGED hold
      BY <2>1 DEF Put, consumer
    <3>3. CASE Len(queue) < QueueMax
      <4>1. Len(queue') = Len(queue) + 1
        BY <3>1, <3>3, <2>1 DEF Put, QueueOK
      <4>2. unfinished' = unfinished + 1
        BY <3>3, <2>1 DEF Put
      <4>3. Busy("worker")' = Busy("worker") /\ Busy("drain")' = Busy("drain")
        BY <3>2 DEF Busy
      <4>4. Len(queue) \in Int /\ unfinished \in Int
        BY DEF QueueOK
      <4> QED BY <4>1, <4>2, <4>3, <4>4, BusyInt
    <3>4. CASE ~(Len(queue) < QueueMax)
      BY <1>1, <2>1, <3>2, <3>4 DEF Put
    <3> QED BY <3>3, <3>4
  <2>2. CASE ~Put(c)
    BY <1>1, <1>2, <2>2 DEF CallerStart, CallerStep, Flush, Remember, EvolveNote, CreateRow, AddPending,
       Reject, CountNotes, FlushTrue, FlushFalse, CallerFault, shared, consumer
  <2> QED BY <2>1, <2>2
<1>3. ASSUME NEW p \in Consumers, ConsumerStep(p) PROVE UnfinishedExact'
  <2>1. CASE Take(p)
    <3>1. hold[p] = NoJob /\ Head(queue) \in Job /\ Head(queue) # NoJob
      BY <2>1, PipelineAssumption DEF Take, In, ConsumersInv, FreePc, QueueOK
    <3>2. Len(queue') = Len(queue) - 1 /\ unfinished' = unfinished /\ Len(queue) \in Int /\ unfinished \in Int
      BY <2>1 DEF Take, QueueOK
    <3>3. hold' = [hold EXCEPT ![p] = Head(queue)] /\ hold'[p] = Head(queue)
      BY <2>1 DEF Take, ConsumersInv, ConsumersOK
    <3>4. Busy(p) = 0 /\ Busy(p)' = 1
      BY <3>1, <3>3 DEF Busy
    <3>5. Busy("worker")' + Busy("drain")' + Busy(p) = Busy("worker") + Busy("drain") + Busy(p)'
      BY <3>1, <3>3, BusyChanges
    <3> DEFINE before == Len(queue)
               after == Len(queue')
               busy == Busy("worker") + Busy("drain")
               busier == Busy("worker")' + Busy("drain")'
    <3>6. busy \in Int /\ busier \in Int BY BusyInt
    <3>7. before \in Int /\ after = before - 1 /\ unfinished' = unfinished BY <3>2
    <3>8. unfinished = before + busy BY <3>2, BusyInt
    <3>9. busier + 0 = busy + 1 BY <3>4, <3>5
    <3> HIDE DEF TypeInv, UnfinishedExact, before, after, busy, busier
    <3>10. unfinished' = after + busier BY <3>6, <3>7, <3>8, <3>9
    <3>11. after \in Int BY <3>7
    <3> USE DEF UnfinishedExact, after, busier
    <3> QED BY <3>10, <3>11, BusyInt
  <2>2. CASE TaskDone(p)
    <3>1. hold[p] # NoJob
      BY <2>2 DEF TaskDone, In, ConsumersInv, FreePc
    <3>2. UNCHANGED queue /\ unfinished' = unfinished - 1 /\ Len(queue) \in Int
      BY <2>2 DEF TaskDone, QueueOK
    <3>3. hold' = [hold EXCEPT ![p] = NoJob] /\ hold'[p] = NoJob
      BY <2>2 DEF TaskDone, ConsumersInv, ConsumersOK
    <3>4. Busy(p) = 1 /\ Busy(p)' = 0
      BY <3>1, <3>3 DEF Busy
    <3>5. Busy("worker")' + Busy("drain")' + Busy(p) = Busy("worker") + Busy("drain") + Busy(p)'
      BY <3>3, BusyChanges
    <3> HIDE DEF TypeInv
    <3>6. Busy("worker")' + Busy("drain")' + 1 = Busy("worker") + Busy("drain") + 0 BY <3>4, <3>5
    <3> QED BY <3>2, <3>6, BusyInt DEF UnfinishedExact
  <2>3. CASE MarkRunning(p) \/ FetchNote(p) \/ Work(p) \/ MarkTerminal(p) \/ HandleError(p)
    BY <1>1, <2>3 DEF MarkRunning, FetchNote, Work, MarkTerminal, HandleError, shared
  <2> QED BY <1>3, <2>1, <2>2, <2>3 DEF ConsumerStep
<1>4. CASE (\E n \in Notes : DeleteNote(n)) \/ DrainReturn \/ BeginExit \/ CloseStore \/ Restart
  BY <1>1, <1>4 DEF DeleteNote, DrainReturn, BeginExit, CloseStore, Restart, shared, consumer
<1>5. CASE Vanish
  BY <1>5 DEF Vanish, Busy, Consumers
<1>6. CASE UNCHANGED vars
  BY <1>1, <1>6, Stutter
<1> QED BY <1>2, <1>3, <1>4, <1>5, <1>6 DEF Next, ProcessStep, Exit, Crash

\* The counter flush() waits on is the number of jobs put and not yet done.
THEOREM UnfinishedCorrect == Spec => []UnfinishedExact
<1>1. Init => UnfinishedExact
  BY DEF Init, UnfinishedExact, Busy, Consumers
<1>2. TypeInv /\ UnfinishedExact /\ [Next]_vars => UnfinishedExact'
  BY UnfinishedPreserved
<1> QED BY <1>1, <1>2, TypeInvCorrect, PTL DEF Spec

-----------------------------------------------------------------------------
(***************************************************************************)
(* Beyond types and counting: who owns a job, that no row is forgotten,    *)
(* what a row says about execution, what flush() and the drain leave       *)
(* behind, and that the rows live the life EnrichmentLedger describes.     *)
(*                                                                         *)
(* OneOwner is not inductive: that a caller may record its job and put it  *)
(* in the queue rests on nobody else dispatching that job, now or later in *)
(* the same remember(). DispatchInv says so. StageInv ties the state of a  *)
(* row to where its job is, AttemptsInv to how often it was started.       *)
(***************************************************************************)

\* The kinds remember() still dispatches for a note after the one it is at.
Later(k) == CASE k = "causal_extraction" -> {"llm_ner", "neighbor_evolution"}
              [] k = "llm_ner" -> {"neighbor_evolution"}
              [] OTHER -> {}

Dispatching(c) == pc[c] \notin IdlePc

\* Jobs are dispatched for notes that were written; what is still to come has no row yet.
FreshNotes == \A j \in Job : note[j.note] = "new" => ledger[j] = "absent"
AtWork(c) ==
  Dispatching(c) =>
    /\ note[job[c].note] # "new"
    /\ pc[c] = "count" => job[c].kind \in {"causal_extraction", "llm_ner"}
    /\ pc[c] = "record" => ledger[job[c]] = "absent"
    /\ HasRow(c) => ledger[job[c]] = "queued"
    /\ \A j \in Job : j.note = job[c].note /\ j.kind \in Later(job[c].kind) => ledger[j] = "absent"
\* One remember() per note; evolve_note has jobs of its own.
Apart(c, d) ==
  Dispatching(c) /\ Dispatching(d) =>
    /\ job[c] # job[d]
    /\ job[c].note = job[d].note => job[c].kind = "evolve_note" \/ job[d].kind = "evolve_note"
DispatchInv ==
  /\ FreshNotes
  /\ \A c \in Callers : AtWork(c)
  /\ \A c, d \in Callers : c # d => Apart(c, d)

\* The row of a queued job, and of a job a consumer holds, is where the consumer's step left it.
QueueStage == \A i \in DOMAIN queue : ledger[queue[i]] = "queued"
HoldStage(p) ==
  /\ err[p] \in {"none", "note_missing", "job_failed"}
  /\ cpc[p] = "got" => ledger[hold[p]] = "queued"
  /\ cpc[p] \in {"run", "work", "finish"} => ledger[hold[p]] = "running"
  /\ cpc[p] = "except" => ledger[hold[p]] \in {"queued", "running"}
  /\ cpc[p] = "done" => ledger[hold[p]] \in {"succeeded", "failed"}
  /\ cpc[p] = "leave" => hold[p] \in lost /\ ledger[hold[p]] \in {"queued", "running"}
StageInv == QueueStage /\ \A p \in Consumers : HoldStage(p)

\* A row that was not started counts no attempt, one that runs or succeeded counts one.
Counted(j) ==
  /\ ledger[j] \in {"absent", "queued"} => attempts[j] = 0
  /\ ledger[j] \in {"running", "succeeded"} => attempts[j] = 1
  /\ ledger[j] = "failed" => attempts[j] \in {0, 1}
  /\ ledger[j] # "failed" => code[j] = "none"
  /\ code[j] = "queue_full" => attempts[j] = 0
  /\ code[j] \in {"note_missing", "job_failed"} => attempts[j] = 1
AttemptsInv == \A j \in Job : Counted(j)

PipelineInv ==
  /\ TypeInv /\ UnfinishedExact /\ DispatchInv /\ StageInv /\ AttemptsInv
  /\ OneOwner /\ NoRowForgotten

-----------------------------------------------------------------------------
(* What one step does to the rows *)

\* The five store statements of the pipeline that write a row; every other step leaves the table alone.
Recorded(c) ==
  /\ pc[c] = "record" /\ ledger' = [ledger EXCEPT ![job[c]] = "queued"]
  /\ UNCHANGED <<attempts, code>>
Refused(c) ==
  /\ pc[c] = "reject" /\ ledger' = [ledger EXCEPT ![job[c]] = "failed"]
  /\ code' = [code EXCEPT ![job[c]] = "queue_full"] /\ UNCHANGED attempts
Started(p) ==
  /\ cpc[p] = "got" /\ ledger' = [ledger EXCEPT ![hold[p]] = "running"]
  /\ attempts' = [attempts EXCEPT ![hold[p]] = attempts[hold[p]] + 1] /\ UNCHANGED code
Finished(p) ==
  /\ cpc[p] = "finish"
  /\ ledger' = [ledger EXCEPT ![hold[p]] = IF err[p] = "none" THEN "succeeded" ELSE "failed"]
  /\ code' = [code EXCEPT ![hold[p]] = err[p]] /\ UNCHANGED attempts
Errored(p) ==
  /\ cpc[p] = "except" /\ ledger' = [ledger EXCEPT ![hold[p]] = "failed"]
  /\ code' = [code EXCEPT ![hold[p]] = "consumer_error"] /\ UNCHANGED attempts

\* A caller inserts its row or marks it refused, or leaves the table alone.
LEMMA CallerRows ==
  ASSUME NEW c \in Callers, CallerStart(c) \/ CallerStep(c)
  PROVE UNCHANGED rows \/ Recorded(c) \/ Refused(c)
BY DEF CallerStart, CallerStep, Flush, Remember, EvolveNote, CreateRow, Put, AddPending, Reject,
       CountNotes, FlushTrue, FlushFalse, CallerFault, At, rows, Recorded, Refused

\* A consumer writes the row of the job it holds, at three places of its loop.
LEMMA ConsumerRows ==
  ASSUME NEW p \in Consumers, ConsumerStep(p)
  PROVE UNCHANGED rows \/ Started(p) \/ Finished(p) \/ Errored(p)
BY DEF ConsumerStep, Take, MarkRunning, FetchNote, Work, MarkTerminal, HandleError, TaskDone,
       rows, Started, Finished, Errored, In

\* Deletes, the drain's end and the process itself write no row.
LEMMA ProcessRows ==
  ASSUME (\E n \in Notes : DeleteNote(n)) \/ DrainReturn \/ ProcessStep \/ UNCHANGED vars
  PROVE UNCHANGED rows
BY DEF DeleteNote, DrainReturn, ProcessStep, BeginExit, CloseStore, Exit, Crash, Restart, Vanish, vars

\* So a step writes one row in one of five ways, or none.
LEMMA StepRows ==
  ASSUME [Next]_vars
  PROVE \/ UNCHANGED rows
        \/ \E c \in Callers : Recorded(c) \/ Refused(c)
        \/ \E p \in Consumers : Started(p) \/ Finished(p) \/ Errored(p)
BY CallerRows, ConsumerRows, ProcessRows DEF Next

-----------------------------------------------------------------------------
(* Attempts *)

\* mark_running meets a row that was never started, and nothing else counts an attempt.
LEMMA AttemptsPreserved ==
  ASSUME RowsOK, CallersInv, ConsumersInv, DispatchInv, StageInv, AttemptsInv, [Next]_vars
  PROVE AttemptsInv'
<1> USE DEF AttemptsInv, Counted
<1>1. CASE UNCHANGED rows
  BY <1>1 DEF rows
<1>2. ASSUME NEW c \in Callers, Recorded(c) \/ Refused(c) PROVE AttemptsInv'
  <2>1. job[c] \in Job
    BY <1>2, CallersWorking DEF Recorded, Refused, IdlePc
  <2>2. Recorded(c) => ledger[job[c]] = "absent"
    BY DEF DispatchInv, AtWork, Dispatching, Recorded, IdlePc
  <2>3. Refused(c) => ledger[job[c]] = "queued"
    BY DEF DispatchInv, AtWork, Dispatching, Refused, IdlePc, HasRow
  <2> QED BY <1>2, <2>1, <2>2, <2>3 DEF RowsOK, Recorded, Refused
<1>3. ASSUME NEW p \in Consumers, Started(p) \/ Finished(p) \/ Errored(p) PROVE AttemptsInv'
  <2>1. hold[p] \in Job
    BY <1>3, ConsumersWorking DEF Started, Finished, Errored, FreePc
  <2>2. HoldStage(p)
    BY DEF StageInv
  <2>3. CASE Started(p)
    BY <2>1, <2>2, <2>3 DEF RowsOK, Started, HoldStage
  <2>4. CASE Finished(p)
    BY <2>1, <2>2, <2>4 DEF RowsOK, Finished, HoldStage
  <2>5. CASE Errored(p)
    BY <2>1, <2>2, <2>5 DEF RowsOK, Errored, HoldStage
  <2> QED BY <1>3, <2>3, <2>4, <2>5
<1> QED BY StepRows, <1>1, <1>2, <1>3

-----------------------------------------------------------------------------
(* Owners *)

\* A caller's step moves one job at most: into a row, into the queue, or out of its hands.
LEMMA CallerOwns ==
  ASSUME CallersInv, NEW c \in Callers, CallerStart(c) \/ CallerStep(c)
  PROVE /\ \A d \in Callers \ {c} : pc'[d] = pc[d] /\ job'[d] = job[d]
        /\ UNCHANGED hold
        /\ \/ UNCHANGED queue
           \/ pc[c] = "put" /\ pc'[c] = "pend" /\ queue' = Append(queue, job[c])
        /\ HasRow(c)' => pc[c] \in {"record", "put"} /\ job'[c] = job[c]
<1>1. pc \in [Callers -> CallerPc] /\ job \in [Callers -> Job \cup {NoJob}]
  BY DEF CallersInv, CallersOK
<1>2. \A d \in Callers \ {c} : pc'[d] = pc[d] /\ job'[d] = job[d]
  BY <1>1 DEF CallerStart, CallerStep, Flush, Remember, EvolveNote, CreateRow, Put, AddPending, Reject,
       CountNotes, FlushTrue, FlushFalse, CallerFault, DispatchNext, Dispatch, CallerGoto, Return
<1>3. UNCHANGED hold
  BY CallerKeeps DEF consumer
<1>4. UNCHANGED queue \/ (pc[c] = "put" /\ pc'[c] = "pend" /\ queue' = Append(queue, job[c]))
  BY <1>1 DEF CallerStart, CallerStep, Flush, Remember, EvolveNote, CreateRow, Put, AddPending, Reject,
       CountNotes, FlushTrue, FlushFalse, CallerFault, CallerGoto, At, shared
<1>5. HasRow(c)' => pc[c] \in {"record", "put"} /\ job'[c] = job[c]
  BY <1>1 DEF CallerStart, CallerStep, Flush, Remember, EvolveNote, CreateRow, Put, AddPending, Reject,
       CountNotes, FlushTrue, FlushFalse, CallerFault, DispatchNext, Dispatch, CallerGoto, Return, At, HasRow
<1> QED BY <1>2, <1>3, <1>4, <1>5

\* A consumer takes the head of the queue with empty hands, or lets its job go, or moves nothing.
LEMMA ConsumerOwns ==
  ASSUME NEW p \in Consumers, ConsumerStep(p)
  PROVE \/ UNCHANGED <<queue, hold>>
        \/ /\ cpc[p] = "idle" /\ queue # <<>>
           /\ hold' = [hold EXCEPT ![p] = Head(queue)] /\ queue' = Tail(queue)
        \/ /\ cpc[p] \in {"done", "leave"} /\ UNCHANGED <<queue, ledger, lost>>
           /\ hold' = [hold EXCEPT ![p] = NoJob]
BY DEF ConsumerStep, Take, MarkRunning, FetchNote, Work, MarkTerminal, HandleError, TaskDone, shared, In, rows

\* A job that has no row yet is in nobody's hands and not in the queue.
LEMMA AbsentIsFree ==
  ASSUME TypeInv, StageInv, NEW j \in Job, ledger[j] = "absent"
  PROVE j \notin Queued /\ \A p \in Consumers : hold[p] # j
<1>1. j \notin Queued
  BY DEF StageInv, QueueStage, Queued
<1>2. ASSUME NEW p \in Consumers, hold[p] = j PROVE FALSE
  <2>1. cpc[p] \in ConsumerPc \ FreePc
    BY <1>2, PipelineAssumption DEF TypeInv, ConsumersInv, ConsumersOK
  <2>2. HoldStage(p)
    BY DEF StageInv
  <2> QED BY <1>2, <2>1, <2>2 DEF HoldStage, ConsumerPc, FreePc
<1> QED BY <1>1, <1>2

\* Taking the head of a queue without repetitions leaves the rest without it.
LEMMA TailOfDistinct ==
  ASSUME QueueOK, queue # <<>>, \A i, k \in DOMAIN queue : queue[i] = queue[k] => i = k
  PROVE /\ \A i, k \in DOMAIN Tail(queue) : Tail(queue)[i] = Tail(queue)[k] => i = k
        /\ Head(queue) \in Queued
        /\ \A i \in DOMAIN Tail(queue) : Tail(queue)[i] # Head(queue) /\ Tail(queue)[i] \in Queued
<1>1. /\ Len(queue) \in Nat /\ Len(queue) >= 1 /\ DOMAIN queue = 1..Len(queue)
      /\ DOMAIN Tail(queue) = 1..(Len(queue) - 1) /\ Head(queue) = queue[1]
  BY DEF QueueOK
<1>2. \A i \in DOMAIN Tail(queue) : Tail(queue)[i] = queue[i + 1] /\ i + 1 \in DOMAIN queue
  BY <1>1 DEF QueueOK
<1> QED BY <1>1, <1>2 DEF Queued

\* Appending a job that is not queued keeps the queue without repetitions.
LEMMA AppendDistinct ==
  ASSUME QueueOK, NEW x \in Job, x \notin Queued, \A i, k \in DOMAIN queue : queue[i] = queue[k] => i = k
  PROVE /\ \A i, k \in DOMAIN Append(queue, x) : Append(queue, x)[i] = Append(queue, x)[k] => i = k
        /\ {Append(queue, x)[i] : i \in DOMAIN Append(queue, x)} = Queued \cup {x}
<1>1. /\ Len(queue) \in Nat /\ DOMAIN queue = 1..Len(queue)
      /\ DOMAIN Append(queue, x) = 1..(Len(queue) + 1) /\ Append(queue, x)[Len(queue) + 1] = x
  BY DEF QueueOK
<1>2. \A i \in 1..Len(queue) : Append(queue, x)[i] = queue[i]
  BY DEF QueueOK
<1>3. \A i \in DOMAIN queue : queue[i] # x
  BY DEF Queued
<1>4. \A i, k \in DOMAIN Append(queue, x) : Append(queue, x)[i] = Append(queue, x)[k] => i = k
  BY <1>1, <1>2, <1>3
<1>5. {Append(queue, x)[i] : i \in DOMAIN Append(queue, x)} = Queued \cup {x}
  BY <1>1, <1>2 DEF Queued
<1> QED BY <1>4, <1>5

\* A job stays with one owner: what a thread gains was nobody else's.
LEMMA OwnerPreserved ==
  ASSUME TypeInv, DispatchInv, StageInv, OneOwner, [Next]_vars
  PROVE OneOwner'
<1>1. ASSUME UNCHANGED <<queue, hold>>, \A c \in Callers : HasRow(c)' => HasRow(c) /\ job'[c] = job[c]
      PROVE OneOwner'
  BY <1>1 DEF OneOwner, Queued
<1>2. ASSUME NEW c \in Callers, CallerStart(c) \/ CallerStep(c) PROVE OneOwner'
  <2>1. /\ \A d \in Callers \ {c} : pc'[d] = pc[d] /\ job'[d] = job[d]
        /\ UNCHANGED hold
        /\ HasRow(c)' => pc[c] \in {"record", "put"} /\ job'[c] = job[c]
    BY <1>2, CallerOwns DEF TypeInv
  <2>2. \A d \in Callers \ {c} : HasRow(d)' <=> HasRow(d)
    BY <2>1 DEF HasRow
  <2>3. CASE UNCHANGED queue /\ pc[c] # "record"
    <3>1. HasRow(c)' => HasRow(c)
      BY <2>1, <2>3 DEF HasRow
    <3> QED BY <1>1, <2>1, <2>2, <2>3, <3>1
  <2>4. CASE UNCHANGED queue /\ pc[c] = "record"
    <3>1. job[c] \in Job /\ ledger[job[c]] = "absent"
      BY <2>4, CallersWorking DEF TypeInv, DispatchInv, AtWork, Dispatching, IdlePc
    <3>2. job[c] \notin Queued /\ \A p \in Consumers : hold[p] # job[c]
      BY <3>1, AbsentIsFree
    <3>3. \A d \in Callers \ {c} : HasRow(d) => job[d] # job[c]
      BY <2>4 DEF DispatchInv, Apart, Dispatching, HasRow, IdlePc
    <3> QED BY <2>1, <2>2, <2>4, <3>2, <3>3 DEF OneOwner, Queued
  <2>5. CASE ~UNCHANGED queue
    <3>1. pc[c] = "put" /\ pc'[c] = "pend" /\ queue' = Append(queue, job[c])
      BY <1>2, <2>5, CallerOwns DEF TypeInv
    <3>2. job[c] \in Job /\ HasRow(c) /\ ~HasRow(c)' /\ job[c] # NoJob
      BY <3>1, CallersWorking, PipelineAssumption DEF TypeInv, IdlePc, HasRow
    <3>3. /\ job[c] \notin Queued
          /\ \A d \in Callers \ {c} : HasRow(d) => job[d] # job[c]
          /\ \A p \in Consumers : hold[p] # job[c]
      BY <3>2 DEF OneOwner
    <3>4. /\ Queued' = Queued \cup {job[c]}
          /\ \A i, k \in DOMAIN queue' : queue'[i] = queue'[k] => i = k
      BY <3>1, <3>2, <3>3, AppendDistinct DEF TypeInv, OneOwner, Queued
    <3> QED BY <2>1, <2>2, <3>2, <3>3, <3>4 DEF OneOwner
  <2> QED BY <2>3, <2>4, <2>5
<1>3. ASSUME NEW p \in Consumers, ConsumerStep(p) PROVE OneOwner'
  <2>1. UNCHANGED <<pc, job>> /\ \A c \in Callers : HasRow(c)' <=> HasRow(c)
    BY <1>3, ConsumerKeeps DEF caller, HasRow
  <2>2. CASE UNCHANGED <<queue, hold>>
    BY <1>1, <2>1, <2>2
  <2>3. CASE queue # <<>> /\ hold' = [hold EXCEPT ![p] = Head(queue)] /\ queue' = Tail(queue)
    <3>1. /\ \A i, k \in DOMAIN queue' : queue'[i] = queue'[k] => i = k
          /\ Head(queue) \in Queued /\ Head(queue) \notin Queued' /\ Queued' \subseteq Queued
      BY <2>3, TailOfDistinct DEF TypeInv, OneOwner, Queued
    <3>2. hold'[p] = Head(queue) /\ \A q \in Consumers \ {p} : hold'[q] = hold[q]
      BY <2>3 DEF TypeInv, ConsumersInv, ConsumersOK
    <3>3. \A q \in Consumers : hold[q] # Head(queue)
      BY <3>1, <2>3, PipelineAssumption DEF OneOwner, TypeInv, QueueOK
    <3>4. \A c \in Callers : HasRow(c) => job[c] # Head(queue)
      BY <3>1 DEF OneOwner
    <3> QED BY <2>1, <3>1, <3>2, <3>3, <3>4 DEF OneOwner
  <2>4. CASE UNCHANGED queue /\ hold' = [hold EXCEPT ![p] = NoJob]
    <3>1. hold'[p] = NoJob /\ \A q \in Consumers \ {p} : hold'[q] = hold[q]
      BY <2>4 DEF TypeInv, ConsumersInv, ConsumersOK
    <3> QED BY <2>1, <2>4, <3>1 DEF OneOwner, Queued
  <2> QED BY <1>3, <2>2, <2>3, <2>4, ConsumerOwns
<1>4. CASE (\E n \in Notes : DeleteNote(n)) \/ DrainReturn \/ BeginExit \/ CloseStore \/ Restart
  BY <1>1, <1>4 DEF DeleteNote, DrainReturn, BeginExit, CloseStore, Restart, shared, consumer, caller, HasRow
<1>5. CASE Vanish
  BY <1>5 DEF Vanish, OneOwner, HasRow, Queued
<1>6. CASE UNCHANGED vars
  BY <1>1, <1>6, Stutter DEF HasRow
<1> QED BY <1>2, <1>3, <1>4, <1>5, <1>6 DEF Next, ProcessStep, Exit, Crash

-----------------------------------------------------------------------------
(* Rows and stages *)

\* In the middle of its loop a consumer's job has a row that is there.
LEMMA HeldRow ==
  ASSUME TypeInv, StageInv, NEW p \in Consumers, hold[p] # NoJob
  PROVE cpc[p] \in ConsumerPc \ FreePc /\ hold[p] \in Job /\ ledger[hold[p]] # "absent"
<1>1. cpc[p] \in ConsumerPc \ FreePc /\ hold[p] \in Job
  BY DEF TypeInv, ConsumersInv, ConsumersOK
<1>2. HoldStage(p)
  BY DEF StageInv
<1> QED BY <1>1, <1>2 DEF HoldStage, ConsumerPc, FreePc

\* Where a consumer stands, what it holds and what it will report say what its row says, when
\* nobody else writes that row.
LEMMA HoldStageKept ==
  ASSUME TypeInv, NEW q \in Consumers, HoldStage(q), cpc'[q] = cpc[q], hold'[q] = hold[q], err'[q] = err[q],
         lost \subseteq lost', hold[q] # NoJob => ledger'[hold[q]] = ledger[hold[q]]
  PROVE HoldStage(q)'
<1>1. cpc[q] \notin FreePc <=> hold[q] # NoJob
  BY DEF TypeInv, ConsumersInv
<1> QED BY <1>1 DEF HoldStage, FreePc

\* What a step of a consumer does to its own place, job and outcome, apart from the row.
LEMMA ConsumerMoves ==
  ASSUME ConsumersInv, NEW p \in Consumers, ConsumerStep(p)
  PROVE /\ \A q \in Consumers \ {p} : cpc'[q] = cpc[q] /\ hold'[q] = hold[q] /\ err'[q] = err[q]
        /\ lost \subseteq lost'
<1>1. /\ cpc \in [Consumers -> ConsumerPc] /\ hold \in [Consumers -> Job \cup {NoJob}]
      /\ err \in [Consumers -> Codes]
  BY DEF ConsumersInv, ConsumersOK
<1>2. /\ \E l \in ConsumerPc : cpc' = [cpc EXCEPT ![p] = l]
      /\ \E h \in {hold'[p]} : hold' = [hold EXCEPT ![p] = h]
      /\ \E e \in {err'[p]} : err' = [err EXCEPT ![p] = e]
  <2>1. \E l \in ConsumerPc : cpc' = [cpc EXCEPT ![p] = l]
    BY <1>1 DEF ConsumerStep, Take, MarkRunning, FetchNote, Work, MarkTerminal, HandleError,
                TaskDone, StoreRaises, Goto, ConsumerPc
  <2>2. \E h \in {hold'[p]} : hold' = [hold EXCEPT ![p] = h]
    BY <1>1 DEF ConsumerStep, Take, MarkRunning, FetchNote, Work, MarkTerminal, HandleError, TaskDone
  <2>3. \E e \in {err'[p]} : err' = [err EXCEPT ![p] = e]
    BY <1>1 DEF ConsumerStep, Take, MarkRunning, FetchNote, Work, MarkTerminal, HandleError, TaskDone
  <2> QED BY <2>1, <2>2, <2>3
<1>3. lost \subseteq lost'
  BY DEF ConsumerStep, Take, MarkRunning, FetchNote, Work, MarkTerminal, HandleError, TaskDone, StoreRaises
<1> QED BY <1>1, <1>2, <1>3

\* Each step of a consumer leaves its row in the state its next place expects.
LEMMA ConsumerStage ==
  ASSUME TypeInv, StageInv, NEW p \in Consumers, ConsumerStep(p)
  PROVE HoldStage(p)'
<1>1. /\ cpc \in [Consumers -> ConsumerPc] /\ hold \in [Consumers -> Job \cup {NoJob}]
      /\ err \in [Consumers -> Codes] /\ ledger \in [Job -> LedgerState]
  BY DEF TypeInv, ConsumersInv, ConsumersOK, RowsOK
<1>2. HoldStage(p)
  BY DEF StageInv
<1>3. cpc[p] \notin FreePc => hold[p] \in Job
  BY ConsumersWorking DEF TypeInv
<1> USE DEF In, Goto, FreePc
<1>4. CASE Take(p)
  <2>1. 1 \in DOMAIN queue /\ Head(queue) = queue[1]
    BY <1>4 DEF Take, TypeInv, QueueOK
  <2>2. ledger[Head(queue)] = "queued"
    BY <2>1 DEF StageInv, QueueStage
  <2>3. cpc'[p] = "got" /\ hold'[p] = Head(queue) /\ err'[p] = "none" /\ UNCHANGED ledger
    BY <1>1, <1>4 DEF Take, rows
  <2> QED BY <2>2, <2>3 DEF HoldStage
<1>5. CASE MarkRunning(p)
  <2>1. cpc[p] = "got" /\ hold'[p] = hold[p] /\ err'[p] = err[p] /\ lost \subseteq lost'
    BY <1>5 DEF MarkRunning, StoreRaises
  <2>2. \/ cpc'[p] = "run" /\ ledger'[hold[p]] = "running"
        \/ cpc'[p] = "except" /\ UNCHANGED ledger
        \/ cpc'[p] = "leave" /\ UNCHANGED ledger /\ hold[p] \in lost'
    BY <1>1, <1>3, <1>5 DEF MarkRunning, StoreRaises
  <2> QED BY <1>2, <2>1, <2>2 DEF HoldStage
<1>6. CASE FetchNote(p)
  <2>1. cpc[p] = "run" /\ hold'[p] = hold[p] /\ err'[p] \in {err[p], "note_missing"} /\ UNCHANGED ledger
    BY <1>1, <1>6 DEF FetchNote, rows
  <2>2. cpc'[p] \in {"work", "finish", "except"} \/ (cpc'[p] = "leave" /\ hold[p] \in lost')
    BY <1>1, <1>6 DEF FetchNote, StoreRaises
  <2> QED BY <1>2, <2>1, <2>2 DEF HoldStage
<1>7. CASE Work(p)
  <2>1. cpc[p] = "work" /\ cpc'[p] = "finish" /\ hold'[p] = hold[p] /\ UNCHANGED ledger
        /\ err'[p] \in {"none", "job_failed"}
    BY <1>1, <1>7 DEF Work, rows
  <2> QED BY <1>2, <2>1 DEF HoldStage
<1>8. CASE MarkTerminal(p)
  <2>1. cpc[p] = "finish" /\ hold'[p] = hold[p] /\ err'[p] = err[p]
    BY <1>8 DEF MarkTerminal
  <2>2. \/ cpc'[p] = "done" /\ ledger'[hold[p]] \in {"succeeded", "failed"}
        \/ cpc'[p] = "except" /\ UNCHANGED ledger
        \/ cpc'[p] = "leave" /\ UNCHANGED ledger /\ hold[p] \in lost'
    BY <1>1, <1>3, <1>8 DEF MarkTerminal, StoreRaises
  <2> QED BY <1>2, <2>1, <2>2 DEF HoldStage
<1>9. CASE HandleError(p)
  <2>1. cpc[p] = "except" /\ hold'[p] = hold[p] /\ err'[p] = err[p]
    BY <1>9 DEF HandleError
  <2>2. \/ cpc'[p] = "done" /\ ledger'[hold[p]] = "failed"
        \/ cpc'[p] = "leave" /\ UNCHANGED ledger /\ hold[p] \in lost'
    BY <1>1, <1>3, <1>9 DEF HandleError
  <2> QED BY <1>2, <2>1, <2>2 DEF HoldStage
<1>10. CASE TaskDone(p)
  <2>1. cpc'[p] \in {"idle", "dead"} /\ err'[p] = err[p]
    BY <1>1, <1>10 DEF TaskDone
  <2> QED BY <1>2, <2>1 DEF HoldStage
<1> QED BY <1>4, <1>5, <1>6, <1>7, <1>8, <1>9, <1>10 DEF ConsumerStep

\* A store statement writes one row, that of the thread that issues it.
LEMMA StagePreserved ==
  ASSUME TypeInv, DispatchInv, StageInv, OneOwner, [Next]_vars
  PROVE StageInv'
<1>1. ledger \in [Job -> LedgerState] /\ \A i \in DOMAIN queue : queue[i] \in Job /\ queue[i] \in Queued
  BY DEF TypeInv, RowsOK, QueueOK, Queued
<1>2. ASSUME UNCHANGED <<queue, hold, err>>, lost \subseteq lost', UNCHANGED rows,
             \A p \in Consumers : cpc'[p] = cpc[p] \/ cpc'[p] \in FreePc
      PROVE StageInv'
  BY <1>2 DEF StageInv, QueueStage, HoldStage, FreePc, rows
<1>3. ASSUME NEW c \in Callers, CallerStart(c) \/ CallerStep(c) PROVE StageInv'
  <2>1. UNCHANGED <<hold, cpc, err>> /\ lost \subseteq lost'
    <3>1. lost \subseteq lost'
      BY <1>3 DEF CallerStart, CallerStep, Flush, Remember, EvolveNote, CreateRow, Put, AddPending, Reject,
         CountNotes, FlushTrue, FlushFalse, CallerFault
    <3> QED BY <1>3, <3>1, CallerKeeps DEF consumer
  <2>2. CASE UNCHANGED rows /\ UNCHANGED queue
    BY <1>2, <2>1, <2>2
  <2>3. CASE UNCHANGED rows /\ ~UNCHANGED queue
    <3>1. pc[c] = "put" /\ queue' = Append(queue, job[c])
      BY <1>3, <2>3, CallerOwns DEF TypeInv
    <3>2. job[c] \in Job /\ ledger[job[c]] = "queued"
      BY <3>1, CallersWorking DEF TypeInv, IdlePc, DispatchInv, AtWork, Dispatching, HasRow
    <3>3. QueueStage'
      BY <3>1, <3>2, <2>3 DEF TypeInv, QueueOK, StageInv, QueueStage, rows
    <3> QED BY <3>3, <2>1, <2>3, HoldStageKept DEF StageInv, rows
  <2>4. CASE Recorded(c) \/ Refused(c)
    <3>1. job[c] \in Job /\ UNCHANGED queue
      BY <1>3, <2>4, CallerOwns, CallersWorking DEF TypeInv, Recorded, Refused, IdlePc
    <3>2. job[c] \notin Queued /\ \A p \in Consumers : hold[p] # job[c]
      <4>1. CASE Recorded(c)
        BY <3>1, <4>1, AbsentIsFree DEF DispatchInv, AtWork, Dispatching, Recorded, IdlePc
      <4>2. CASE Refused(c)
        <5>1. HasRow(c) /\ job[c] # NoJob
          BY <3>1, <4>2, PipelineAssumption DEF Refused, HasRow
        <5> QED BY <5>1 DEF OneOwner
      <4> QED BY <2>4, <4>1, <4>2
    <3>3. \A j \in Job \ {job[c]} : ledger'[j] = ledger[j]
      BY <1>1, <2>4 DEF Recorded, Refused
    <3>4. \A p \in Consumers : hold[p] # NoJob => ledger'[hold[p]] = ledger[hold[p]]
      BY <3>2, <3>3 DEF TypeInv, ConsumersInv, ConsumersOK
    <3>5. QueueStage'
      BY <1>1, <3>1, <3>2, <3>3 DEF StageInv, QueueStage
    <3> QED BY <3>4, <3>5, <2>1, HoldStageKept DEF StageInv
  <2> QED BY <1>3, <2>2, <2>3, <2>4, CallerRows
<1>4. ASSUME NEW p \in Consumers, ConsumerStep(p) PROVE StageInv'
  <2>1. /\ \A q \in Consumers \ {p} : cpc'[q] = cpc[q] /\ hold'[q] = hold[q] /\ err'[q] = err[q]
        /\ lost \subseteq lost'
    BY <1>4, ConsumerMoves DEF TypeInv
  <2>2. \A j \in Job : j # hold[p] => ledger'[j] = ledger[j]
    BY <1>1, <1>4, ConsumerRows DEF rows, Started, Finished, Errored
  <2>3. \A q \in Consumers \ {p} : hold[q] # NoJob => ledger'[hold[q]] = ledger[hold[q]]
    BY <2>2 DEF OneOwner, TypeInv, ConsumersInv, ConsumersOK
  <2>4. \A q \in Consumers \ {p} : HoldStage(q)'
    BY <2>1, <2>3, HoldStageKept DEF StageInv
  <2>5. QueueStage'
    <3>1. CASE UNCHANGED queue
      <4>1. \A i \in DOMAIN queue : queue[i] # hold[p]
        BY <1>1, PipelineAssumption DEF OneOwner
      <4> QED BY <1>1, <2>2, <3>1, <4>1 DEF StageInv, QueueStage
    <3>2. CASE cpc[p] = "idle" /\ queue # <<>> /\ queue' = Tail(queue)
      <4>1. hold[p] = NoJob
        BY <3>2 DEF TypeInv, ConsumersInv, FreePc
      <4>2. \A i \in DOMAIN queue' : queue'[i] \in Queued
        BY <3>2, TailOfDistinct DEF OneOwner, TypeInv
      <4>3. \A j \in Queued : ledger'[j] = "queued"
        BY <1>1, <2>2, <4>1, PipelineAssumption DEF StageInv, QueueStage, Queued
      <4> QED BY <4>2, <4>3 DEF QueueStage
    <3> QED BY <1>4, <3>1, <3>2, ConsumerOwns
  <2> QED BY <1>4, <2>4, <2>5, ConsumerStage DEF StageInv
<1>5. CASE (\E n \in Notes : DeleteNote(n)) \/ CloseStore \/ UNCHANGED vars
  BY <1>2, <1>5 DEF DeleteNote, CloseStore, shared, consumer, vars
<1>6. CASE DrainReturn \/ BeginExit \/ Restart
  <2>1. cpc \in [Consumers -> ConsumerPc]
    BY DEF TypeInv, ConsumersInv, ConsumersOK
  <2> QED BY <1>2, <1>6, <2>1 DEF DrainReturn, BeginExit, Restart, shared, Goto, FreePc
<1>7. CASE Vanish
  BY <1>7 DEF Vanish, StageInv, QueueStage, HoldStage
<1> QED BY <1>3, <1>4, <1>5, <1>6, <1>7 DEF Next, ProcessStep, Exit, Crash

\* A job leaves a thread's hands for the queue, for another thread, settled, or given up for lost.
LEMMA NoRowPreserved ==
  ASSUME TypeInv, DispatchInv, StageInv, OneOwner, NoRowForgotten, [Next]_vars
  PROVE NoRowForgotten'
<1> DEFINE Owned(j) == \/ j \in lost
                       \/ j \in Queued
                       \/ \E p \in Consumers : hold[p] = j
                       \/ \E c \in Callers : HasRow(c) /\ job[c] = j
<1>1. ASSUME NEW j \in Job, Live(j) PROVE Owned(j)
  BY <1>1 DEF NoRowForgotten
<1>2. ledger \in [Job -> LedgerState]
  BY DEF TypeInv, RowsOK
<1>3. ASSUME UNCHANGED <<queue, hold, ledger, pc, job>>, lost \subseteq lost' PROVE NoRowForgotten'
  BY <1>3 DEF NoRowForgotten, Live, Queued, HasRow
<1>4. ASSUME NEW c \in Callers, CallerStart(c) \/ CallerStep(c) PROVE NoRowForgotten'
  <2>1. /\ \A d \in Callers \ {c} : pc'[d] = pc[d] /\ job'[d] = job[d]
        /\ UNCHANGED hold
    BY <1>4, CallerOwns DEF TypeInv
  <2>2. \A d \in Callers \ {c} : HasRow(d)' <=> HasRow(d)
    BY <2>1 DEF HasRow
  <2>3. lost \subseteq lost'
    BY <1>4 DEF CallerStart, CallerStep, Flush, Remember, EvolveNote, CreateRow, Put, AddPending, Reject,
       CountNotes, FlushTrue, FlushFalse, CallerFault
  <2>4. Queued \subseteq Queued'
    <3>1. CASE UNCHANGED queue
      BY <3>1 DEF Queued
    <3>2. CASE ~UNCHANGED queue
      <4>1. pc[c] = "put" /\ queue' = Append(queue, job[c])
        BY <1>4, <3>2, CallerOwns DEF TypeInv
      <4>2. job[c] \in Job /\ job[c] \notin Queued
        BY <4>1, CallersWorking DEF TypeInv, IdlePc, OneOwner, HasRow
      <4> QED BY <4>1, <4>2, AppendDistinct DEF TypeInv, OneOwner, Queued
    <3> QED BY <3>1, <3>2
  <2>5. \A j \in Job : Live(j)' => Live(j) \/ (Recorded(c) /\ j = job[c])
    BY <1>2, <1>4, CallerRows DEF Live, rows, Recorded, Refused
  <2>6. ASSUME NEW j \in Job, HasRow(c), job[c] = j
        PROVE (HasRow(c)' /\ job'[c] = j) \/ j \in Queued' \/ j \in lost' \/ ~Live(j)'
    <3>1. job[c] \in Job /\ pc \in [Callers -> CallerPc] /\ pc[c] \in {"put", "reject"}
      BY <2>6, CallersWorking DEF TypeInv, IdlePc, HasRow, CallersInv, CallersOK
    <3>2. Put(c) \/ Reject(c)
      BY <1>4, <3>1 DEF CallerStart, CallerStep, Flush, Remember, EvolveNote, CreateRow, AddPending,
         CountNotes, FlushTrue, FlushFalse, At
    <3>3. CASE Put(c) /\ UNCHANGED queue
      <4>1. pc' = [pc EXCEPT ![c] = "reject"] /\ UNCHANGED job
        <5>1. CASE Len(queue) < QueueMax
          BY <5>1, <3>1, <3>3 DEF Put, TypeInv, QueueOK
        <5> QED BY <5>1, <3>3 DEF Put, CallerGoto
      <4> QED BY <2>6, <3>1, <4>1 DEF HasRow
    <3>4. CASE Put(c) /\ ~UNCHANGED queue
      <4>1. queue' = Append(queue, job[c])
        BY <3>4 DEF Put
      <4> QED BY <2>6, <3>1, <4>1, AppendDistinct DEF TypeInv, OneOwner, Queued, HasRow
    <3>5. CASE Reject(c)
      BY <1>2, <2>6, <3>1, <3>5 DEF Reject, CallerFault, Live
    <3> QED BY <3>2, <3>3, <3>4, <3>5
  <2>7. ASSUME Recorded(c) PROVE HasRow(c)' /\ job'[c] = job[c]
    <3>1. CreateRow(c) /\ ledger' # ledger
      <4>1. job[c] \in Job /\ ledger[job[c]] = "absent" /\ pc[c] = "record"
        BY <2>7, CallersWorking DEF TypeInv, Recorded, IdlePc, DispatchInv, AtWork, Dispatching
      <4>2. ledger' # ledger
        BY <1>2, <2>7, <4>1 DEF Recorded
      <4> QED BY <1>4, <4>1, <4>2 DEF CallerStart, CallerStep, Flush, Remember, EvolveNote, Put, AddPending,
         Reject, CountNotes, FlushTrue, FlushFalse, At
    <3> QED BY <3>1 DEF CreateRow, CallerGoto, HasRow, TypeInv, CallersInv, CallersOK, CallerFault, rows
  <2>8. ASSUME NEW j \in Job, Live(j)' PROVE Owned(j)'
    <3>1. CASE Recorded(c) /\ j = job[c]
      BY <2>7, <3>1
    <3>2. CASE Live(j)
      <4>1. CASE HasRow(c) /\ job[c] = j
        BY <2>6, <2>8, <4>1
      <4>2. CASE ~(HasRow(c) /\ job[c] = j)
        BY <1>1, <2>1, <2>2, <2>3, <2>4, <3>2, <4>2
      <4> QED BY <4>1, <4>2
    <3> QED BY <2>5, <2>8, <3>1, <3>2
  <2> QED BY <2>8 DEF NoRowForgotten
<1>5. ASSUME NEW p \in Consumers, ConsumerStep(p) PROVE NoRowForgotten'
  <2>1. UNCHANGED <<pc, job>> /\ \A c \in Callers : HasRow(c)' <=> HasRow(c)
    BY <1>5, ConsumerKeeps DEF caller, HasRow
  <2>2. /\ \A q \in Consumers \ {p} : hold'[q] = hold[q]
        /\ lost \subseteq lost'
    BY <1>5, ConsumerMoves DEF TypeInv
  <2>3. \A j \in Job : Live(j)' => Live(j)
    <3>1. ASSUME hold[p] \in Job PROVE cpc[p] \in {"got", "finish", "except"} => Live(hold[p])
      BY DEF StageInv, HoldStage, Live
    <3>2. cpc[p] \notin FreePc => hold[p] \in Job
      BY ConsumersWorking DEF TypeInv
    <3>3. UNCHANGED ledger \/ (cpc[p] \in {"got", "finish", "except"} /\ \A j \in Job : j # hold[p] => ledger'[j] = ledger[j])
      BY <1>2, <1>5, ConsumerRows DEF rows, Started, Finished, Errored
    <3> QED BY <3>1, <3>2, <3>3 DEF Live, FreePc
  <2>4. hold \in [Consumers -> Job \cup {NoJob}]
    BY DEF TypeInv, ConsumersInv, ConsumersOK
  <2>5. CASE UNCHANGED <<queue, hold>>
    BY <1>1, <2>1, <2>2, <2>3, <2>5 DEF NoRowForgotten, Queued
  <2>6. CASE cpc[p] = "idle" /\ queue # <<>> /\ hold' = [hold EXCEPT ![p] = Head(queue)] /\ queue' = Tail(queue)
    <3>1. hold[p] = NoJob /\ hold'[p] = Head(queue)
      BY <2>4, <2>6 DEF TypeInv, ConsumersInv, FreePc
    <3>2. Queued \subseteq Queued' \cup {Head(queue)}
      <4>1. /\ Len(queue) \in Nat /\ DOMAIN queue = 1..Len(queue) /\ Head(queue) = queue[1]
            /\ DOMAIN Tail(queue) = 1..(Len(queue) - 1)
            /\ \A i \in 1..(Len(queue) - 1) : Tail(queue)[i] = queue[i + 1]
        BY <2>6 DEF TypeInv, QueueOK
      <4>2. ASSUME NEW i \in DOMAIN queue, i # 1 PROVE queue[i] \in Queued'
        <5>1. i - 1 \in DOMAIN Tail(queue) /\ Tail(queue)[i - 1] = queue[i]
          BY <4>1, <4>2
        <5> QED BY <5>1, <2>6 DEF Queued
      <4> QED BY <4>1, <4>2 DEF Queued
    <3>3. ASSUME NEW j \in Job, Live(j) PROVE Owned(j)'
      BY <1>1, <2>1, <2>2, <3>1, <3>2, <3>3, PipelineAssumption
    <3> QED BY <2>3, <3>3 DEF NoRowForgotten
  <2>7. CASE cpc[p] \in {"done", "leave"} /\ UNCHANGED <<queue, ledger, lost>> /\ hold' = [hold EXCEPT ![p] = NoJob]
    <3>1. hold[p] \in lost \/ ~Live(hold[p])
      BY <2>7 DEF StageInv, HoldStage, Live
    <3>2. Queued' = Queued
      BY <2>7 DEF Queued
    <3>3. ASSUME NEW j \in Job, Live(j) PROVE Owned(j)'
      BY <1>1, <2>1, <2>2, <3>1, <3>2, <3>3
    <3> QED BY <2>3, <3>3 DEF NoRowForgotten
  <2> QED BY <1>5, <2>5, <2>6, <2>7, ConsumerOwns
<1>6. CASE (\E n \in Notes : DeleteNote(n)) \/ DrainReturn \/ BeginExit \/ CloseStore \/ Restart
  BY <1>3, <1>6 DEF DeleteNote, DrainReturn, BeginExit, CloseStore, Restart, shared, consumer, caller, rows
<1>7. CASE Vanish
  BY <1>7 DEF Vanish, NoRowForgotten, LiveJobs, Live, rows
<1>8. CASE UNCHANGED vars
  BY <1>3, <1>8, Stutter
<1> QED BY <1>4, <1>5, <1>6, <1>7, <1>8 DEF Next, ProcessStep, Exit, Crash

-----------------------------------------------------------------------------
(* Dispatch *)

\* What a caller's step may do to the rows and the notes does not disturb another caller.
LEMMA OthersAtWork ==
  ASSUME CallersInv, DispatchInv, NEW c \in Callers, NEW d \in Callers, c # d,
         pc'[d] = pc[d], job'[d] = job[d],
         \A n \in Notes : note[n] # "new" => note'[n] # "new",
         \/ UNCHANGED ledger
         \/ Dispatching(c) /\ \A j \in Job : j # job[c] => ledger'[j] = ledger[j]
  PROVE AtWork(d)'
<1>1. CASE ~Dispatching(d)
  BY <1>1 DEF AtWork, Dispatching
<1>2. CASE Dispatching(d)
  <2>1. job[d] \in Job /\ job[d].note \in Notes
    BY <1>2, CallersWorking DEF Dispatching
  <2>2. AtWork(d) /\ Apart(c, d)
    BY DEF DispatchInv
  <2>3. CASE UNCHANGED ledger
    BY <1>2, <2>1, <2>2, <2>3 DEF AtWork, Dispatching, HasRow
  <2>4. CASE Dispatching(c) /\ \A j \in Job : j # job[c] => ledger'[j] = ledger[j]
    <3>1. ledger'[job[d]] = ledger[job[d]]
      BY <1>2, <2>1, <2>2, <2>4 DEF Apart
    <3>2. ASSUME NEW j \in Job, j.note = job[d].note, j.kind \in Later(job[d].kind)
          PROVE ledger'[j] = "absent"
      <4>1. j # job[c]
        BY <1>2, <2>2, <2>4, <3>2 DEF Apart, Later
      <4> QED BY <1>2, <2>2, <2>4, <3>2, <4>1 DEF AtWork
    <3> QED BY <1>2, <2>1, <2>2, <3>1, <3>2 DEF AtWork, Dispatching, HasRow
  <2> QED BY <2>3, <2>4
<1> QED BY <1>1, <1>2

\* DispatchInv holds after a step of c that disturbs nobody else and leaves c's own part right.
LEMMA DispatchBy ==
  ASSUME CallersInv, DispatchInv, NEW c \in Callers,
         \A d \in Callers \ {c} : pc'[d] = pc[d] /\ job'[d] = job[d],
         \A n \in Notes : note[n] # "new" => note'[n] # "new",
         \/ UNCHANGED ledger
         \/ Dispatching(c) /\ \A j \in Job : j # job[c] => ledger'[j] = ledger[j],
         AtWork(c)',
         \A d \in Callers \ {c} : Dispatching(d) /\ Dispatching(c)' =>
            /\ job[d] # job'[c]
            /\ job[d].note = job'[c].note => job[d].kind = "evolve_note" \/ job'[c].kind = "evolve_note"
  PROVE DispatchInv'
<1>1. FreshNotes'
  <2>1. ASSUME NEW j \in Job, note'[j.note] = "new" PROVE ledger'[j] = "absent"
    <3>1. note[j.note] = "new" /\ ledger[j] = "absent"
      BY <2>1 DEF Job, DispatchInv, FreshNotes
    <3>2. Dispatching(c) => job[c] # j
      BY <3>1 DEF DispatchInv, AtWork
    <3> QED BY <3>1, <3>2
  <2> QED BY <2>1 DEF FreshNotes
<1>2. \A d \in Callers : AtWork(d)'
  BY OthersAtWork
<1>3. ASSUME NEW d \in Callers, NEW e \in Callers, d # e PROVE Apart(d, e)'
  <2>1. CASE d # c /\ e # c
    BY <1>3, <2>1 DEF DispatchInv, Apart, Dispatching
  <2>2. CASE d = c
    BY <1>3, <2>2 DEF Apart, Dispatching
  <2>3. CASE e = c
    BY <1>3, <2>3 DEF Apart, Dispatching
  <2> QED BY <2>1, <2>2, <2>3
<1> QED BY <1>1, <1>2, <1>3 DEF DispatchInv

\* A caller that stops being busy, or goes on with the same job, keeps apart from the others.
LEMMA SameJobApart ==
  ASSUME DispatchInv, NEW c \in Callers, Dispatching(c)' => Dispatching(c) /\ job'[c] = job[c],
         NEW d \in Callers \ {c}, Dispatching(d), Dispatching(c)'
  PROVE /\ job[d] # job'[c]
        /\ job[d].note = job'[c].note => job[d].kind = "evolve_note" \/ job'[c].kind = "evolve_note"
BY DEF DispatchInv, Apart

\* The next kind of the same remember() has no row and nobody else dispatches it.
LEMMA NextKind ==
  ASSUME CallersInv, DispatchInv, NEW c \in Callers, Dispatching(c),
         NEW k \in Later(job[c].kind), NEW j \in Job, j = [note |-> job[c].note, kind |-> k]
  PROVE /\ note[j.note] # "new" /\ ledger[j] = "absent" /\ j # job[c]
        /\ \A i \in Job : i.note = j.note /\ i.kind \in Later(k) => ledger[i] = "absent"
        /\ \A d \in Callers \ {c} : Dispatching(d) =>
             job[d] # j /\ (job[d].note = j.note => job[d].kind = "evolve_note")
<1>1. j.note = job[c].note /\ j.kind = k /\ k \in Kinds \ {"evolve_note"} /\ job[c].kind # "evolve_note"
  BY DEF Later, Kinds
<1>2. AtWork(c) /\ \A d \in Callers \ {c} : Apart(c, d)
  BY DEF DispatchInv
<1>3. Later(k) \subseteq Later(job[c].kind) /\ k # job[c].kind
  BY DEF Later
<1> QED BY <1>1, <1>2, <1>3 DEF AtWork, Apart

\* A caller works through the kinds of its note in order, each with a row of its own.
LEMMA CallerDispatches ==
  ASSUME TypeInv, DispatchInv, NEW c \in Callers, CallerStart(c) \/ CallerStep(c)
  PROVE DispatchInv'
<1> USE DEF TypeInv
<1>1. /\ pc \in [Callers -> CallerPc] /\ job \in [Callers -> Job \cup {NoJob}]
      /\ note \in [Notes -> {"new", "stored", "deleted"}] /\ ledger \in [Job -> LedgerState]
  BY DEF CallersInv, CallersOK, RowsOK
<1>2. /\ \A d \in Callers \ {c} : pc'[d] = pc[d] /\ job'[d] = job[d]
  BY CallerOwns
<1>3. \A n \in Notes : note[n] # "new" => note'[n] # "new"
  BY <1>1 DEF CallerStart, CallerStep, Flush, Remember, EvolveNote, CreateRow, Put, AddPending, Reject,
       CountNotes, FlushTrue, FlushFalse, CallerFault
<1>4. \/ UNCHANGED ledger
      \/ Dispatching(c) /\ \A j \in Job : j # job[c] => ledger'[j] = ledger[j]
  BY <1>1, CallerRows DEF rows, Recorded, Refused, Dispatching, IdlePc
<1>5. AtWork(c)
  BY DEF DispatchInv
<1>6. ASSUME ~Dispatching(c)' PROVE DispatchInv'
  <2>1. AtWork(c)'
    BY <1>6 DEF AtWork
  <2> QED BY <1>2, <1>3, <1>4, <1>6, <2>1, DispatchBy
<1>7. ASSUME Return(c) PROVE ~Dispatching(c)'
  BY <1>1, <1>7 DEF Return, CallerGoto, Dispatching, IdlePc
<1>8. ASSUME AtWork(c)', Dispatching(c), job'[c] = job[c] PROVE DispatchInv'
  BY <1>2, <1>3, <1>4, <1>8, DispatchBy, SameJobApart
<1>9. ASSUME Dispatching(c), NEW k \in Later(job[c].kind), Dispatch(c, [note |-> job[c].note, kind |-> k]),
             UNCHANGED note, \A j \in Job : j # job[c] => ledger'[j] = ledger[j]
      PROVE DispatchInv'
  <2> DEFINE j == [note |-> job[c].note, kind |-> k]
  <2>1. job[c].note \in Notes /\ k \in Kinds
    BY <1>9, CallersWorking DEF Dispatching, Later, Kinds
  <2>2. j \in Job /\ j.note = job[c].note /\ j.kind = k
    BY <2>1 DEF Job
  <2>3. pc'[c] = "record" /\ job'[c] = j
    BY <1>1, <1>9 DEF Dispatch, CallerGoto
  <2> HIDE DEF j
  <2>4. /\ note[j.note] # "new" /\ ledger[j] = "absent" /\ j # job[c]
        /\ \A i \in Job : i.note = j.note /\ i.kind \in Later(k) => ledger[i] = "absent"
        /\ \A d \in Callers \ {c} : Dispatching(d) =>
             job[d] # j /\ (job[d].note = j.note => job[d].kind = "evolve_note")
    BY <1>9, <2>2, NextKind DEF j
  <2>5. \A i \in Job : i.kind \in Later(k) /\ i.note = j.note => i # job[c]
    BY <1>9 DEF Later
  <2>6. AtWork(c)'
    BY <1>9, <2>2, <2>3, <2>4, <2>5 DEF AtWork, HasRow
  <2> QED BY <1>2, <1>3, <1>4, <2>3, <2>4, <2>6, DispatchBy
<1>10. ASSUME Dispatching(c), DispatchNext(c), UNCHANGED note, \A j \in Job : j # job[c] => ledger'[j] = ledger[j]
       PROVE DispatchInv'
  <2>1. CASE job[c].kind = "causal_extraction" /\ Dispatch(c, [note |-> job[c].note, kind |-> "llm_ner"])
    BY <1>9, <1>10, <2>1 DEF Later
  <2>2. CASE job[c].kind \in {"causal_extraction", "llm_ner"} /\ CallerGoto(c, "count") /\ UNCHANGED job
    <3>1. pc'[c] = "count" /\ job'[c] = job[c] /\ job[c] \in Job
      BY <1>1, <1>10, <2>2, CallersWorking DEF CallerGoto, Dispatching
    <3>2. \A j \in Job : j.kind \in Later(job[c].kind) => j # job[c]
      BY <2>2 DEF Later
    <3>3. AtWork(c)'
      BY <1>5, <1>10, <2>2, <3>1, <3>2 DEF AtWork, HasRow, Dispatching
    <3> QED BY <1>8, <1>10, <3>1, <3>3
  <2>3. CASE Return(c)
    BY <1>6, <1>7, <2>3
  <2> QED BY <1>10, <2>1, <2>2, <2>3 DEF DispatchNext
<1>11. ASSUME NEW n \in Notes, Remember(c, n) PROVE DispatchInv'
  <2> DEFINE j == [note |-> n, kind |-> "causal_extraction"]
  <2>1. j \in Job /\ j.note = n /\ j.kind = "causal_extraction" /\ pc'[c] = "record" /\ job'[c] = j
        /\ UNCHANGED ledger /\ note[n] = "new" /\ note'[n] = "stored"
    BY <1>1, <1>11, MadeJob DEF Remember, Dispatch, CallerGoto, Kinds, rows
  <2> HIDE DEF j
  <2>2. \A i \in Job : i.note = n => ledger[i] = "absent"
    BY <2>1 DEF DispatchInv, FreshNotes
  <2>3. AtWork(c)'
    BY <2>1, <2>2 DEF AtWork, HasRow
  <2>4. \A d \in Callers \ {c} : Dispatching(d) => job[d].note # n
    BY <2>1 DEF DispatchInv, AtWork
  <2> QED BY <1>2, <1>3, <2>1, <2>3, <2>4, DispatchBy
<1>12. ASSUME NEW n \in Notes, EvolveNote(c, n) PROVE DispatchInv'
  <2> DEFINE j == [note |-> n, kind |-> "evolve_note"]
  <2>1. j \in Job /\ j.note = n /\ j.kind = "evolve_note" /\ pc'[c] = "record" /\ job'[c] = j
        /\ UNCHANGED <<ledger, note>> /\ note[n] = "stored" /\ ledger[j] = "absent"
        /\ \A d \in Callers : job[d] # j
    BY <1>1, <1>12, MadeJob DEF EvolveNote, Dispatch, CallerGoto, Kinds, rows
  <2> HIDE DEF j
  <2>2. AtWork(c)'
    BY <2>1 DEF AtWork, HasRow, Later
  <2> QED BY <1>2, <1>3, <2>1, <2>2, DispatchBy
<1>13. CASE Flush(c)
  BY <1>1, <1>6, <1>13 DEF Flush, CallerGoto, Dispatching, IdlePc
<1>14. CASE FlushTrue(c) \/ FlushFalse(c)
  BY <1>6, <1>7, <1>14 DEF FlushTrue, FlushFalse
<1>15. CASE CreateRow(c)
  <2>1. CASE CallerFault(c)
    BY <1>6, <1>7, <2>1 DEF CallerFault
  <2>2. CASE ~CallerFault(c)
    <3>1. /\ Dispatching(c) /\ pc'[c] = "put" /\ job'[c] = job[c] /\ UNCHANGED note /\ job[c] \in Job
          /\ ledger' = [ledger EXCEPT ![job[c]] = "queued"]
      BY <1>1, <1>15, <2>2, CallersWorking DEF CreateRow, At, CallerGoto, Dispatching, IdlePc
    <3>2. \A j \in Job : j.kind \in Later(job[c].kind) => j # job[c]
      BY DEF Later
    <3>3. AtWork(c)'
      BY <1>1, <1>5, <3>1, <3>2 DEF AtWork
    <3> QED BY <1>8, <3>1, <3>3
  <2> QED BY <2>1, <2>2
<1>16. CASE Put(c)
  <2>1. /\ Dispatching(c) /\ HasRow(c) /\ job'[c] = job[c] /\ UNCHANGED <<note, ledger>>
        /\ pc'[c] \in {"pend", "reject"}
    BY <1>1, <1>16 DEF Put, At, CallerGoto, Dispatching, IdlePc, HasRow, rows
  <2>2. AtWork(c)'
    BY <1>5, <2>1 DEF AtWork
  <2> QED BY <1>8, <2>1, <2>2
<1>17. CASE AddPending(c)
  BY <1>10, <1>17 DEF AddPending, At, Dispatching, IdlePc, rows
<1>18. CASE Reject(c)
  <2>1. CASE CallerFault(c)
    BY <1>6, <1>7, <2>1 DEF CallerFault
  <2>2. CASE ~CallerFault(c)
    BY <1>1, <1>10, <1>18, <2>2 DEF Reject, At, Dispatching, IdlePc
  <2> QED BY <2>1, <2>2
<1>19. CASE CountNotes(c)
  <2>1. Dispatching(c) /\ UNCHANGED <<note, ledger>> /\ "neighbor_evolution" \in Later(job[c].kind)
    BY <1>5, <1>19 DEF CountNotes, CallerFault, At, Dispatching, IdlePc, rows, AtWork, Later
  <2>2. Return(c) \/ Dispatch(c, [note |-> job[c].note, kind |-> "neighbor_evolution"])
    BY <1>19 DEF CountNotes, CallerFault
  <2> QED BY <1>6, <1>7, <1>9, <2>1, <2>2
<1> QED BY <1>11, <1>12, <1>13, <1>14, <1>15, <1>16, <1>17, <1>18, <1>19 DEF CallerStart, CallerStep

\* Consumers only touch rows that no dispatch is waiting for; the process sends callers home.
LEMMA DispatchPreserved ==
  ASSUME TypeInv, DispatchInv, StageInv, OneOwner, [Next]_vars
  PROVE DispatchInv'
<1>1. ASSUME UNCHANGED <<pc, job, ledger>>, \A n \in Notes : note[n] # "new" => note'[n] # "new"
      PROVE DispatchInv'
  <2>1. FreshNotes'
    BY <1>1 DEF DispatchInv, FreshNotes, Job
  <2>2. ASSUME NEW c \in Callers PROVE AtWork(c)'
    BY <1>1, CallersWorking DEF TypeInv, DispatchInv, AtWork, Dispatching, HasRow
  <2> QED BY <1>1, <2>1, <2>2 DEF DispatchInv, Apart, Dispatching
<1>2. ASSUME NEW p \in Consumers, ConsumerStep(p) PROVE DispatchInv'
  <2>1. UNCHANGED <<note, pc, job>> /\ \A c \in Callers : HasRow(c)' <=> HasRow(c)
    BY <1>2, ConsumerKeeps DEF caller, HasRow
  <2>2. CASE UNCHANGED rows
    BY <1>1, <2>1, <2>2 DEF rows
  <2>3. CASE Started(p) \/ Finished(p) \/ Errored(p)
    <3>1. hold[p] \in Job /\ hold[p] # NoJob
      BY <2>3, ConsumersWorking, PipelineAssumption DEF TypeInv, Started, Finished, Errored, FreePc
    <3>2. ledger[hold[p]] # "absent"
      BY <3>1, HeldRow
    <3>3. \A j \in Job : j # hold[p] => ledger'[j] = ledger[j]
      BY <2>3 DEF Started, Finished, Errored, TypeInv, RowsOK
    <3>4. \A j \in Job : ledger[j] = "absent" => ledger'[j] = "absent"
      BY <3>2, <3>3
    <3>5. \A c \in Callers : HasRow(c) => job[c] # hold[p]
      BY <3>1 DEF OneOwner
    <3>6. FreshNotes'
      BY <2>1, <3>4 DEF DispatchInv, FreshNotes
    <3>7. ASSUME NEW c \in Callers PROVE AtWork(c)'
      <4>1. Dispatching(c) => job[c] \in Job
        BY CallersWorking DEF TypeInv, Dispatching
      <4> QED BY <2>1, <3>3, <3>4, <3>5, <4>1 DEF DispatchInv, AtWork, Dispatching, HasRow
    <3> QED BY <2>1, <3>6, <3>7 DEF DispatchInv, Apart, Dispatching
  <2> QED BY <1>2, <2>2, <2>3, ConsumerRows
<1>3. CASE (\E n \in Notes : DeleteNote(n)) \/ DrainReturn \/ BeginExit \/ CloseStore \/ Restart
  <2>1. UNCHANGED <<pc, job, ledger>>
    BY <1>3 DEF DeleteNote, DrainReturn, BeginExit, CloseStore, Restart, caller, rows
  <2>2. \A n \in Notes : note[n] # "new" => note'[n] # "new"
    BY <1>3 DEF DeleteNote, DrainReturn, BeginExit, CloseStore, Restart, TypeInv, RowsOK
  <2> QED BY <1>1, <2>1, <2>2
<1>4. CASE Vanish
  BY <1>4 DEF Vanish, DispatchInv, FreshNotes, AtWork, Apart, Dispatching, IdlePc, rows
<1>5. CASE UNCHANGED vars
  BY <1>1, <1>5, Stutter
<1> QED BY CallerDispatches, <1>2, <1>3, <1>4, <1>5 DEF Next, ProcessStep, Exit, Crash

-----------------------------------------------------------------------------
(* The inductive invariant and what follows from it *)

\* A new process on an empty database satisfies the invariant.
LEMMA PipelineInvInit == Init => PipelineInv
<1> SUFFICES ASSUME Init PROVE PipelineInv
  OBVIOUS
<1> USE PipelineAssumption DEF Init
<1>1. RowsOK /\ QueueOK
  BY DEF RowsOK, QueueOK, LedgerState, Codes
<1>2. CallersInv
  BY DEF CallersInv, CallersOK, CallerPc, IdlePc
<1>3. ConsumersInv
  BY DEF ConsumersInv, ConsumersOK, ConsumerPc, FreePc, Codes, Consumers
<1>4. ProcessOK /\ ProcessInv
  BY DEF ProcessOK, ProcessInv, Consumers
<1>5. UnfinishedExact
  BY DEF UnfinishedExact, Busy, Consumers
<1>6. DispatchInv
  BY DEF DispatchInv, FreshNotes, AtWork, Apart, Dispatching, IdlePc
<1>7. StageInv /\ AttemptsInv
  BY DEF StageInv, QueueStage, HoldStage, AttemptsInv, Counted, Consumers
<1>8. OneOwner
  BY DEF OneOwner, HasRow, Queued
<1>9. NoRowForgotten
  BY DEF NoRowForgotten, Live
<1> QED BY <1>1, <1>2, <1>3, <1>4, <1>5, <1>6, <1>7, <1>8, <1>9 DEF PipelineInv, TypeInv

\* The invariant is inductive: each part by its own lemma about one step.
LEMMA PipelineInvCorrect == Spec => []PipelineInv
<1>1. PipelineInv /\ [Next]_vars => PipelineInv'
  <2> SUFFICES ASSUME PipelineInv, [Next]_vars PROVE PipelineInv'
    OBVIOUS
  <2> USE DEF PipelineInv
  <2>1. TypeInv'
    BY CallersPreserved, ConsumersPreserved, QueuePreserved, RowsPreserved, ProcessPreserved DEF TypeInv
  <2>2. AttemptsInv'
    BY AttemptsPreserved DEF TypeInv
  <2> QED BY <2>1, <2>2, UnfinishedPreserved, DispatchPreserved, StagePreserved, OwnerPreserved, NoRowPreserved
<1> QED BY PipelineInvInit, <1>1, PTL DEF Spec

\* A job is in one place: with the caller that recorded it, once in the queue, or with one of the
\* two consumers, although worker and drain run side by side while the process exits.
THEOREM OwnerCorrect == Spec => []OneOwner
<1>1. PipelineInv => OneOwner
  BY DEF PipelineInv
<1> QED BY <1>1, PipelineInvCorrect, PTL

\* A row that is queued or running belongs to a thread that will settle it, unless the process
\* stopped, the store closed under a consumer, or the settling statement itself raised.
THEOREM NoRowForgottenCorrect == Spec => []NoRowForgotten
<1>1. PipelineInv => NoRowForgotten
  BY DEF PipelineInv
<1> QED BY <1>1, PipelineInvCorrect, PTL

\* The ledger tells the truth about execution: mark_running happens at most once per job, across
\* consumers and restarts; a refused job never ran; an outcome of the handler means it did run.
THEOREM RowTruthCorrect == Spec => []RowTruth
<1>1. PipelineInv => RowTruth
  <2> SUFFICES ASSUME PipelineInv, NEW j \in Job
               PROVE /\ attempts[j] <= 1
                     /\ ledger[j] \in {"running", "succeeded"} => attempts[j] = 1
                     /\ code[j] = "queue_full" => ledger[j] = "failed" /\ attempts[j] = 0
                     /\ code[j] \in {"note_missing", "job_failed"} => ledger[j] = "failed" /\ attempts[j] = 1
    BY DEF RowTruth
  <2>1. Counted(j) /\ ledger[j] \in LedgerState
    BY DEF PipelineInv, AttemptsInv, TypeInv, RowsOK
  <2> QED BY <2>1 DEF Counted, LedgerState, Terminal
<1> QED BY <1>1, PipelineInvCorrect, PTL

-----------------------------------------------------------------------------
(* Steps *)

\* unfinished_tasks at zero means an empty queue and consumers with empty hands.
LEMMA NothingUnfinished ==
  ASSUME QueueOK, UnfinishedExact, unfinished = 0
  PROVE Queued = {} /\ \A p \in Consumers : hold[p] = NoJob
<1>1. Len(queue) \in Nat /\ Busy("worker") \in {0, 1} /\ Busy("drain") \in {0, 1}
  BY DEF QueueOK, Busy
<1>2. Len(queue) = 0 /\ Busy("worker") = 0 /\ Busy("drain") = 0
  BY <1>1 DEF UnfinishedExact
<1>3. \A p \in Consumers : hold[p] = NoJob
  BY <1>2 DEF Busy, Consumers
<1>4. DOMAIN queue = {}
  BY <1>2 DEF QueueOK
<1> QED BY <1>3, <1>4 DEF Queued

\* When a flush() without timeout returns, every job put so far is terminal in the ledger, but
\* for what was given up for lost and what its caller has recorded and not put yet.
THEOREM FlushBarrierCorrect == Spec => FlushBarrier
<1> DEFINE Barrier == \A c \in Callers : pc[c] = "flush" /\ pc'[c] = "idle" /\ phase' = "up" =>
                        \A j \in LiveJobs : j \in lost \/ \E d \in Callers : HasRow(d) /\ job[d] = j
<1>1. PipelineInv /\ [Next]_vars => [Barrier]_vars
  <2> SUFFICES ASSUME PipelineInv, Next, NEW c \in Callers, pc[c] = "flush", pc'[c] = "idle", phase' = "up",
                      NEW j \in LiveJobs
               PROVE j \in lost \/ \E d \in Callers : HasRow(d) /\ job[d] = j
    OBVIOUS
  <2> USE DEF PipelineInv, TypeInv
  <2>1. pc \in [Callers -> CallerPc]
    BY DEF CallersInv, CallersOK
  <2>2. phase = "up"
    BY DEF ProcessInv
  <2>3. FlushTrue(c)
    <3>1. ASSUME NEW d \in Callers, CallerStart(d) \/ CallerStep(d) PROVE FlushTrue(c)
      <4>1. d = c
        BY <3>1, CallerOwns
      <4> QED BY <3>1, <4>1 DEF CallerStart, CallerStep, Flush, Remember, EvolveNote, CreateRow, Put, AddPending,
         Reject, CountNotes, FlushFalse, At
    <3>2. ASSUME NEW p \in Consumers, ConsumerStep(p) PROVE FALSE
      BY <3>2, ConsumerKeeps DEF caller
    <3>3. CASE (\E n \in Notes : DeleteNote(n)) \/ DrainReturn \/ ProcessStep
      BY <2>2, <3>3 DEF DeleteNote, DrainReturn, ProcessStep, BeginExit, CloseStore, Exit, Crash, Restart, caller
    <3> QED BY <3>1, <3>2, <3>3 DEF Next
  <2>4. unfinished = 0
    BY <2>3 DEF FlushTrue
  <2>5. j \in Job /\ Live(j)
    BY DEF LiveJobs
  <2> QED BY <2>4, <2>5, NothingUnfinished, PipelineAssumption DEF NoRowForgotten
<1> QED BY <1>1, PipelineInvCorrect, PTL DEF Spec, FlushBarrier

-----------------------------------------------------------------------------
(* The drain *)

Unspent == bounds["faults"] = Limit["faults"] /\ bounds["timeouts"] = Limit["timeouts"]
\* A drain that met no fault and no deadline is still at work, or has emptied the queue for good.
DrainInv ==
  /\ \A b \in Bounds : bounds[b] <= Limit[b]
  /\ phase = "draining" /\ Unspent =>
       cpc["drain"] # "leave" /\ (cpc["drain"] = "dead" => queue = <<>>)

\* A bound once spent from stays below its limit, so an unspent one was not touched.
LEMMA UnspentBefore ==
  ASSUME ProcessOK, \A b \in Bounds : bounds[b] <= Limit[b], [Next]_vars
  PROVE /\ \A b \in Bounds : bounds'[b] <= Limit[b]
        /\ Unspent' => Unspent /\ ~Spend("faults") /\ ~Spend("timeouts")
<1>1. bounds \in [Bounds -> Nat] /\ Limit \in [Bounds -> Nat] /\ "faults" \in Bounds /\ "timeouts" \in Bounds
  BY PipelineAssumption DEF ProcessOK, Bounds
<1>2. \A b \in Bounds : bounds'[b] <= bounds[b]
  BY <1>1, StepSpends DEF Spend
<1>3. \A b \in Bounds : bounds[b] \in Nat /\ bounds'[b] \in Nat /\ Limit[b] \in Nat
  BY <1>1, StepSpends DEF Spend
<1>4. \A b \in Bounds : bounds'[b] <= Limit[b]
  BY <1>2, <1>3
<1>5. \A b \in Bounds : Spend(b) => bounds'[b] < bounds[b]
  BY <1>1 DEF Spend
<1>6. \A b \in Bounds : bounds'[b] = Limit[b] => bounds[b] = Limit[b] /\ ~Spend(b)
  BY <1>2, <1>3, <1>5
<1> QED BY <1>1, <1>4, <1>6 DEF Unspent

\* Without a fault the drain goes round its loop; without a deadline it ends on an empty queue,
\* and nobody fills it again: callers have been joined.
LEMMA DrainPreserved == ASSUME TypeInv, DrainInv, [Next]_vars PROVE DrainInv'
<1> USE DEF TypeInv
<1> DEFINE Goal == phase' = "draining" /\ Unspent' =>
                     cpc'["drain"] # "leave" /\ (cpc'["drain"] = "dead" => queue' = <<>>)
<1>1. /\ \A b \in Bounds : bounds'[b] <= Limit[b]
      /\ Unspent' => Unspent /\ ~Spend("faults") /\ ~Spend("timeouts")
  BY UnspentBefore DEF DrainInv
<1> SUFFICES Goal
  BY <1>1 DEF DrainInv
<1>2. cpc \in [Consumers -> ConsumerPc] /\ "drain" \in Consumers
  BY DEF ConsumersInv, ConsumersOK, Consumers
<1>3. ASSUME NEW c \in Callers, CallerStart(c) \/ CallerStep(c) PROVE Goal
  BY <1>3, CallerKeeps
<1>4. ASSUME NEW p \in Consumers, ConsumerStep(p) PROVE Goal
  <2> SUFFICES ASSUME phase = "draining", Unspent'
               PROVE cpc'["drain"] # "leave" /\ (cpc'["drain"] = "dead" => queue' = <<>>)
    BY <1>4, ConsumerKeeps
  <2>1. cpc["drain"] # "leave" /\ (cpc["drain"] = "dead" => queue = <<>>)
    BY <1>1 DEF DrainInv
  <2>2. queue = <<>> => queue' = <<>>
    BY <1>4 DEF ConsumerStep, Take, MarkRunning, FetchNote, Work, MarkTerminal, HandleError, TaskDone, shared
  <2>3. cpc'[p] = "leave" => p # "drain"
    BY <1>1, <1>2, <1>4, <2>1 DEF ConsumerStep, Take, MarkRunning, FetchNote, Work, MarkTerminal,
       HandleError, TaskDone, StoreRaises, Goto, Open
  <2>4. cpc'[p] = "dead" => p # "drain"
    BY <1>2, <1>4, <2>1 DEF ConsumerStep, Take, MarkRunning, FetchNote, Work, MarkTerminal,
       HandleError, TaskDone, StoreRaises, Goto, In
  <2>5. p # "drain" => cpc'["drain"] = cpc["drain"]
    BY <1>2, <1>4, ConsumerMoves
  <2> QED BY <2>1, <2>2, <2>3, <2>4, <2>5
<1>5. CASE DrainReturn
  BY <1>1, <1>2, <1>5 DEF DrainReturn, Goto, shared
<1>6. CASE BeginExit
  BY <1>2, <1>6 DEF BeginExit, Goto
<1>7. CASE (\E n \in Notes : DeleteNote(n)) \/ UNCHANGED vars
  BY <1>1, <1>7, Stutter DEF DeleteNote, DrainInv, shared, consumer
<1>8. CASE CloseStore \/ Exit \/ Crash \/ Restart
  BY <1>8 DEF CloseStore, Exit, Crash, Restart
<1> QED BY <1>3, <1>4, <1>5, <1>6, <1>7, <1>8 DEF Next, ProcessStep

\* The drain's invariant holds in every reachable state.
LEMMA DrainInvCorrect == Spec => []DrainInv
<1>1. Init => DrainInv
  <2>1. \A b \in Bounds : Limit[b] \in Nat
    BY PipelineAssumption
  <2> QED BY <2>1 DEF Init, DrainInv
<1>2. TypeInv /\ DrainInv /\ [Next]_vars => DrainInv'
  BY DrainPreserved
<1> QED BY <1>1, <1>2, TypeInvCorrect, PTL DEF Spec

\* When the store closes after a drain that met neither a fault nor its deadline, the only row
\* left open, but for those given up before, is that of the job the worker still holds.
THEOREM DrainCorrect == Spec => DrainLeavesOnlyInFlight
<1> DEFINE Closing == phase = "draining" /\ phase' = "closed"
                        /\ bounds["faults"] = Limit["faults"] /\ bounds["timeouts"] = Limit["timeouts"]
                        => \A j \in LiveJobs : j \in lost \/ hold["worker"] = j
<1>1. PipelineInv /\ DrainInv /\ [Next]_vars => [Closing]_vars
  <2> SUFFICES ASSUME PipelineInv, DrainInv, Next, phase = "draining", phase' = "closed", Unspent, NEW j \in LiveJobs
               PROVE j \in lost \/ hold["worker"] = j
    BY DEF Unspent
  <2> USE DEF PipelineInv, TypeInv
  <2>1. CloseStore
    <3>1. ASSUME NEW c \in Callers PROVE ~CallerStart(c) /\ ~CallerStep(c)
      BY CallerKeeps
    <3>2. ASSUME NEW p \in Consumers PROVE ~ConsumerStep(p)
      BY ConsumerKeeps
    <3>3. ~DrainReturn /\ \A n \in Notes : ~DeleteNote(n)
      BY DEF DrainReturn, DeleteNote
    <3> QED BY <3>1, <3>2, <3>3 DEF Next, ProcessStep, BeginExit, Exit, Crash, Restart
  <2>2. queue = <<>> /\ hold["drain"] = NoJob
    BY <2>1 DEF CloseStore, DrainInv, ConsumersInv, FreePc, Consumers
  <2>3. \A c \in Callers : ~HasRow(c)
    BY DEF ProcessInv, HasRow
  <2>4. j \in Job /\ Live(j)
    BY DEF LiveJobs
  <2>5. Queued = {} /\ j # NoJob
    BY <2>2, <2>4, PipelineAssumption DEF Queued
  <2> QED BY <2>2, <2>3, <2>4, <2>5 DEF NoRowForgotten, Consumers
<1> QED BY <1>1, PipelineInvCorrect, DrainInvCorrect, PTL DEF Spec, DrainLeavesOnlyInFlight

-----------------------------------------------------------------------------
(* The ledger *)

\* Every step writes one row along the life of a row, or none.
LEMMA LedgerStep ==
  ASSUME PipelineInv, [Next]_vars
  PROVE Ledger!Next \/ UNCHANGED <<ledger, attempts>>
<1> USE DEF PipelineInv, TypeInv
<1>1. CASE UNCHANGED rows
  BY <1>1 DEF rows
<1>2. ASSUME NEW c \in Callers, Recorded(c) PROVE Ledger!Next
  <2>1. job[c] \in Job /\ ledger[job[c]] = "absent"
    BY <1>2, CallersWorking DEF DispatchInv, AtWork, Dispatching, Recorded, IdlePc
  <2>2. Ledger!Admit(job[c])
    BY <1>2, <2>1 DEF Recorded, Ledger!Admit
  <2> QED BY <2>1, <2>2 DEF Ledger!Next
<1>3. ASSUME NEW c \in Callers, Refused(c) PROVE Ledger!Next
  <2>1. job[c] \in Job /\ ledger[job[c]] = "queued"
    BY <1>3, CallersWorking DEF DispatchInv, AtWork, Dispatching, Refused, IdlePc, HasRow
  <2>2. Ledger!GiveUp(job[c])
    BY <1>3, <2>1 DEF Refused, Ledger!GiveUp
  <2> QED BY <2>1, <2>2 DEF Ledger!Next
<1>4. ASSUME NEW p \in Consumers, Started(p) \/ Finished(p) \/ Errored(p) PROVE Ledger!Next
  <2>1. hold[p] \in Job /\ HoldStage(p)
    BY <1>4, ConsumersWorking DEF Started, Finished, Errored, FreePc, StageInv
  <2>2. CASE Started(p)
    BY <2>1, <2>2 DEF Started, HoldStage, Ledger!Start, Ledger!Next
  <2>3. CASE Finished(p)
    <3>1. Ledger!Finish(hold[p])
      BY <2>1, <2>3 DEF Finished, HoldStage, Ledger!Finish, Ledger!Terminal
    <3> QED BY <2>1, <3>1 DEF Ledger!Next
  <2>4. CASE Errored(p)
    <3>1. Ledger!Finish(hold[p]) \/ Ledger!GiveUp(hold[p])
      BY <2>1, <2>4 DEF Errored, HoldStage, Ledger!Finish, Ledger!GiveUp, Ledger!Terminal
    <3> QED BY <2>1, <3>1 DEF Ledger!Next
  <2> QED BY <1>4, <2>2, <2>3, <2>4
<1> QED BY StepRows, <1>1, <1>2, <1>3, <1>4

\* Callers, worker, drain, exits, crashes and restarts together implement the ledger: a row is
\* admitted once, started at most once, and an outcome, once written, stays.
THEOREM LedgerImplemented == Spec => LedgerSpec
<1>1. Init => Ledger!Init
  BY DEF Init, Ledger!Init
<1>2. PipelineInv /\ [Next]_vars => [Ledger!Next]_(Ledger!vars)
  BY LedgerStep DEF Ledger!vars
<1> QED BY <1>1, <1>2, PipelineInvCorrect, PTL DEF Spec, LedgerSpec, Ledger!Spec
=============================================================================
