--------------------------- MODULE LanceMaintenance ---------------------------
(***************************************************************************)
(* LanceVersionMaintenance: one daemon thread per LanceDB table that waits *)
(* for the interval, then removes old versions of its table.  Threads come *)
(* from start(), for the tables on disk, and from register_table(), which  *)
(* every write of a note calls.  The operator can change the interval at   *)
(* any time; 0 switches the cleanup off.                                   *)
(***************************************************************************)
EXTENDS Integers, FiniteSets

CONSTANTS LanceTables, MaxToggles, MaxSpawns   \* tables; bounds of the search

ASSUME LanceConstants == IsFiniteSet(LanceTables) /\ MaxToggles \in Nat /\ MaxSpawns \in Nat

VARIABLES onDisk,       \* tables that exist
          bound,        \* the store has handed over its connection and called start()
          interval,     \* is cleanup_interval_minutes above 0?
          thread,       \* the thread registered for each table
          stopEvent, stopping, joining,   \* stop(): the event, where it is, threads it waits for
          covered,      \* tables written, or found by start(), while the cleanup was on
          late,         \* tables given a thread after the event was set
          toggles, spawns
lanceVars == <<onDisk, bound, interval, thread, stopEvent, stopping, joining, covered, late, toggles, spawns>>
stopVars == <<stopEvent, stopping, joining>>

Running == {"loop", "off", "waiting", "cleaning"}
AliveThread(t) == thread[t] \in Running

LanceTypeOK ==
  /\ onDisk \subseteq LanceTables /\ covered \subseteq onDisk /\ late \subseteq onDisk
  /\ bound \in BOOLEAN /\ interval \in BOOLEAN /\ stopEvent \in BOOLEAN
  /\ thread \in [LanceTables -> Running \cup {"none", "ended"}]
  /\ stopping \in {"no", "set", "listed", "returned"} /\ joining \subseteq LanceTables
  /\ toggles \in 0..MaxToggles /\ spawns \in 0..MaxSpawns

LanceInit ==
  /\ onDisk = {} /\ bound = FALSE /\ interval = TRUE
  /\ thread = [t \in LanceTables |-> "none"]
  /\ stopEvent = FALSE /\ stopping = "no" /\ joining = {}
  /\ covered = {} /\ late = {} /\ toggles = 0 /\ spawns = 0

\* register_table for each of S, under the lock: a new thread where none is alive.
Register(S) ==
  LET new == {t \in S : ~AliveThread(t)} IN
  IF interval
  THEN /\ spawns + Cardinality(new) <= MaxSpawns
       /\ spawns' = spawns + Cardinality(new)
       /\ thread' = [t \in LanceTables |-> IF t \in new THEN "loop" ELSE thread[t]]
       /\ covered' = covered \cup S
       /\ late' = IF stopEvent THEN late \cup new ELSE late
  ELSE UNCHANGED <<spawns, thread, covered, late>>

\* write_note: bind and start() once, register the table of the note's domain, then write it.
IndexInLance(t) ==
  /\ bound' = TRUE
  /\ Register(IF bound THEN {t} ELSE onDisk \cup {t})
  /\ onDisk' = onDisk \cup {t}
  /\ UNCHANGED <<interval, stopVars, toggles>>

\* Another process of the same store creates a table.
TableAppears(t) ==
  /\ t \notin onDisk
  /\ onDisk' = onDisk \cup {t}
  /\ UNCHANGED <<bound, interval, thread, stopVars, covered, late, toggles, spawns>>

SetInterval ==
  /\ toggles < MaxToggles
  /\ toggles' = toggles + 1
  /\ interval' = ~interval
  /\ UNCHANGED <<onDisk, bound, thread, stopVars, covered, late, spawns>>

\* A thread that ends is no longer waited for.
Step(t, from, to) ==
  /\ thread[t] = from
  /\ thread' = [thread EXCEPT ![t] = to]
  /\ joining' = IF to = "ended" THEN joining \ {t} ELSE joining
  /\ UNCHANGED <<onDisk, bound, interval, stopEvent, stopping, covered, late, toggles, spawns>>

\* Mutation of Loop: a thread that finds the cleanup switched off ends.
LoopEnding(t) == Step(t, "loop", IF stopEvent \/ ~interval THEN "ended" ELSE "waiting")

\* The top of the loop reads the event, then the interval.
Loop(t) == Step(t, "loop", IF stopEvent THEN "ended" ELSE IF interval THEN "waiting" ELSE "off")
\* Switched off: a minute's grace, then the top of the loop again.
Grace(t) == Step(t, "off", IF stopEvent THEN "ended" ELSE "loop")
\* The interval is over, or the event was set during it.
WaitEnds(t) == Step(t, "waiting", IF stopEvent THEN "ended" ELSE "cleaning")
\* _run_one; an exception of LanceDB is logged and goes no further.
RunOne(t) == Step(t, "cleaning", "loop")

\* stop(): set the event, list the threads under the lock, join them one by one, each for the
\* timeout if there is one.
StopSet ==
  /\ stopping = "no"
  /\ stopEvent' = TRUE /\ stopping' = "set"
  /\ UNCHANGED <<onDisk, bound, interval, thread, joining, covered, late, toggles, spawns>>

StopList ==
  /\ stopping = "set"
  /\ joining' = {t \in LanceTables : AliveThread(t)}
  /\ stopping' = "listed"
  /\ UNCHANGED <<onDisk, bound, interval, thread, stopEvent, covered, late, toggles, spawns>>

StopReturns ==
  /\ stopping = "listed" /\ joining = {}
  /\ stopping' = "returned"
  /\ UNCHANGED <<onDisk, bound, interval, thread, stopEvent, joining, covered, late, toggles, spawns>>

\* A caller with a timeout is not told which of the threads it gave up on.
StopTimesOut ==
  /\ stopping = "listed" /\ joining # {}
  /\ stopping' = "returned"
  /\ UNCHANGED <<onDisk, bound, interval, thread, stopEvent, joining, covered, late, toggles, spawns>>

DaemonStep(t) == Loop(t) \/ Grace(t) \/ WaitEnds(t) \/ RunOne(t)
LanceNext ==
  \/ \E t \in LanceTables : IndexInLance(t) \/ TableAppears(t) \/ DaemonStep(t)
  \/ SetInterval \/ StopSet \/ StopList \/ StopReturns \/ StopTimesOut

LanceSpec == LanceInit /\ [][LanceNext]_lanceVars

-----------------------------------------------------------------------------
\* A table written (or found by start()) while the cleanup was on keeps a live thread until
\* stop(), also when the interval goes to 0 and back, however the writes fall between; and when
\* stop() has returned, the threads still alive were registered after it had set the event, or
\* are those whose join ran out of time and that have not ended since.
ThreadsFollowTables ==
  /\ ~stopEvent => \A t \in covered : AliveThread(t)
  /\ stopping = "returned" => \A t \in LanceTables : AliveThread(t) => t \in late \cup joining
=============================================================================
