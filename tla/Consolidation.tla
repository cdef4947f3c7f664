---------------------------- MODULE Consolidation ----------------------------
(***************************************************************************)
(* The GAM layer: SemanticShiftDetector counts the notes of the active     *)
(* window (EPG), ConsolidationMiddleware checks every new note against it  *)
(* and starts ConsolidationEngine.consolidate() in a thread, which         *)
(* promotes the notes created since the last run to tier A (TAN).          *)
(***************************************************************************)
EXTENDS Integers, FiniteSets

CONSTANTS Facts,          \* notes
          Writing,        \* threads in remember()
          EntitiesIn,     \* entities of each note; notes are compared within one domain
          Negated,        \* notes whose text has a negation word
          MinEpgSize,     \* min_epg_size
          MaxRuns, MaxScanErrors   \* bounds of the search

ASSUME GamConstants == MaxRuns \in Nat /\ MaxScanErrors \in Nat

VARIABLES clock, created,          \* datetime.now() and note.created_at, 0 before construction
          stored, superseded, tierA,
          epg,                     \* notes observed since the last reset()
          writer,                  \* where each remember() is
          run,                     \* the two threads that can be in consolidate()
          lastRun,                 \* _last_consolidation_time
          accepting,
          examined,                \* notes some run went through to its end with
          excused,                 \* notes in the making while a run was under way, or scanned by one that raised
          runs, scanErrors
gamVars == <<clock, created, stored, superseded, tierA, epg, writer, run, lastRun, accepting,
             examined, excused, runs, scanErrors>>
windowVars == <<clock, created, stored, superseded, epg, writer, accepting>>

Runs == {"async", "now"}
NoFact == "none"
Idle_ == [at |-> "idle", fact |-> NoFact, shift |-> FALSE]

GamTypeOK ==
  /\ clock \in Nat /\ created \in [Facts -> 0..clock] /\ lastRun \in 0..clock
  /\ stored \subseteq Facts /\ superseded \subseteq stored /\ tierA \subseteq stored
  /\ epg \subseteq stored /\ examined \subseteq stored /\ excused \subseteq Facts
  /\ writer \in [Writing -> [at : {"idle", "constructed", "stored", "detected"},
                             fact : Facts \cup {NoFact}, shift : BOOLEAN]]
  /\ run \in [Runs -> [at : {"idle", "started", "scanned", "promoted", "raised", "reset"}, notes : SUBSET Facts]]
  /\ accepting \in BOOLEAN
  /\ runs \in 0..MaxRuns /\ scanErrors \in 0..MaxScanErrors

GamInit ==
  /\ clock = 1 /\ created = [n \in Facts |-> 0]
  /\ stored = {} /\ superseded = {} /\ tierA = {} /\ epg = {}
  /\ writer = [w \in Writing |-> Idle_]
  /\ run = [r \in Runs |-> [at |-> "idle", notes |-> {}]]
  /\ lastRun = 0 /\ accepting = TRUE
  /\ examined = {} /\ excused = {}
  /\ runs = 0 /\ scanErrors = 0

UnderWay == \E r \in Runs : run[r].at # "idle"
InTheMaking == {writer[w].fact : w \in {v \in Writing : writer[v].at = "constructed"}}

-----------------------------------------------------------------------------
\* remember(): construct the note (created_at), store it, then before_write().

Construct(w, n) ==
  /\ writer[w].at = "idle" /\ created[n] = 0 /\ accepting
  /\ created' = [created EXCEPT ![n] = clock]
  /\ clock' = clock + 1
  /\ writer' = [writer EXCEPT ![w] = [at |-> "constructed", fact |-> n, shift |-> FALSE]]
  /\ excused' = IF UnderWay THEN excused \cup {n} ELSE excused
  /\ UNCHANGED <<stored, superseded, tierA, epg, run, lastRun, accepting, examined, runs, scanErrors>>

StoreNote(w) ==
  /\ writer[w].at = "constructed"
  /\ stored' = stored \cup {writer[w].fact}
  /\ writer' = [writer EXCEPT ![w].at = "stored"]
  /\ UNCHANGED <<clock, created, superseded, tierA, epg, run, lastRun, accepting, examined,
                 excused, runs, scanErrors>>

\* detect_shift: at least MinEpgSize notes in the window, and 40 % new entities or one of the
\* other two signals (topic, time gap), which depend on data left out here.
Novel(n) == EntitiesIn[n] \ UNION {EntitiesIn[m] : m \in epg}
EntityNovelty(n) ==
  EntitiesIn[n] # {} /\ 10 * Cardinality(Novel(n)) >= 4 * Cardinality(EntitiesIn[n])

DetectShift(w, otherSignal) ==
  /\ writer[w].at = "stored"
  /\ writer' = [writer EXCEPT ![w].at = "detected",
       ![w].shift = Cardinality(epg) >= MinEpgSize /\ (otherSignal \/ EntityNovelty(writer[w].fact))]
  /\ UNCHANGED <<clock, created, stored, superseded, tierA, epg, run, lastRun, accepting, examined, excused, runs, scanErrors>>

Started(r) ==
  /\ runs < MaxRuns
  /\ runs' = runs + 1
  /\ run' = [run EXCEPT ![r] = [at |-> "started", notes |-> {}]]
  /\ excused' = excused \cup InTheMaking

\* observe(), and a thread for the run unless one is alive.
Observe(w) ==
  /\ writer[w].at = "detected"
  /\ epg' = epg \cup {writer[w].fact}
  /\ writer' = [writer EXCEPT ![w] = Idle_]
  /\ IF writer[w].shift /\ run["async"].at = "idle" /\ runs < MaxRuns
     THEN Started("async") ELSE UNCHANGED <<run, runs, excused>>
  /\ UNCHANGED <<clock, created, stored, superseded, tierA, lastRun, accepting, examined, scanErrors>>

ConsolidateNow ==
  /\ run["now"].at = "idle"
  /\ Started("now")
  /\ UNCHANGED <<windowVars, tierA, lastRun, examined, scanErrors>>

\* Mutation of Supersede: of a note that is not stored yet.
SupersedeUnstored(n) ==
  /\ n \notin superseded /\ created[n] # 0
  /\ \E m \in stored : created[m] > created[n]
  /\ superseded' = superseded \cup {n}
  /\ UNCHANGED <<clock, created, stored, tierA, epg, writer, run, lastRun, accepting, examined, excused, runs, scanErrors>>

Supersede(n) ==
  /\ n \in stored \ superseded
  /\ \E m \in stored : created[m] > created[n]
  /\ superseded' = superseded \cup {n}
  /\ UNCHANGED <<clock, created, stored, tierA, epg, writer, run, lastRun, accepting, examined, excused, runs, scanErrors>>

Shutdown ==
  /\ accepting' = FALSE
  /\ UNCHANGED <<clock, created, stored, superseded, tierA, epg, writer, run, lastRun, examined, excused, runs, scanErrors>>

-----------------------------------------------------------------------------
\* consolidate()

Candidates == {n \in stored \ superseded : created[n] >= lastRun}
Shared(n, m) == n # m /\ EntitiesIn[n] \cap EntitiesIn[m] # {}

\* Of two notes on the same entity, one negated and one not, the older one.
Contradicted(S) ==
  {n \in S : \E m \in S : Shared(n, m) /\ (n \in Negated) # (m \in Negated) /\ created[n] < created[m]}

Promotable(S) == {n \in S : \E m \in S : Shared(n, m)} \ Contradicted({n \in S : \E m \in S : Shared(n, m)})

\* Mutation of Skip: the time of the last run moves on.
SkipStamping(r) ==
  /\ run[r].at = "started" /\ (~accepting \/ Cardinality(Candidates) < MinEpgSize)
  /\ run' = [run EXCEPT ![r].at = "idle"]
  /\ lastRun' = clock /\ clock' = clock + 1
  /\ UNCHANGED <<created, stored, superseded, epg, writer, accepting, tierA, examined,
                 excused, runs, scanErrors>>

\* Not accepting (or the store closed under the scan), or a window with too few notes: nothing changes.
Skip(r) ==
  /\ run[r].at = "started" /\ (~accepting \/ Cardinality(Candidates) < MinEpgSize)
  /\ run' = [run EXCEPT ![r].at = "idle"]
  /\ UNCHANGED <<windowVars, tierA, lastRun, examined, excused, runs, scanErrors>>

Scan(r) ==
  /\ run[r].at = "started" /\ accepting
  /\ Cardinality(Candidates) >= MinEpgSize
  /\ run' = [run EXCEPT ![r] = [at |-> "scanned", notes |-> Candidates]]
  /\ UNCHANGED <<windowVars, tierA, lastRun, examined, excused, runs, scanErrors>>

\* A rewrite that fails is logged, and the note keeps its tier.
Promote(r) ==
  /\ run[r].at = "scanned"
  /\ \E unsaved \in SUBSET Promotable(run[r].notes) :
       tierA' = tierA \cup (Promotable(run[r].notes) \ unsaved)
  /\ run' = [run EXCEPT ![r].at = "promoted"]
  /\ UNCHANGED <<windowVars, lastRun, examined, excused, runs, scanErrors>>

\* Extraction or grouping raises: the error is kept in the report and the run goes on to its end.
ScanRaises(r) ==
  /\ run[r].at = "scanned" /\ scanErrors < MaxScanErrors
  /\ scanErrors' = scanErrors + 1
  /\ excused' = excused \cup run[r].notes
  /\ run' = [run EXCEPT ![r].at = "raised"]
  /\ UNCHANGED <<windowVars, tierA, lastRun, examined, runs>>

ResetWindow(r) ==
  /\ run[r].at = "promoted"
  /\ epg' = {}
  /\ examined' = examined \cup run[r].notes
  /\ run' = [run EXCEPT ![r].at = "reset"]
  /\ UNCHANGED <<clock, created, stored, superseded, writer, accepting, tierA, lastRun,
                 excused, runs, scanErrors>>

Stamp(r) ==
  /\ run[r].at \in {"reset", "raised"}
  /\ lastRun' = clock
  /\ clock' = clock + 1
  /\ run' = [run EXCEPT ![r] = [at |-> "idle", notes |-> {}]]
  /\ UNCHANGED <<created, stored, superseded, epg, writer, accepting, tierA, examined,
                 excused, runs, scanErrors>>

GamNext ==
  \/ \E w \in Writing : \/ \E n \in Facts : Construct(w, n)
                        \/ StoreNote(w) \/ Observe(w)
                        \/ \E b \in BOOLEAN : DetectShift(w, b)
  \/ \E n \in Facts : Supersede(n)
  \/ ConsolidateNow \/ Shutdown
  \/ \E r \in Runs : Skip(r) \/ Scan(r) \/ Promote(r) \/ ScanRaises(r) \/ ResetWindow(r) \/ Stamp(r)

GamSpec == GamInit /\ [][GamNext]_gamVars

-----------------------------------------------------------------------------
\* A note the next scan will pass over as too old has been through a run, except the notes that
\* were under construction while a run was under way and the notes of a run that raised (lastRun
\* is the end of the run, created_at the start of remember(): consolidation.py:235 and :322).
EveryNoteHasItsTurn ==
  \A n \in stored \ superseded : created[n] < lastRun => n \in examined \cup excused
=============================================================================
