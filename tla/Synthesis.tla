------------------------------- MODULE Synthesis -------------------------------
(***************************************************************************)
(* recall() and synthesize() as the telemetry sees them.  A recall starts  *)
(* a query and leaves its id and its notes in two attributes of the        *)
(* manager; a synthesis takes the id it finds there, retrieves notes (by   *)
(* entity and, when those are too few, by a recall of its own), asks the   *)
(* LLM, and logs the answer and, at DEBUG, a rating of each note it finds  *)
(* in the second attribute.  Any number of threads share the manager.      *)
(***************************************************************************)
EXTENDS Lists

CONSTANTS Asker, Question, SNote,
          EntityHits,     \* notes the entities of a question are indexed under, in order
          SearchHits,     \* notes recall() may return for it, in order
          LowTier,        \* notes of tiers the caller did not ask for
          Wanted,         \* k
          Unsafe,         \* notes whose text is refused as context of a prompt
          MaxQueries, MaxEvents     \* bounds of the search
ASSUME SynthesisConstants ==
  /\ \A q \in Question : EntityHits[q] \in Seq(SNote) /\ SearchHits[q] \in Seq(SNote)
  /\ Wanted \in Nat /\ MaxQueries \in Nat

VARIABLES debug,        \* is the telemetry logger at DEBUG?
          slot,         \* _telemetry_query_id, 0 for None
          slotNotes,    \* _telemetry_retrieved_notes
          queries,      \* the queries started: question
          asker,        \* what each thread is doing
          events        \* the telemetry log
synthesisVars == <<debug, slot, slotNotes, queries, asker, events>>

Quiet == [at |-> "idle", question |-> "", id |-> 0, inner |-> 0, notes |-> <<>>]
Query == 0..MaxQueries

SynthesisTypeOK ==
  /\ debug \in BOOLEAN /\ slot \in Query /\ Range(slotNotes) \subseteq SNote
  /\ Range(queries) \subseteq Question /\ Len(queries) <= MaxQueries
  /\ \A t \in Asker : /\ asker[t].at \in {"idle", "recall", "started", "kept", "own_recall", "retrieved", "generated", "rate"}
                      /\ asker[t].id \in Query /\ asker[t].inner \in Query
                      /\ Range(asker[t].notes) \subseteq SNote
  /\ \A i \in DOMAIN events : events[i].kind \in {"recall", "synthesis", "feedback"}
                              /\ events[i].id \in DOMAIN queries

SynthesisInit ==
  /\ debug \in BOOLEAN /\ slot = 0 /\ slotNotes = <<>> /\ queries = <<>>
  /\ asker = [t \in Asker |-> Quiet] /\ events = <<>>

Becomes(t, record) == asker' = [asker EXCEPT ![t] = record]
StartQuery(q) == Len(queries) < MaxQueries /\ queries' = Append(queries, q)
Log(new) == Len(events) + Len(new) <= MaxEvents /\ events' = events \o new
Event(kind, t, id, notes) == [kind |-> kind, id |-> id, asked |-> asker[t].question, notes |-> notes]

\* _recall_inner, at its start and at its end.
RecallStarts(t, q) ==
  /\ asker[t].at = "idle" /\ StartQuery(q)
  /\ slot' = Len(queries) + 1
  /\ Becomes(t, [Quiet EXCEPT !.at = "recall", !.question = q, !.id = Len(queries) + 1])
  /\ UNCHANGED <<debug, slotNotes, events>>

RecallReturns(t, id, record, found) ==
  /\ slot' = id /\ slotNotes' = found
  /\ Log(<<Event("recall", t, id, found)>>)
  /\ Becomes(t, record)
  /\ UNCHANGED <<debug, queries>>
Recalled(t, found) == asker[t].at = "recall" /\ RecallReturns(t, asker[t].id, Quiet, found)

-----------------------------------------------------------------------------
\* synthesize: the id of the last recall of anybody, or of a query of its own.
SynthesizeStarts(t, q) ==
  /\ asker[t].at = "idle"
  /\ IF slot # 0 THEN UNCHANGED queries ELSE StartQuery(q)
  /\ Becomes(t, [Quiet EXCEPT !.at = "started", !.question = q, !.id = IF slot # 0 THEN slot ELSE Len(queries) + 1])
  /\ UNCHANGED <<debug, slot, slotNotes, events>>

\* SynthesisGenerator._retrieve_notes: each note once, of the tiers asked for, at most k.
Deduplicated(list) ==
  LET wantedTier == Only(list, Range(list) \ LowTier)
      once == FoldLeft(LAMBDA acc, n : IF n \in Range(acc) THEN acc ELSE Append(acc, n), <<>>, wantedTier) IN
  SubSeq(once, 1, IF Len(once) < Wanted THEN Len(once) ELSE Wanted)

\* The attribute is filled in only if it is still None.
KeepId(t) ==
  /\ asker[t].at = "started"
  /\ slot' = IF slot = 0 THEN asker[t].id ELSE slot
  /\ Becomes(t, [asker[t] EXCEPT !.at = "kept"])
  /\ UNCHANGED <<debug, slotNotes, queries, events>>

\* Enough notes by entity: no recall.
RetrieveByEntity(t) ==
  LET c == asker[t]
      hits == EntityHits[c.question] IN
  /\ c.at = "kept"
  /\ IF Len(hits) >= Wanted
     THEN /\ Becomes(t, [c EXCEPT !.at = "retrieved", !.notes = Deduplicated(hits)])
          /\ UNCHANGED <<slot, queries>>
     ELSE /\ StartQuery(c.question) /\ slot' = Len(queries) + 1
          /\ Becomes(t, [c EXCEPT !.at = "own_recall", !.inner = Len(queries) + 1])
  /\ UNCHANGED <<debug, slotNotes, events>>

OwnRecall(t, found) ==
  LET c == asker[t] IN
  /\ c.at = "own_recall"
  /\ RecallReturns(t, c.inner, [c EXCEPT !.at = "retrieved", !.notes = Deduplicated(EntityHits[c.question] \o found)], found)

\* The context is refused as a whole; any other failure gives the fallback answer.
GenerateAnswer(t) ==
  /\ asker[t].at = "retrieved"
  /\ Becomes(t, IF Range(asker[t].notes) \cap Unsafe # {} THEN Quiet ELSE [asker[t] EXCEPT !.at = "generated"])
  /\ UNCHANGED <<debug, slot, slotNotes, queries, events>>

LogSynthesis(t) ==
  /\ asker[t].at = "generated"
  /\ Log(<<Event("synthesis", t, asker[t].id, asker[t].notes)>>)
  /\ Becomes(t, IF debug THEN [asker[t] EXCEPT !.at = "rate"] ELSE Quiet)
  /\ UNCHANGED <<debug, slot, slotNotes, queries>>

\* auto_feedback_from_synthesis: one event for each note of the last recall of anybody.
Rate(t) ==
  /\ asker[t].at = "rate"
  /\ Log([i \in DOMAIN slotNotes |-> Event("feedback", t, asker[t].id, <<slotNotes[i]>>)])
  /\ Becomes(t, Quiet)
  /\ UNCHANGED <<debug, slot, slotNotes, queries>>

SynthesisNext ==
  \E t \in Asker :
    \/ \E q \in Question : RecallStarts(t, q) \/ SynthesizeStarts(t, q)
    \/ \E found \in Prefixes(SearchHits[asker[t].question]) : Recalled(t, found) \/ OwnRecall(t, found)
    \/ KeepId(t) \/ RetrieveByEntity(t) \/ GenerateAnswer(t) \/ LogSynthesis(t) \/ Rate(t)
SynthesisSpec == SynthesisInit /\ [][SynthesisNext]_synthesisVars

-----------------------------------------------------------------------------
\* "Reuse query_id from the last recall() so synthesis telemetry correlates to the same query"
\* (memory_manager.py:1809): the event of a synthesis is never filed under a query that asked
\* something else.
SynthesisUnderItsQuery ==
  \A i \in DOMAIN events : events[i].kind = "synthesis" => queries[events[i].id] = events[i].asked
=============================================================================
