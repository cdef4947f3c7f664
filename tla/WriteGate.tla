------------------------------ MODULE WriteGate ------------------------------
(***************************************************************************)
(* What remember() does before it stores a note: GovernanceValidator       *)
(* (limits, prompt-injection patterns, personal data) decides on the text, *)
(* MemoryAnomalyGate on the constructed note, compared with recent notes   *)
(* of its domain.  The scores of the gate are a choice; what is done with  *)
(* them, and with the calls that fail, is the code's.                      *)
(***************************************************************************)
EXTENDS Lists, FiniteSetsExt

CONSTANTS TextLength,                  \* positions of a text that detections can cover
          SpanScores, MaxSpans,        \* scores of detections; how many a text has at most
          MaxContentLength,            \* limits.max_content_length, 0 for none
          MaxReferences, MinCalibration,         \* memory_defense settings
          WindowFloor, FirstFactor, LastFactor,  \* 200, 4 and 20 in the code
          MaxRecent, MaxQuarantined, MaxGateFaults     \* bounds of the search

ASSUME GateConstants ==
  /\ TextLength \in Nat /\ SpanScores \subseteq Int /\ MaxSpans \in Nat
  /\ MaxRecent \in Nat /\ MaxQuarantined \in Nat /\ MaxGateFaults \in Nat
  /\ MaxReferences \in Nat /\ MinCalibration \in Nat /\ WindowFloor \in Nat \ {0}
  /\ FirstFactor \in Nat \ {0} /\ LastFactor \in Nat /\ LastFactor >= FirstFactor

VARIABLES settings,    \* the configuration, read again by every call
          recent,      \* the domain's notes, newest first: has it a usable vector?
          quarantine,  \* records in memory_anomalies.jsonl
          call,        \* the remember() under way
          gateFaults
gateVars == <<settings, recent, quarantine, call, gateFaults>>

Modes == {"disabled", "audit", "block", "quarantine"}
PiiActions == {"off", "log", "redact", "block"}
Span == {d \in [start : 0..TextLength - 1, end : 1..TextLength, score : SpanScores, allowed : BOOLEAN] :
           d.start < d.end}
Covers(d, p) == d.start < p /\ p <= d.end
Overlap(d, e) == d.start < e.end /\ d.end > e.start

\* A text as the validators see it: its positions, and what Presidio reports about them.
Texts == [hostile : {FALSE}, spans : {{}} \cup {{f[i] : i \in 1..MaxSpans} : f \in [1..MaxSpans -> Span]}]
NoCallYet == [at |-> "idle", content |-> <<>>, spans |-> {}, chosen |-> {}, refs |-> <<>>,
              valid |-> FALSE, flagged |-> FALSE, reason |-> "none"]
Reasons == {"none", "refused", "disabled", "candidate_embedding_unavailable", "calibration_insufficient",
            "calibration_unscorable", "scored", "eval_failed"}
Placeholder == 0

GateTypeOK ==
  /\ settings \in [mode : Modes, pii : PiiActions, entities : BOOLEAN, presidio : BOOLEAN]
  /\ recent \in Seq(BOOLEAN) /\ Len(recent) <= MaxRecent
  /\ quarantine \in 0..MaxQuarantined
  /\ call.at \in {"idle", "admitted", "scored", "stopped", "stored"}
  /\ call.content \in Seq(0..TextLength) /\ call.chosen \subseteq call.spans
  /\ call.spans \subseteq Span /\ call.reason \in Reasons
  /\ gateFaults \in 0..MaxGateFaults

GateInit ==
  /\ settings \in [mode : Modes, pii : PiiActions, entities : BOOLEAN, presidio : BOOLEAN]
  /\ recent = <<>> /\ quarantine = 0 /\ call = NoCallYet /\ gateFaults = 0

-----------------------------------------------------------------------------
\* PIIValidator.detect: in detect-all mode without the allowlisted types; longest first, then
\* by score, each one taken that overlaps none taken before.
Reported(t) == {d \in t.spans : settings.entities \/ ~d.allowed}
Before(d, e) ==
  LET length(s) == s.end - s.start IN
  length(d) > length(e) \/ (length(d) = length(e) /\ d.score >= e.score)
Choose(chosen, d) == IF \E s \in chosen : Overlap(d, s) THEN chosen ELSE chosen \cup {d}
LongestFirst(spans) == Arranged(spans, {p \in spans \X spans : Before(p[1], p[2])})
Detect(t) == FoldLeft(Choose, {}, LongestFirst(Reported(t)))

\* _redact: from the last span to the first, so that the places of the others stay right.
Splice(text, d) == Take(text, d.start) \o <<Placeholder>> \o SubSeq(text, d.end + 1, Len(text))
LastFirst(spans) == Arranged(spans, {p \in spans \X spans : p[1].start >= p[2].start})

\* Mutation of Redact: from the first span to the last.
RedactForwards(text, spans) == FoldLeft(Splice, text, Reverse(LastFirst(spans)))

Redact(text, spans) == FoldLeft(Splice, text, LastFirst(spans))

\* GovernanceValidator.enforce: type, length and patterns refuse; a missing presidio-analyzer
\* lets the text through as it is.
Plain == [p \in 1..TextLength |-> p]
PiiActive == settings.pii # "off" /\ settings.presidio
RefusedText(t) ==
  \/ MaxContentLength > 0 /\ TextLength > MaxContentLength
  \/ t.hostile
  \/ PiiActive /\ settings.pii = "block" /\ Detect(t) # {}
Processed(t) == IF PiiActive /\ settings.pii = "redact" THEN Redact(Plain, Detect(t)) ELSE Plain

\* The call starts: refused, or with the text that will be stored; the constructed note may
\* have no usable embedding.
Enforce(t, valid) ==
  /\ call.at = "idle" /\ quarantine < MaxQuarantined
  /\ call' = IF RefusedText(t) THEN [NoCallYet EXCEPT !.at = "stopped", !.spans = Reported(t), !.reason = "refused"]
             ELSE [NoCallYet EXCEPT !.at = "admitted", !.content = Processed(t), !.spans = Reported(t),
                                    !.chosen = Detect(t), !.valid = valid]
  /\ UNCHANGED <<settings, recent, quarantine, gateFaults>>

-----------------------------------------------------------------------------
\* _memory_defense_reference_notes: the newest notes, twice as many at each try until enough
\* of them have a vector, the domain ends, or the window is as wide as it may be.
Window(n) == Take(recent, n)
ValidIn(w) == Only(w, {TRUE})
FirstLimit == Max({WindowFloor, FirstFactor * MaxReferences, FirstFactor * MinCalibration})
LastLimit == Max({FirstLimit, LastFactor * MaxReferences, LastFactor * MinCalibration})
Widened == {LastLimit} \cup {l \in FirstLimit..LastLimit : \E i \in 0..l : l = FirstLimit * 2^i}
Enough(l) == Len(ValidIn(Window(l))) >= MaxReferences \/ Len(Window(l)) < l \/ l >= LastLimit
References == Window(Min({l \in Widened : Enough(l)}))

\* _select_reference_notes; fewer than two of them leave nothing to score against.
Selected(refs) == Take(refs, MaxReferences)
Evaluate(refs) ==
  IF settings.mode = "disabled" THEN "disabled"
  ELSE IF ~call.valid THEN "candidate_embedding_unavailable"
  ELSE IF Len(refs) < MinCalibration THEN "calibration_insufficient"
  ELSE IF Len(refs) < 2 THEN "calibration_unscorable" ELSE "scored"

Score(flagged) ==
  LET refs == Selected(ValidIn(References)) IN
  /\ call.at = "admitted"
  /\ flagged => Evaluate(refs) = "scored"
  /\ call' = [call EXCEPT !.at = "scored", !.refs = refs, !.flagged = flagged, !.reason = Evaluate(refs)]
  /\ UNCHANGED <<settings, recent, quarantine, gateFaults>>

\* An exception that is not the gate's own verdict is logged and the write goes on.
ScoreRaises ==
  /\ call.at = "admitted" /\ gateFaults < MaxGateFaults
  /\ gateFaults' = gateFaults + 1
  /\ call' = [call EXCEPT !.at = "scored", !.reason = "eval_failed"]
  /\ UNCHANGED <<settings, recent, quarantine>>

Stops == call.flagged /\ settings.mode \in {"block", "quarantine"}

Block ==
  /\ call.at = "scored" /\ Stops
  /\ quarantine' = IF settings.mode = "quarantine" THEN quarantine + 1 ELSE quarantine
  /\ call' = [call EXCEPT !.at = "stopped"]
  /\ UNCHANGED <<settings, recent, gateFaults>>

\* The quarantine file cannot be written: that error, too, is logged and the write goes on.
QuarantineRaises ==
  /\ call.at = "scored" /\ Stops /\ settings.mode = "quarantine" /\ gateFaults < MaxGateFaults
  /\ gateFaults' = gateFaults + 1
  /\ call' = [call EXCEPT !.reason = "eval_failed", !.flagged = FALSE]
  /\ UNCHANGED <<settings, recent, quarantine>>

StoreAdmitted ==
  /\ call.at = "scored" /\ ~Stops
  /\ Len(recent) < MaxRecent
  /\ recent' = <<call.valid>> \o recent
  /\ call' = [call EXCEPT !.at = "stored"]
  /\ UNCHANGED <<settings, quarantine, gateFaults>>

Return ==
  /\ call.at \in {"stopped", "stored"}
  /\ call' = NoCallYet
  /\ UNCHANGED <<settings, recent, quarantine, gateFaults>>
\* Bound: texts with detections come in one mode and first; other calls only fill the domain.
CleanTexts == [hostile : BOOLEAN, spans : {{}}]
Inputs == IF recent = <<>> /\ settings.mode = "audit" THEN Texts ELSE CleanTexts
GateNext ==
  \/ \E valid \in BOOLEAN : \/ \E t \in Inputs : Enforce(t, valid)
                             \/ Score(valid)
  \/ ScoreRaises \/ Block \/ QuarantineRaises \/ StoreAdmitted \/ Return

GateSpec == GateInit /\ [][GateNext]_gateVars

-----------------------------------------------------------------------------
Covered(p) == \E d \in call.chosen : Covers(d, p)
Nested(S) == \A d, e \in S : Overlap(d, e) =>
  (d.start <= e.start /\ e.end <= d.end) \/ (e.start <= d.start /\ d.end <= e.end)

\* The text that is stored: every position that no chosen detection covers, in order, and one
\* placeholder for each chosen detection, at its place; what the reverse order of _redact is
\* for (pii_validator.py:212).  And nothing of a detection is left, if no two detections
\* overlap without one lying inside the other.
RedactionExact ==
  call.at = "admitted" /\ PiiActive /\ settings.pii = "redact" =>
    /\ call.content =
         Only([p \in 1..TextLength |->
                 IF ~Covered(p) THEN p
                 ELSE IF \E d \in call.chosen : d.start = p - 1 THEN Placeholder ELSE -1],
              0..TextLength)
    /\ Nested(call.spans) => \A d \in call.spans, p \in 1..TextLength : Covers(d, p) => Covered(p)
=============================================================================
