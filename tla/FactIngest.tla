------------------------------ MODULE FactIngest ------------------------------
(***************************************************************************)
(* Long texts: remember_chunked stores the pieces of a text as notes,      *)
(* remember_report has the facts of each piece extracted and has the       *)
(* updater decide, fact by fact, to add, update, correct or leave alone.   *)
(* The LLM is shown the beginning of a piece; when it fails, a shorter     *)
(* beginning is the one fact of the piece; a completion without facts      *)
(* passes the piece over.  Nothing is undone when a call raises half way.  *)
(* A text is the lengths of its sentences; what the LLM answers is a       *)
(* choice.                                                                 *)
(***************************************************************************)
EXTENDS Lists

CONSTANTS Document,                 \* texts: sequences of sentence lengths
          PieceSize,                \* chunk_size
          PromptSize, FallbackSize, \* characters of a piece in the prompt (2000), kept on failure (500)
          MaxFacts, MinImportance,
          Answered,                 \* importances the LLM may give to the facts it lists
          Known                     \* notes that were in the store before: pieces 0

ASSUME FactConstants ==
  /\ Document \subseteq Seq(Nat) /\ Answered \subseteq Int
  /\ PieceSize \in Nat /\ PromptSize \in Nat /\ FallbackSize \in Nat
  /\ MaxFacts \in Nat \ {0} /\ MinImportance \in Nat

VARIABLES text,      \* the call: the text, by which entry point,
          stage,     \* where it is,
          pieces,    \* its pieces, as sequences of sentence numbers,
          piece,     \* the one it is at,
          facts,     \* per piece, importances of the facts kept (history, and the list it works on),
          taken,     \* where they come from, and how many characters of the piece that is (history)
          results,   \* and what it would return
          factNotes, \* notes it stored, in order: <<piece, fact>>
          replaced   \* notes superseded on its behalf
factVars == <<text, stage, pieces, piece, facts, taken, results, factNotes, replaced>>

-----------------------------------------------------------------------------
\* Greedy packing; a piece is closed when the next sentence, with its separator, would not fit.
Separator(entry) == IF entry = "chunked" THEN 1 ELSE 2
Cost(doc, i, sep) == doc[i] + sep
TotalCost(doc, piece_, sep) == FoldLeft(LAMBDA sum, i : sum + Cost(doc, i, sep), 0, piece_)
PieceLength(doc, p, sep) == TotalCost(doc, p, sep) - sep
Sentences(doc) == [i \in 1..Len(doc) |-> i]

Pack(acc, i, doc, sep) ==
  IF acc.open # <<>> /\ TotalCost(doc, acc.open, sep) + Cost(doc, i, sep) > PieceSize
  THEN [closed |-> Append(acc.closed, acc.open), open |-> <<i>>]
  ELSE [acc EXCEPT !.open = Append(@, i)]

\* Mutation of Split: the last piece is not added.
SplitOpen(doc, entry) ==
  LET sep == Separator(entry) IN
  FoldLeft(LAMBDA acc, i : Pack(acc, i, doc, sep), [closed |-> <<>>, open |-> <<>>], Sentences(doc)).closed

Split(doc, entry) ==
  LET sep == Separator(entry)
      packed == FoldLeft(LAMBDA acc, i : Pack(acc, i, doc, sep), [closed |-> <<>>, open |-> <<>>], Sentences(doc))
  IN IF PieceLength(doc, Sentences(doc), sep) <= PieceSize THEN <<Sentences(doc)>>
     ELSE Append(packed.closed, packed.open)

\* _parse_extraction_response sorts and cuts the list; unimportant facts are dropped after it.
Kept(answer) ==
  Only(Take(Descending(answer, answer), MaxFacts),
       {importance \in ToSet(answer) : importance >= MinImportance})
AnswerLists == UNION {[1..n -> Answered] : n \in 0..MaxFacts + 1}

FactTypeOK ==
  /\ text.doc \in Document /\ text.entry \in {"chunked", "report"}
  /\ stage \in {"idle", "extract", "apply", "returned", "raised"}
  /\ piece \in 1..Len(pieces) + 1 /\ Len(facts) <= Len(pieces)
  /\ \A i \in DOMAIN taken : taken[i].from \in {"text", "answer", "failure"} /\ taken[i].size \in Int
  /\ \A i \in DOMAIN results : results[i].status \in {"stored", "added", "updated", "corrected", "noop"}
  /\ replaced \subseteq Known \cup ToSet(factNotes)

FactInit ==
  /\ text \in [doc : Document, entry : {"chunked", "report"}]
  /\ stage = "idle" /\ pieces = <<>> /\ piece = 1 /\ facts = <<>> /\ taken = <<>> /\ results = <<>>
  /\ factNotes = <<>> /\ replaced = {}

-----------------------------------------------------------------------------
\* The beginning of a piece: Python's piece[:size].
Size(i) == PieceLength(text.doc, pieces[i], Separator(text.entry))
Beginning(i, size) == IF Size(i) < size THEN Size(i) ELSE size
Whole(doc, p) == [from |-> "text", size |-> PieceLength(doc, p, Separator("chunked"))]

Start ==
  /\ stage = "idle"
  /\ pieces' = Split(text.doc, text.entry)
  /\ stage' = IF text.entry = "chunked" THEN "apply" ELSE "extract"
  /\ facts' = IF text.entry = "chunked" THEN <<<<MinImportance>>>> ELSE <<>>
  /\ taken' = IF text.entry = "chunked" THEN <<Whole(text.doc, pieces'[1])>> ELSE <<>>
  /\ UNCHANGED <<text, piece, results, factNotes, replaced>>

Raise == stage' = "raised" /\ UNCHANGED <<text, pieces, piece, facts, taken, results>>

\* The next piece, or the end of the call.
NextPiece ==
  /\ piece' = piece + 1
  /\ stage' = IF piece = Len(pieces) THEN "returned" ELSE IF text.entry = "chunked" THEN "apply" ELSE "extract"

\* FactExtractor.extract: the prompt guard raises; the LLM lists facts of what it was shown (none,
\* if its completion is empty or cannot be parsed), or its failure leaves the beginning of the
\* piece as one fact of importance 5.
Takes(answer, from, size) ==
  /\ facts' = Append(facts, Kept(answer))
  /\ taken' = Append(taken, [from |-> from, size |-> IF Kept(answer) = <<>> THEN 0 ELSE Beginning(piece, size)])
  /\ IF Kept(answer) = <<>> THEN NextPiece ELSE stage' = "apply" /\ UNCHANGED piece

Extract ==
  /\ stage = "extract"
  /\ \/ \E answer \in AnswerLists : Takes(answer, "answer", PromptSize)
     \/ Takes(<<5>>, "failure", FallbackSize)
  /\ UNCHANGED <<text, pieces, results, factNotes, replaced>>

Refuse == stage = "extract" /\ Raise /\ UNCHANGED <<factNotes, replaced>>

\* How many facts of the piece have been dealt with, and the one that is next.
Settled == Cardinality({i \in DOMAIN results : results[i].piece = piece})
Ref == <<piece, Settled + 1>>

\* What happens to the fact: nothing, a new note, or a new note that replaces the most similar
\* one (an earlier note of this call, possibly).
Replaces(status) == status \in {"updated", "corrected"}
Statuses == IF text.entry = "chunked" THEN {"stored"} ELSE {"added", "updated", "corrected", "noop"}
Apply ==
  /\ stage = "apply"
  /\ \E status \in Statuses :
       /\ results' = Append(results, [piece |-> piece, fact |-> Settled + 1, status |-> status])
       /\ factNotes' = IF status = "noop" THEN factNotes ELSE Append(factNotes, Ref)
       /\ IF Replaces(status)
          THEN \E other \in Known \cup ToSet(factNotes) : replaced' = replaced \cup {other}
          ELSE UNCHANGED replaced
  /\ IF Settled + 1 < Len(Last(facts)) THEN UNCHANGED <<stage, piece, facts, taken>>
     ELSE /\ NextPiece
          /\ IF text.entry = "chunked" /\ piece < Len(pieces)
             THEN /\ facts' = Append(facts, <<MinImportance>>)
                  /\ taken' = Append(taken, Whole(text.doc, pieces[piece + 1]))
             ELSE UNCHANGED <<facts, taken>>
  /\ UNCHANGED <<text, pieces>>

\* The guard refuses the fact, or remember(), the rewrite or the marking raises: the note is
\* stored or it is not, and nobody is told which.
ApplyRaises ==
  /\ stage = "apply"
  /\ Raise
  /\ factNotes' \in {factNotes, Append(factNotes, Ref)}
  /\ UNCHANGED replaced

FactNext == Start \/ Extract \/ Refuse \/ Apply \/ ApplyRaises
FactSpec == FactInit /\ [][FactNext]_factVars

-----------------------------------------------------------------------------
StoredResults == Only(results, {r \in ToSet(results) : r.status # "noop"})
Fits(doc, p, sep) == Len(p) = 1 \/ PieceLength(doc, p, sep) <= PieceSize
\* How much of a piece its notes can be about.
Reach(i) == CASE taken[i].from = "text" -> Size(i)
              [] taken[i].from = "answer" -> Beginning(i, PromptSize)
              [] taken[i].from = "failure" -> Beginning(i, FallbackSize)

\* Every sentence of a text is in one piece, in order and within the size unless it is alone;
\* a call that returns has asked about every piece and has an answer for every fact it kept; the
\* notes it stored are, in the order of the text, those it reports, but for the one at which it
\* raised (memory_manager.py splits, extracts and applies in plain loops that an exception leaves).
\* What no note can be about is the end of a piece, beyond what the LLM was shown or what its
\* failure left, and the pieces of which no fact was kept: nothing else.
TextTakenInUpToAPoint ==
  /\ stage # "idle" =>
       /\ FlattenSeq(pieces) = Sentences(text.doc)
       /\ \A i \in DOMAIN pieces : Fits(text.doc, pieces[i], Separator(text.entry))
  /\ stage = "returned" => Len(facts) = Len(pieces) /\
       \A i \in DOMAIN pieces :
         [j \in 1..Len(facts[i]) |-> <<i, j>>] =
         Only([k \in DOMAIN results |-> <<results[k].piece, results[k].fact>>], {i} \X Nat)
  /\ LET told == [i \in DOMAIN StoredResults |-> <<StoredResults[i].piece, StoredResults[i].fact>>] IN
     factNotes = told \/ (stage = "raised" /\ factNotes = Append(told, Ref))
  /\ Len(taken) = Len(facts)
  /\ \A i \in DOMAIN facts : taken[i].size = IF facts[i] = <<>> THEN 0 ELSE Reach(i)
  /\ \A i \in DOMAIN facts : facts[i] = <<>> => \A k \in DOMAIN factNotes : factNotes[k][1] # i
=============================================================================
