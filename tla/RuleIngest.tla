------------------------------ MODULE RuleIngest ------------------------------
(***************************************************************************)
(* Ingestion of Sigma and YARA rules: a walk over a directory that refuses *)
(* links and files outside it, counts what it cannot parse, validates,     *)
(* looks every rule up by its source_ref, stores a note for a new one and  *)
(* then writes the edges of its relations one by one.  Several walks may   *)
(* run at once, and the process may crash between any two of their steps.  *)
(***************************************************************************)
EXTENDS Integers, Sequences, FiniteSets, SequencesExt

CONSTANTS Rule,          \* rules as parsed: [dialect, id, meta, tags, facets, related, cccs]
          LegacyRule,    \* those that an older version stored, without the typed detection slot
          Files,         \* what the globs find, in order: [kind, rules]
          Walker, MaxWalks, MaxIngestFaults

ASSUME LegacyRules == LegacyRule \subseteq Rule
ASSUME WalkConstants == IsFiniteSet(Walker) /\ Walker # {} /\ MaxWalks \in Nat /\ MaxIngestFaults \in Nat

VARIABLES ruleNotes,   \* notes per source_ref, which is the rule: how many remember() made
          untyped,     \* rules whose note has no detection slot
          ruleEdges,   \* the edges of the graph
          walk,        \* the walks
          walks, ingestFaults,
          raced,       \* rules that two walks were adding at once (history)
          hurt         \* rules whose ingestion a fault or a crash cut short, or whose note an older
                       \* version stored without all of its edges (history)
ingestVars == <<ruleNotes, untyped, ruleEdges, walk, walks, ingestFaults, raced, hurt>>

Tiers == {"warn", "strict", "non_cccs"}
Idle == [at |-> "idle", tier |-> "warn", todo |-> <<>>, left |-> {}, ingested |-> {}, skipped |-> 0, taken |-> 0]

-----------------------------------------------------------------------------
\* from_rule_dict, rule_to_entities: the relations a rule yields.  Sigma keeps every tag and
\* adds a typed edge for those it can resolve; YARA emits one edge per tag, and one for each of
\* three fields of the rule's CCCS metadata.
Edge(r, rel, to) == [from |-> r.id, rel |-> rel, to |-> to]
TypedEdge == [technique |-> "detects", cve |-> "references_cve", group |-> "attributed_to", software |-> "attributed_to"]
MetaEdge == [mitre_att |-> "detects", technique |-> "tagged_with", actor |-> "attributed_to"]

ASSUME RuleFields == \A r \in Rule : {m.field : m \in r.cccs} \subseteq DOMAIN MetaEdge

TypedBy(r) == IF r.dialect = "sigma" THEN DOMAIN TypedEdge ELSE {"technique", "cve"}
RelationsOf(r) ==
  LET typed == {t \in r.tags : t.kind \in TypedBy(r)} IN
  {Edge(r, "applies_to", f) : f \in r.facets}
  \cup {Edge(r, "tagged_with", t.raw) : t \in IF r.dialect = "sigma" THEN r.tags ELSE r.tags \ typed}
  \cup {Edge(r, TypedEdge[t.kind], t.name) : t \in typed}
  \cup {Edge(r, MetaEdge[m.field], m.name) : m \in r.cccs}
  \cup {Edge(r, IF o.obsolete THEN "superseded_by" ELSE "related_to", o.id) : o \in r.related}

\* validate_metadata: a required field that is missing or malformed is an error in the strict
\* tier and a warning elsewhere; optional fields only ever warn.  Sigma has its schema instead.
Rejected(r, tier) ==
  IF r.dialect = "sigma" THEN r.meta = "bad_required"
  ELSE tier = "strict" /\ r.meta \in {"missing_required", "bad_required"}

\* ingest_rules_dir: a file that is a link, lies elsewhere or does not parse is one skip, a
\* directory is none; a YARA file may hold several rules.
Entries(f) ==
  CASE f.kind = "directory" -> <<>>
    [] f.kind \in {"link", "outside", "unparsable"} -> <<{}>>
    [] f.kind = "rules" -> [i \in DOMAIN f.rules |-> {f.rules[i]}]
Found == FlattenSeq([i \in DOMAIN Files |-> Entries(Files[i])])

ASSUME FoundRules == Found \in Seq(SUBSET Rule)

Current(w) == CHOOSE r \in Head(walk[w].todo) : TRUE
Adding(r) == {w \in Walker : walk[w].at = "store" /\ Current(w) = r}
MoveTo(w, at) == walk' = [walk EXCEPT ![w].at = at]
NextRule(w, entry) ==
  walk' = [walk EXCEPT ![w] = [entry EXCEPT !.at = "walk", !.todo = Tail(@), !.left = {}]]
Skip(w) == NextRule(w, [walk[w] EXCEPT !.skipped = @ + 1])
Ingested(w) == NextRule(w, [walk[w] EXCEPT !.ingested = @ \cup {Current(w)}, !.taken = @ + 1])
RulesUnchanged == UNCHANGED <<ruleNotes, untyped, ruleEdges>>

IngestTypeOK ==
  /\ ruleNotes \in [Rule -> 0..Cardinality(Walker)] /\ untyped \subseteq Rule
  /\ \A e \in ruleEdges : e.rel \in {"applies_to", "tagged_with", "detects", "references_cve",
                                     "attributed_to", "superseded_by", "related_to"}
  /\ \A w \in Walker : /\ walk[w].at \in {"idle", "walk", "lookup", "backfill", "store", "relate", "done"}
                       /\ walk[w].tier \in Tiers /\ walk[w].ingested \subseteq Rule
                       /\ walk[w].left # {} => walk[w].left \subseteq RelationsOf(Current(w))
  /\ walks \in 0..MaxWalks /\ ingestFaults \in 0..MaxIngestFaults
  /\ raced \subseteq Rule /\ hurt \subseteq Rule

IngestInit ==
  /\ ruleNotes = [r \in Rule |-> IF r \in LegacyRule THEN 1 ELSE 0] /\ untyped = LegacyRule
  /\ ruleEdges \in SUBSET UNION {RelationsOf(r) : r \in LegacyRule}
  /\ hurt = {r \in LegacyRule : ~(RelationsOf(r) \subseteq ruleEdges)}
  /\ walk = [w \in Walker |-> Idle] /\ walks = 0 /\ ingestFaults = 0 /\ raced = {}

IngestDir(w, tier) ==
  /\ walk[w].at = "idle" /\ walks < MaxWalks
  /\ walks' = walks + 1
  /\ walk' = [walk EXCEPT ![w] = [Idle EXCEPT !.at = "walk", !.tier = tier,
                                              !.todo = Found]]
  /\ RulesUnchanged /\ UNCHANGED <<ingestFaults, raced, hurt>>

TakeEntry(w) ==
  /\ walk[w].at = "walk" /\ walk[w].todo # <<>>
  /\ IF Head(walk[w].todo) = {} \/ Rejected(Current(w), walk[w].tier) THEN Skip(w) ELSE MoveTo(w, "lookup")
  /\ RulesUnchanged /\ UNCHANGED <<walks, ingestFaults, raced, hurt>>

\* get_note_by_source_ref: a rule that is there is not looked at again, except for the slot;
\* Sigma counts it as ingested, YARA as skipped.
Present(w) == IF Current(w).dialect = "sigma" THEN Ingested(w) ELSE Skip(w)

\* Mutation of LookupRule: the walk does not look for the rule.
LookupNothing(w) ==
  /\ walk[w].at = "lookup" /\ MoveTo(w, "store")
  /\ RulesUnchanged /\ UNCHANGED <<walks, ingestFaults, raced, hurt>>

LookupRule(w) ==
  LET r == Current(w) IN
  /\ walk[w].at = "lookup"
  /\ \/ ruleNotes[r] = 0 /\ MoveTo(w, "store") /\ raced' = (IF Adding(r) = {} THEN raced ELSE raced \cup {r})
     \/ ruleNotes[r] > 0 /\ r \in untyped /\ MoveTo(w, "backfill") /\ UNCHANGED raced
     \/ ruleNotes[r] > 0 /\ r \notin untyped /\ Present(w) /\ UNCHANGED raced
  /\ RulesUnchanged /\ UNCHANGED <<walks, ingestFaults, hurt>>

Backfill(w) ==
  /\ walk[w].at = "backfill"
  /\ untyped' = untyped \ {Current(w)} /\ Present(w)
  /\ UNCHANGED <<ruleNotes, ruleEdges, walks, ingestFaults, raced, hurt>>

\* The lookup raises, or the rewrite that fills in the slot does, before its commit or in it; the
\* walk counts a skip and goes on.
IngestRaises(w, committed) ==
  /\ walk[w].at \in {"lookup", "backfill"} /\ ingestFaults < MaxIngestFaults
  /\ ingestFaults' = ingestFaults + 1
  /\ untyped' = IF committed /\ walk[w].at = "backfill" THEN untyped \ {Current(w)} ELSE untyped
  /\ Skip(w)
  /\ UNCHANGED <<ruleNotes, ruleEdges, walks, raced, hurt>>

\* mm.remember commits the note.
StoreRule(w) ==
  LET r == Current(w) IN
  /\ walk[w].at = "store"
  /\ ruleNotes' = [ruleNotes EXCEPT ![r] = @ + 1]
  /\ walk' = [walk EXCEPT ![w].at = "relate", ![w].left = RelationsOf(r)]
  /\ UNCHANGED <<untyped, ruleEdges, walks, ingestFaults, raced, hurt>>

\* remember() raises, before its note is committed or after: the walk counts a skip and goes on.
RememberRaises(w, committed) ==
  LET r == Current(w) IN
  /\ walk[w].at = "store" /\ ingestFaults < MaxIngestFaults
  /\ ingestFaults' = ingestFaults + 1
  /\ ruleNotes' = [ruleNotes EXCEPT ![r] = @ + committed]
  /\ hurt' = hurt \cup {r} /\ Skip(w)
  /\ UNCHANGED <<untyped, ruleEdges, walks, raced>>

\* _persist_relations: an edge that cannot be written is logged, and the next one is tried.
AddRelation(w, e) ==
  /\ walk[w].at = "relate" /\ e \in walk[w].left
  /\ ruleEdges' = ruleEdges \cup {e}
  /\ walk' = [walk EXCEPT ![w].left = @ \ {e}]
  /\ UNCHANGED <<ruleNotes, untyped, walks, ingestFaults, raced, hurt>>

AddRelationFails(w, e) ==
  /\ walk[w].at = "relate" /\ e \in walk[w].left /\ ingestFaults < MaxIngestFaults
  /\ ingestFaults' = ingestFaults + 1
  /\ walk' = [walk EXCEPT ![w].left = @ \ {e}]
  /\ hurt' = hurt \cup {Current(w)}
  /\ UNCHANGED <<ruleNotes, untyped, ruleEdges, walks, raced>>

Related(w) ==
  /\ walk[w].at = "relate" /\ walk[w].left = {}
  /\ Ingested(w)
  /\ RulesUnchanged /\ UNCHANGED <<walks, ingestFaults, raced, hurt>>

\* The end of the walk (a bulk walk calls flush() first), and the caller's reading of the counts.
EndOfWalk(w) ==
  /\ walk[w].at = "walk" /\ walk[w].todo = <<>> /\ MoveTo(w, "done")
  /\ RulesUnchanged /\ UNCHANGED <<walks, ingestFaults, raced, hurt>>

CountsRead(w) ==
  /\ walk[w].at = "done" /\ walk' = [walk EXCEPT ![w] = Idle]
  /\ RulesUnchanged /\ UNCHANGED <<walks, ingestFaults, raced, hurt>>

IngestCrash ==
  /\ ingestFaults < MaxIngestFaults /\ ingestFaults' = ingestFaults + 1
  /\ hurt' = hurt \cup {Current(w) : w \in {v \in Walker : walk[v].at \in {"store", "relate"}}}
  /\ walk' = [w \in Walker |-> Idle]
  /\ RulesUnchanged /\ UNCHANGED <<walks, raced>>

IngestNext ==
  \/ \E w \in Walker :
       \/ \E tier \in Tiers : IngestDir(w, tier)
       \/ TakeEntry(w) \/ LookupRule(w) \/ Backfill(w) \/ StoreRule(w) \/ Related(w)
       \/ \E committed \in 0..1 : RememberRaises(w, committed)
       \/ \E committed \in BOOLEAN : IngestRaises(w, committed)
       \/ \E e \in walk[w].left : AddRelation(w, e) \/ AddRelationFails(w, e)
       \/ EndOfWalk(w) \/ CountsRead(w)
  \/ IngestCrash

IngestSpec == IngestInit /\ [][IngestNext]_ingestVars

-----------------------------------------------------------------------------
WritingRelation(r, e) == \E w \in Walker : walk[w].at = "relate" /\ Current(w) = r /\ e \in walk[w].left

\* What re-ingesting a directory does not repair, and nothing else, is wrong: a rule has two
\* notes only if two walks were adding it at once, and a rule that has a note lacks an edge
\* only while its walk is writing them, after a fault or a crash, or if an older version left it
\* so (ingest_rule returns early for a rule it finds, sigma/ingest.py:101).  No edge stands
\* without a note that yields it, and the counts of a walk add up to what the globs found, with a
\* note and its typed slot for every rule counted as ingested (yara/ingest.py:200).
RulesExplained ==
  /\ \A r \in Rule : ruleNotes[r] > 1 => r \in raced
  /\ \A r \in Rule : ruleNotes[r] > 0 /\ r \notin hurt =>
       \A e \in RelationsOf(r) : e \in ruleEdges \/ WritingRelation(r, e)
  /\ \A e \in ruleEdges : \E r \in Rule : ruleNotes[r] > 0 /\ e \in RelationsOf(r)
  /\ \A w \in Walker : walk[w].at = "done" =>
       /\ walk[w].taken + walk[w].skipped = Len(Found)
       /\ \A r \in walk[w].ingested : ruleNotes[r] > 0 /\ r \notin untyped
=============================================================================
