---------------------------- MODULE IngestionProofs ----------------------------
(***************************************************************************)
(* Theorems about what enters the store from outside: walks over Sigma and *)
(* YARA rules, OSINT runs, and the migration of the old JSONL files.  For  *)
(* any rules, files, collectors, faults and bounds.                        *)
(***************************************************************************)
EXTENDS RuleIngest, OsintRuns, Migration, SequenceTheorems, FiniteSetTheorems, TLAPS

-----------------------------------------------------------------------------
(* Rules: types *)

Relations == UNION {RelationsOf(r) : r \in Rule}
Walk == [at : {"idle", "walk", "lookup", "backfill", "store", "relate", "done"}, tier : Tiers,
         todo : Seq(SUBSET Rule), left : SUBSET Relations, ingested : SUBSET Rule,
         skipped : Nat, taken : Nat]

WalkTypes ==
  /\ ruleNotes \in [Rule -> Nat] /\ walk \in [Walker -> Walk]
  /\ untyped \subseteq Rule /\ raced \subseteq Rule /\ hurt \subseteq Rule

\* A walk at a rule has one at the head of what it found.
AtRule(w) == walk[w].todo # <<>> /\ Head(walk[w].todo) # {}
WalksAtRules ==
  /\ WalkTypes
  /\ \A w \in Walker : walk[w].at \in {"lookup", "backfill", "store", "relate"} => AtRule(w)

\* The rule a walk is at is one.
LEMMA CurrentRule ==
  ASSUME WalkTypes, NEW w \in Walker, AtRule(w)
  PROVE Current(w) \in Head(walk[w].todo) /\ Current(w) \in Rule
<1>1. walk[w] \in Walk BY DEF WalkTypes
<1>2. walk[w].todo \in Seq(SUBSET Rule) BY <1>1 DEF Walk
<1>3. Head(walk[w].todo) \in SUBSET Rule BY <1>2, HeadTailProperties DEF AtRule
<1> QED BY <1>3 DEF Current, AtRule

\* What a step does to the walk that goes on to the next entry.
Advanced(w, more) ==
  /\ walk' \in [Walker -> Walk] /\ \A v \in Walker \ {w} : walk'[v] = walk[v]
  /\ walk'[w].at = "walk" /\ walk'[w].todo = Tail(walk[w].todo) /\ walk'[w].left = {}
  /\ walk'[w].taken + walk'[w].skipped = walk[w].taken + walk[w].skipped + 1
  /\ walk'[w].ingested = walk[w].ingested \cup more

\* An entry passed over.
LEMMA SkipEffect ==
  ASSUME WalkTypes, NEW w \in Walker, walk[w].todo # <<>>, Skip(w)
  PROVE Advanced(w, {})
<1>1. walk[w] \in Walk /\ walk \in [Walker -> Walk] BY DEF WalkTypes
<1>2. walk[w].todo \in Seq(SUBSET Rule) BY <1>1 DEF Walk
<1>3. Tail(walk[w].todo) \in Seq(SUBSET Rule) BY <1>2, HeadTailProperties
<1> DEFINE k == walk[w].skipped + 1
<1>11. k \in Nat BY <1>1 DEF Walk
<1> DEFINE mid == [walk[w] EXCEPT !.skipped = k]
<1> DEFINE new == [mid EXCEPT !.at = "walk", !.todo = Tail(@), !.left = {}]
<1>10. mid \in Walk /\ mid.todo = walk[w].todo
  <2> HIDE DEF k
  <2> QED BY <1>1, <1>11 DEF Walk
<1>4. new \in Walk
  <2> HIDE DEF mid
  <2> QED BY <1>10, <1>3 DEF Walk
<1>5. /\ new.at = "walk" /\ new.todo = Tail(walk[w].todo) /\ new.left = {}
      /\ new.taken = walk[w].taken /\ new.skipped = walk[w].skipped + 1
      /\ new.ingested = walk[w].ingested
  BY <1>1 DEF Walk
<1>6. walk' = [walk EXCEPT ![w] = new] BY DEF Skip, NextRule
<1>7. walk[w].taken \in Nat /\ walk[w].skipped \in Nat BY <1>1 DEF Walk
<1> HIDE DEF new
<1>8. walk'[w] = new /\ walk' \in [Walker -> Walk] /\ \A v \in Walker \ {w} : walk'[v] = walk[v]
  BY <1>1, <1>4, <1>6
<1>9. walk'[w].taken + walk'[w].skipped = walk[w].taken + walk[w].skipped + 1 BY <1>5, <1>7, <1>8
<1> QED BY <1>5, <1>8, <1>9 DEF Advanced

\* A rule counted as ingested.
LEMMA IngestedEffect ==
  ASSUME WalkTypes, NEW w \in Walker, AtRule(w), Ingested(w)
  PROVE Advanced(w, {Current(w)})
<1>1. walk[w] \in Walk /\ walk \in [Walker -> Walk] BY DEF WalkTypes
<1>2. walk[w].todo \in Seq(SUBSET Rule) BY <1>1 DEF Walk
<1>3. Tail(walk[w].todo) \in Seq(SUBSET Rule) BY <1>2, HeadTailProperties DEF AtRule
<1>4. Current(w) \in Rule BY CurrentRule
<1> DEFINE r == Current(w)
<1> DEFINE k == walk[w].taken + 1
<1>13. k \in Nat BY <1>1 DEF Walk
<1> DEFINE mid == [walk[w] EXCEPT !.ingested = @ \cup {r}, !.taken = k]
<1> DEFINE new == [mid EXCEPT !.at = "walk", !.todo = Tail(@), !.left = {}]
<1>5. walk' = [walk EXCEPT ![w] = new] BY DEF Ingested, NextRule
<1> HIDE DEF r
<1>6. r \in Rule BY <1>4 DEF r
<1>12. mid \in Walk /\ mid.todo = walk[w].todo
  <2> HIDE DEF k
  <2> QED BY <1>1, <1>6, <1>13 DEF Walk
<1>7. new \in Walk
  <2> HIDE DEF mid
  <2> QED BY <1>12, <1>3 DEF Walk
<1>8. /\ new.at = "walk" /\ new.todo = Tail(walk[w].todo) /\ new.left = {}
      /\ new.taken = walk[w].taken + 1 /\ new.skipped = walk[w].skipped
      /\ new.ingested = walk[w].ingested \cup {r}
  BY <1>1 DEF Walk
<1>9. walk[w].taken \in Nat /\ walk[w].skipped \in Nat BY <1>1 DEF Walk
<1> HIDE DEF new
<1>10. walk'[w] = new /\ walk' \in [Walker -> Walk] /\ \A v \in Walker \ {w} : walk'[v] = walk[v]
  BY <1>1, <1>5, <1>7
<1>11. walk'[w].taken + walk'[w].skipped = walk[w].taken + walk[w].skipped + 1 BY <1>8, <1>9, <1>10
<1> QED BY <1>8, <1>10, <1>11 DEF Advanced, r

\* A rule that is there already: one or the other.
LEMMA PresentEffect ==
  ASSUME WalkTypes, NEW w \in Walker, AtRule(w), Present(w)
  PROVE Advanced(w, {Current(w)}) \/ Advanced(w, {})
BY SkipEffect, IngestedEffect DEF Present, AtRule

\* A lookup or a rewrite that raised: the entry is passed over, and at most the slot is filled.
LEMMA RaisesEffect ==
  ASSUME WalksAtRules, NEW w \in Walker, NEW committed \in BOOLEAN, IngestRaises(w, committed)
  PROVE /\ AtRule(w) /\ walk[w].todo # <<>> /\ walk[w].at \in {"lookup", "backfill"} /\ Advanced(w, {})
        /\ untyped' \subseteq untyped /\ ruleNotes' = ruleNotes /\ ruleEdges' = ruleEdges
        /\ walks' = walks /\ raced' = raced /\ hurt' = hurt
        /\ ingestFaults < MaxIngestFaults /\ ingestFaults' = ingestFaults + 1
<1>1. /\ walk[w].at \in {"lookup", "backfill"} /\ Skip(w) /\ untyped' \subseteq untyped
      /\ UNCHANGED <<ruleNotes, ruleEdges, walks, raced, hurt>>
      /\ ingestFaults < MaxIngestFaults /\ ingestFaults' = ingestFaults + 1
  BY DEF IngestRaises
<1>2. AtRule(w) /\ walk[w].todo # <<>> BY <1>1 DEF WalksAtRules, AtRule
<1>3. Advanced(w, {}) BY <1>1, <1>2, SkipEffect DEF WalksAtRules
<1> QED BY <1>1, <1>2, <1>3

\* A walk that only goes to another place.
LEMMA MoveToEffect ==
  ASSUME WalkTypes, NEW w \in Walker,
         NEW at \in {"idle", "walk", "lookup", "backfill", "store", "relate", "done"}, MoveTo(w, at)
  PROVE /\ walk' \in [Walker -> Walk] /\ \A v \in Walker \ {w} : walk'[v] = walk[v]
        /\ walk'[w].at = at /\ walk'[w].todo = walk[w].todo /\ walk'[w].left = walk[w].left
        /\ walk'[w].taken = walk[w].taken /\ walk'[w].skipped = walk[w].skipped
        /\ walk'[w].ingested = walk[w].ingested
<1>1. walk[w] \in Walk /\ walk \in [Walker -> Walk] BY DEF WalkTypes
<1> DEFINE new == [walk[w] EXCEPT !.at = at]
<1>2. new \in Walk BY <1>1 DEF Walk
<1>3. walk' = [walk EXCEPT ![w] = new] BY DEF MoveTo
<1>4. /\ new.at = at /\ new.todo = walk[w].todo /\ new.left = walk[w].left
      /\ new.taken = walk[w].taken /\ new.skipped = walk[w].skipped /\ new.ingested = walk[w].ingested
  BY <1>1 DEF Walk
<1> HIDE DEF new
<1> QED BY <1>1, <1>2, <1>3, <1>4

\* A walk whose remaining relations change, and nothing else but its place.
LEMMA LeftEffect ==
  ASSUME WalkTypes, NEW w \in Walker, NEW left \in SUBSET Relations,
         NEW at \in {"store", "relate"},
         walk' = [walk EXCEPT ![w].at = at, ![w].left = left]
  PROVE /\ walk' \in [Walker -> Walk] /\ \A v \in Walker \ {w} : walk'[v] = walk[v]
        /\ walk'[w].at = at /\ walk'[w].todo = walk[w].todo /\ walk'[w].left = left
        /\ walk'[w].taken = walk[w].taken /\ walk'[w].skipped = walk[w].skipped
        /\ walk'[w].ingested = walk[w].ingested
<1>1. walk[w] \in Walk /\ walk \in [Walker -> Walk] BY DEF WalkTypes
<1> DEFINE new == [walk[w] EXCEPT !.at = at, !.left = left]
<1>2. new \in Walk BY <1>1 DEF Walk
<1>3. walk' = [walk EXCEPT ![w] = new] BY <1>1 DEF Walk
<1>4. /\ new.at = at /\ new.todo = walk[w].todo /\ new.left = left
      /\ new.taken = walk[w].taken /\ new.skipped = walk[w].skipped /\ new.ingested = walk[w].ingested
  BY <1>1 DEF Walk
<1> HIDE DEF new
<1> QED BY <1>1, <1>2, <1>3, <1>4

\* The relations of a rule are among all of them.
LEMMA RelationsTyped == \A r \in Rule : RelationsOf(r) \subseteq Relations
BY DEF Relations

\* A walk that keeps its entries is at the rule it was at.
LEMMA CurrentKept ==
  ASSUME NEW w \in Walker, walk'[w].todo = walk[w].todo
  PROVE Current(w)' = Current(w) /\ (AtRule(w)' <=> AtRule(w))
BY DEF Current, AtRule

\* A note more, or none.
LEMMA NoteAdded ==
  ASSUME WalkTypes, NEW r \in Rule, NEW k \in 0..1, ruleNotes' = [ruleNotes EXCEPT ![r] = @ + k]
  PROVE /\ ruleNotes' \in [Rule -> Nat] /\ ruleNotes'[r] = ruleNotes[r] + k
        /\ \A s \in Rule \ {r} : ruleNotes'[s] = ruleNotes[s]
<1>1. ruleNotes \in [Rule -> Nat] BY DEF WalkTypes
<1>2. ruleNotes[r] + k \in Nat BY <1>1
<1> QED BY <1>1, <1>2

\* A walk that begins, and a crash that ends them all.
LEMMA IdleTyped == Idle \in Walk /\ \A tier \in Tiers : [Idle EXCEPT !.at = "walk", !.tier = tier, !.todo = Found] \in Walk
<1>1. <<>> \in Seq(SUBSET Rule) OBVIOUS
<1>2. "warn" \in Tiers BY DEF Tiers
<1>3. Idle \in Walk BY <1>1, <1>2 DEF Idle, Walk
<1>4. ASSUME NEW tier \in Tiers PROVE [Idle EXCEPT !.at = "walk", !.tier = tier, !.todo = Found] \in Walk
  BY <1>3, <1>4, FoundRules DEF Walk
<1> QED BY <1>3, <1>4

\* The start of a walk.
LEMMA IngestDirEffect ==
  ASSUME WalkTypes, NEW w \in Walker, NEW tier \in Tiers, IngestDir(w, tier)
  PROVE /\ walk' \in [Walker -> Walk] /\ \A v \in Walker \ {w} : walk'[v] = walk[v]
        /\ walk'[w].at = "walk" /\ walk'[w].todo = Found /\ walk'[w].ingested = {}
        /\ walk'[w].taken = 0 /\ walk'[w].skipped = 0
<1> DEFINE new == [Idle EXCEPT !.at = "walk", !.tier = tier, !.todo = Found]
<1>1. new \in Walk BY IdleTyped
<1>2. /\ new.at = "walk" /\ new.todo = Found /\ new.ingested = {} /\ new.taken = 0 /\ new.skipped = 0
  BY DEF Idle
<1>3. walk' = [walk EXCEPT ![w] = new] BY DEF IngestDir
<1>4. walk \in [Walker -> Walk] BY DEF WalkTypes
<1> HIDE DEF new
<1> QED BY <1>1, <1>2, <1>3, <1>4

\* A walk at a rule stays at one, or leaves: types.
LEMMA WalkTypesStep == WalksAtRules /\ [IngestNext]_ingestVars => WalksAtRules'
<1> SUFFICES ASSUME WalksAtRules, [IngestNext]_ingestVars PROVE WalksAtRules'
  OBVIOUS
<1> USE DEF RulesUnchanged
<1>0. WalkTypes BY DEF WalksAtRules
<1> DEFINE Other(w) == walk' \in [Walker -> Walk] /\ \A v \in Walker \ {w} : walk'[v] = walk[v]
<1> DEFINE Fine(w) == walk'[w].at \in {"lookup", "backfill", "store", "relate"} => AtRule(w)'
<1>1. ASSUME NEW w \in Walker, Other(w), Fine(w),
             ruleNotes' \in [Rule -> Nat], untyped' \subseteq Rule, raced' \subseteq Rule, hurt' \subseteq Rule
      PROVE WalksAtRules'
  <2>1. \A v \in Walker \ {w} : AtRule(v)' <=> AtRule(v) BY <1>1 DEF AtRule
  <2>2. ASSUME NEW v \in Walker, walk'[v].at \in {"lookup", "backfill", "store", "relate"} PROVE AtRule(v)'
    <3>1. CASE v = w BY <1>1, <2>2, <3>1
    <3>2. CASE v # w
      <4>1. walk'[v] = walk[v] BY <1>1, <3>2
      <4>2. AtRule(v) BY <2>2, <4>1 DEF WalksAtRules
      <4> QED BY <2>1, <3>2, <4>2
    <3> QED BY <3>1, <3>2
  <2> QED BY <1>1, <2>2 DEF WalksAtRules, WalkTypes
<1> HIDE DEF Other, Fine
<1>2. /\ ruleNotes \in [Rule -> Nat] /\ untyped \subseteq Rule /\ raced \subseteq Rule /\ hurt \subseteq Rule
      /\ walk \in [Walker -> Walk]
  BY DEF WalksAtRules, WalkTypes
<1>3. ASSUME NEW w \in Walker, NEW more, Advanced(w, more) PROVE Other(w) /\ Fine(w)
  BY <1>3 DEF Advanced, Other, Fine
<1>4. ASSUME NEW w \in Walker, NEW tier \in Tiers, IngestDir(w, tier) PROVE WalksAtRules'
  <2>1. Other(w) /\ Fine(w) BY <1>0, <1>4, IngestDirEffect DEF Other, Fine
  <2> QED BY <1>1, <1>2, <1>4, <2>1 DEF IngestDir
<1>5. ASSUME NEW w \in Walker, TakeEntry(w) PROVE WalksAtRules'
  <2>1. CASE Skip(w)
    <3>1. Other(w) /\ Fine(w) BY <1>0, <1>3, <1>5, <2>1, SkipEffect DEF TakeEntry
    <3> QED BY <1>1, <1>2, <1>5, <3>1 DEF TakeEntry
  <2>2. CASE MoveTo(w, "lookup") /\ Head(walk[w].todo) # {}
    <3>1. Other(w) /\ walk'[w].todo = walk[w].todo BY <1>0, <2>2, MoveToEffect DEF Other
    <3>2. Fine(w) BY <1>5, <2>2, <3>1, CurrentKept DEF Fine, AtRule, TakeEntry
    <3> QED BY <1>1, <1>2, <1>5, <3>1, <3>2 DEF TakeEntry
  <2> QED BY <1>5, <2>1, <2>2 DEF TakeEntry
<1>6. ASSUME NEW w \in Walker, LookupRule(w) PROVE WalksAtRules'
  <2>1. AtRule(w) /\ Current(w) \in Rule BY <1>0, <1>6, CurrentRule DEF LookupRule, WalksAtRules
  <2>2. raced' \subseteq Rule BY <1>2, <1>6, <2>1 DEF LookupRule
  <2>3. CASE MoveTo(w, "store") \/ MoveTo(w, "backfill")
    <3>1. Other(w) /\ walk'[w].todo = walk[w].todo BY <1>0, <2>3, MoveToEffect DEF Other
    <3>2. Fine(w) BY <2>1, <3>1, CurrentKept DEF Fine
    <3> QED BY <1>1, <1>2, <1>6, <2>2, <3>1, <3>2 DEF LookupRule
  <2>4. CASE Present(w)
    <3>1. Other(w) /\ Fine(w) BY <1>0, <1>3, <2>1, <2>4, PresentEffect
    <3> QED BY <1>1, <1>2, <1>6, <2>2, <3>1 DEF LookupRule
  <2> QED BY <1>6, <2>3, <2>4 DEF LookupRule
<1>7. ASSUME NEW w \in Walker, Backfill(w) PROVE WalksAtRules'
  <2>1. AtRule(w) BY <1>7 DEF Backfill, WalksAtRules
  <2>2. Other(w) /\ Fine(w) BY <1>0, <1>3, <1>7, <2>1, PresentEffect DEF Backfill
  <2> QED BY <1>1, <1>2, <1>7, <2>2 DEF Backfill
<1>8. ASSUME NEW w \in Walker, StoreRule(w) PROVE WalksAtRules'
  <2>1. AtRule(w) /\ Current(w) \in Rule BY <1>0, <1>8, CurrentRule DEF StoreRule, WalksAtRules
  <2>2. RelationsOf(Current(w)) \subseteq Relations BY <2>1, RelationsTyped
  <2>3. Other(w) /\ walk'[w].todo = walk[w].todo BY <1>0, <1>8, <2>2, LeftEffect DEF StoreRule, Other
  <2>4. Fine(w) BY <2>1, <2>3, CurrentKept DEF Fine
  <2>5. ruleNotes' \in [Rule -> Nat] BY <1>2, <1>8, <2>1 DEF StoreRule
  <2> QED BY <1>1, <1>2, <1>8, <2>3, <2>4, <2>5 DEF StoreRule
<1>9. ASSUME NEW w \in Walker, NEW committed \in 0..1, RememberRaises(w, committed) PROVE WalksAtRules'
  <2>1. AtRule(w) /\ Current(w) \in Rule BY <1>0, <1>9, CurrentRule DEF RememberRaises, WalksAtRules
  <2>2. Other(w) /\ Fine(w) BY <1>0, <1>3, <1>9, <2>1, SkipEffect DEF RememberRaises, AtRule
  <2>3. ruleNotes' \in [Rule -> Nat] BY <1>0, <1>9, <2>1, NoteAdded DEF RememberRaises
  <2>4. hurt' \subseteq Rule BY <1>2, <1>9, <2>1 DEF RememberRaises
  <2> QED BY <1>1, <1>2, <1>9, <2>2, <2>3, <2>4 DEF RememberRaises
<1>10. ASSUME NEW w \in Walker, NEW e \in walk[w].left, AddRelation(w, e) \/ AddRelationFails(w, e)
       PROVE WalksAtRules'
  <2>1. AtRule(w) /\ Current(w) \in Rule
    BY <1>0, <1>10, CurrentRule DEF AddRelation, AddRelationFails, WalksAtRules
  <2>2. walk[w] \in Walk BY <1>2
  <2>3. walk[w].left \ {e} \in SUBSET Relations BY <2>2 DEF Walk
  <2>4. walk' = [walk EXCEPT ![w].at = "relate", ![w].left = walk[w].left \ {e}]
    BY <1>2, <1>10, <2>2 DEF AddRelation, AddRelationFails, Walk
  <2>5. Other(w) /\ walk'[w].todo = walk[w].todo BY <1>0, <2>3, <2>4, LeftEffect DEF Other
  <2>6. Fine(w) BY <2>1, <2>5, CurrentKept DEF Fine
  <2>7. hurt' \subseteq Rule BY <1>2, <1>10, <2>1 DEF AddRelation, AddRelationFails
  <2> QED BY <1>1, <1>2, <1>10, <2>5, <2>6, <2>7 DEF AddRelation, AddRelationFails
<1>11. ASSUME NEW w \in Walker, Related(w) PROVE WalksAtRules'
  <2>1. AtRule(w) BY <1>11 DEF Related, WalksAtRules
  <2>2. Other(w) /\ Fine(w) BY <1>0, <1>3, <1>11, <2>1, IngestedEffect DEF Related
  <2> QED BY <1>1, <1>2, <1>11, <2>2 DEF Related
<1>12. ASSUME NEW w \in Walker, EndOfWalk(w) PROVE WalksAtRules'
  <2>1. Other(w) /\ Fine(w) BY <1>0, <1>12, MoveToEffect DEF EndOfWalk, Other, Fine
  <2> QED BY <1>1, <1>2, <1>12, <2>1 DEF EndOfWalk
<1>13. ASSUME NEW w \in Walker, CountsRead(w) PROVE WalksAtRules'
  <2>1. Idle.at = "idle" BY DEF Idle
  <2>2. Other(w) /\ Fine(w) BY <1>2, <1>13, <2>1, IdleTyped DEF CountsRead, Other, Fine
  <2> QED BY <1>1, <1>2, <1>13, <2>2 DEF CountsRead
<1>14. ASSUME IngestCrash PROVE WalksAtRules'
  <2>1. Idle \in Walk /\ Idle.at = "idle" BY IdleTyped DEF Idle
  <2>2. walk' \in [Walker -> Walk] /\ \A w \in Walker : walk'[w].at = "idle" BY <1>14, <2>1 DEF IngestCrash
  <2>3. \A w \in {v \in Walker : walk[v].at \in {"store", "relate"}} : Current(w) \in Rule
    BY <1>0, CurrentRule DEF WalksAtRules
  <2>4. hurt' \subseteq Rule BY <1>2, <1>14, <2>3 DEF IngestCrash
  <2> QED BY <1>2, <1>14, <2>2, <2>4 DEF IngestCrash, WalksAtRules, WalkTypes
<1>15. CASE UNCHANGED ingestVars
  BY <1>15 DEF ingestVars, WalksAtRules, WalkTypes, AtRule
<1>16. ASSUME NEW w \in Walker, NEW committed \in BOOLEAN, IngestRaises(w, committed) PROVE WalksAtRules'
  <2>1. Other(w) /\ Fine(w) BY <1>3, <1>16, RaisesEffect
  <2> QED BY <1>1, <1>2, <1>16, <2>1, RaisesEffect
<1> QED
  BY <1>4, <1>5, <1>6, <1>7, <1>8, <1>9, <1>10, <1>11, <1>12, <1>13, <1>14, <1>15, <1>16 DEF IngestNext

-----------------------------------------------------------------------------
(* Rules: counts, notes and edges *)

\* What a walk has counted and what it has before it add up to what the globs found.
CountInv ==
  \A w \in Walker :
    /\ walk[w].at # "idle" => walk[w].taken + walk[w].skipped + Len(walk[w].todo) = Len(Found)
    /\ walk[w].at = "done" => walk[w].todo = <<>>

\* A rule that is being stored has no note yet, unless two walks raced; one whose relations are
\* being written, or whose slot is filled in, has one.
NoteInv ==
  /\ \A r \in untyped : ruleNotes[r] > 0
  /\ \A r \in Rule : ruleNotes[r] > 1 => r \in raced
  /\ \A w \in Walker : walk[w].at = "store" =>
       Current(w) \notin untyped /\ (ruleNotes[Current(w)] > 0 => Current(w) \in raced)
  /\ \A w, v \in Walker : w # v /\ walk[w].at = "store" /\ walk[v].at = "store" /\ Current(w) = Current(v) =>
       Current(w) \in raced
  /\ \A w \in Walker : walk[w].at \in {"backfill", "relate"} => ruleNotes[Current(w)] > 0
  /\ \A w \in Walker : walk[w].at = "relate" => Current(w) \notin untyped
  /\ \A w \in Walker : \A r \in walk[w].ingested : ruleNotes[r] > 0 /\ r \notin untyped

\* The edges there are, and those that are still to be written.
EdgeInv ==
  /\ \A w \in Walker : walk[w].at = "relate" => walk[w].left \subseteq RelationsOf(Current(w))
  /\ \A r \in Rule : ruleNotes[r] > 0 /\ r \notin hurt =>
       \A e \in RelationsOf(r) : e \in ruleEdges \/ WritingRelation(r, e)
  /\ \A e \in ruleEdges : \E r \in Rule : ruleNotes[r] > 0 /\ e \in RelationsOf(r)

RulesInv == WalksAtRules /\ CountInv /\ NoteInv /\ EdgeInv

\* The counts: an entry is one of three, and no step changes two of them.
LEMMA CountStep == WalksAtRules /\ CountInv /\ [IngestNext]_ingestVars => CountInv'
<1> SUFFICES ASSUME WalksAtRules, CountInv, [IngestNext]_ingestVars PROVE CountInv'
  OBVIOUS
<1>0. WalkTypes BY DEF WalksAtRules
<1> DEFINE Whole(w) ==
      /\ walk[w].at # "idle" => walk[w].taken + walk[w].skipped + Len(walk[w].todo) = Len(Found)
      /\ walk[w].at = "done" => walk[w].todo = <<>>
<1>1. ASSUME NEW w \in Walker, \A v \in Walker \ {w} : walk'[v] = walk[v], Whole(w)' PROVE CountInv'
  BY <1>1 DEF CountInv
<1>2. \A w \in Walker : Whole(w) BY DEF CountInv
<1>3. ASSUME NEW w \in Walker PROVE /\ walk[w].taken \in Nat /\ walk[w].skipped \in Nat
                                    /\ walk[w].todo \in Seq(SUBSET Rule) /\ Len(walk[w].todo) \in Nat
  <2>1. walk[w] \in Walk BY <1>0 DEF WalkTypes
  <2> QED BY <2>1, LenProperties DEF Walk
<1>4. ASSUME NEW w \in Walker, NEW more, walk[w].at # "idle", walk[w].todo # <<>>, Advanced(w, more)
      PROVE CountInv'
  <2>1. Len(Tail(walk[w].todo)) = Len(walk[w].todo) - 1 BY <1>3, <1>4, HeadTailProperties
  <2>2. walk'[w].taken + walk'[w].skipped = walk[w].taken + walk[w].skipped + 1 BY <1>4 DEF Advanced
  <2>3. walk[w].taken + walk[w].skipped + Len(walk[w].todo) = Len(Found) BY <1>2, <1>4
  <2>4. Len(walk'[w].todo) = Len(walk[w].todo) - 1 BY <2>1, <1>4 DEF Advanced
  <2> DEFINE both == walk'[w].taken + walk'[w].skipped
  <2>5. both + Len(walk'[w].todo) = Len(Found)
    <3> DEFINE was == walk[w].taken + walk[w].skipped
               n == Len(walk[w].todo)
    <3>1. both = was + 1 /\ was + n = Len(Found) /\ Len(walk'[w].todo) = n - 1 BY <2>2, <2>3, <2>4
    <3>2. was \in Nat /\ n \in Nat BY <1>3
    <3> HIDE DEF both, was, n
    <3> QED BY <3>1, <3>2
  <2>6. walk'[w].at = "walk" BY <1>4 DEF Advanced
  <2>7. Whole(w)' BY <2>5, <2>6
  <2> QED BY <1>1, <1>4, <2>7 DEF Advanced
<1>5. ASSUME NEW w \in Walker, walk[w].at # "idle",
             \A v \in Walker \ {w} : walk'[v] = walk[v], walk'[w].at # "done" \/ walk[w].todo = <<>>,
             walk'[w].todo = walk[w].todo, walk'[w].taken = walk[w].taken, walk'[w].skipped = walk[w].skipped
      PROVE CountInv'
  <2>1. Whole(w)' BY <1>2, <1>5
  <2> QED BY <1>1, <1>5, <2>1
<1> HIDE DEF Whole
<1>6. ASSUME NEW w \in Walker, NEW tier \in Tiers, IngestDir(w, tier) PROVE CountInv'
  <2>1. /\ \A v \in Walker \ {w} : walk'[v] = walk[v]
        /\ walk'[w].at = "walk" /\ walk'[w].todo = Found /\ walk'[w].taken = 0 /\ walk'[w].skipped = 0
    BY <1>0, <1>6, IngestDirEffect
  <2>2. Len(Found) \in Nat BY FoundRules, LenProperties
  <2>3. walk'[w].taken + walk'[w].skipped + Len(walk'[w].todo) = Len(Found) BY <2>1, <2>2
  <2>4. Whole(w)' BY <2>1, <2>3 DEF Whole
  <2> QED BY <1>1, <1>6, <2>4, IngestDirEffect, <1>0
<1>7. ASSUME NEW w \in Walker, TakeEntry(w) PROVE CountInv'
  <2>1. walk[w].at = "walk" /\ walk[w].todo # <<>> BY <1>7 DEF TakeEntry
  <2>2. CASE Skip(w) BY <1>0, <1>4, <2>1, <2>2, SkipEffect
  <2>3. CASE MoveTo(w, "lookup") BY <1>0, <1>5, <2>1, <2>3, MoveToEffect
  <2> QED BY <1>7, <2>2, <2>3 DEF TakeEntry
<1>8. ASSUME NEW w \in Walker, LookupRule(w) PROVE CountInv'
  <2>1. AtRule(w) /\ walk[w].at = "lookup" /\ walk[w].todo # <<>> BY <1>8 DEF LookupRule, WalksAtRules, AtRule
  <2>2. CASE Present(w) BY <1>0, <1>4, <2>1, <2>2, PresentEffect
  <2>3. CASE MoveTo(w, "store") BY <1>0, <1>5, <2>1, <2>3, MoveToEffect
  <2>4. CASE MoveTo(w, "backfill") BY <1>0, <1>5, <2>1, <2>4, MoveToEffect
  <2> QED BY <1>8, <2>2, <2>3, <2>4 DEF LookupRule
<1>9. ASSUME NEW w \in Walker, Backfill(w) PROVE CountInv'
  <2>1. AtRule(w) /\ walk[w].at = "backfill" /\ walk[w].todo # <<>> /\ Present(w)
    BY <1>9 DEF Backfill, WalksAtRules, AtRule
  <2> QED BY <1>0, <1>4, <2>1, PresentEffect
<1>10. ASSUME NEW w \in Walker, StoreRule(w) PROVE CountInv'
  <2>1. AtRule(w) /\ Current(w) \in Rule BY <1>0, <1>10, CurrentRule DEF StoreRule, WalksAtRules
  <2>2. RelationsOf(Current(w)) \subseteq Relations BY <2>1, RelationsTyped
  <2>3. /\ \A v \in Walker \ {w} : walk'[v] = walk[v]
        /\ walk'[w].at = "relate"
        /\ walk'[w].todo = walk[w].todo /\ walk'[w].taken = walk[w].taken
        /\ walk'[w].skipped = walk[w].skipped
    BY <1>0, <1>10, <2>2, LeftEffect DEF StoreRule
  <2>4. /\ walk[w].at # "idle" /\ \A v \in Walker \ {w} : walk'[v] = walk[v] BY <1>10, <2>3 DEF StoreRule
  <2> QED BY <1>5, <2>3, <2>4
<1>11. ASSUME NEW w \in Walker, NEW committed \in 0..1, RememberRaises(w, committed) PROVE CountInv'
  <2>1. AtRule(w) /\ walk[w].at = "store" /\ walk[w].todo # <<>> /\ Skip(w)
    BY <1>11 DEF RememberRaises, WalksAtRules, AtRule
  <2> QED BY <1>0, <1>4, <2>1, SkipEffect
<1>12. ASSUME NEW w \in Walker, NEW e \in walk[w].left, AddRelation(w, e) \/ AddRelationFails(w, e)
       PROVE CountInv'
  <2>1. walk[w] \in Walk /\ walk \in [Walker -> Walk] BY <1>0 DEF WalkTypes
  <2>2. walk[w].left \ {e} \in SUBSET Relations BY <2>1 DEF Walk
  <2>3. walk' = [walk EXCEPT ![w].at = "relate", ![w].left = walk[w].left \ {e}]
    BY <1>12, <2>1 DEF AddRelation, AddRelationFails, Walk
  <2>4. /\ \A v \in Walker \ {w} : walk'[v] = walk[v]
        /\ walk'[w].at = "relate"
        /\ walk'[w].todo = walk[w].todo /\ walk'[w].taken = walk[w].taken
        /\ walk'[w].skipped = walk[w].skipped
    BY <1>0, <2>2, <2>3, LeftEffect
  <2>5. /\ walk[w].at # "idle" /\ \A v \in Walker \ {w} : walk'[v] = walk[v]
    BY <1>12, <2>4 DEF AddRelation, AddRelationFails
  <2> QED BY <1>5, <2>4, <2>5
<1>13. ASSUME NEW w \in Walker, Related(w) PROVE CountInv'
  <2>1. AtRule(w) /\ walk[w].at = "relate" /\ walk[w].todo # <<>> /\ Ingested(w)
    BY <1>13 DEF Related, WalksAtRules, AtRule
  <2> QED BY <1>0, <1>4, <2>1, IngestedEffect
<1>14. ASSUME NEW w \in Walker, EndOfWalk(w) PROVE CountInv'
  <2>1. walk[w].at = "walk" /\ walk[w].todo = <<>> /\ MoveTo(w, "done") BY <1>14 DEF EndOfWalk
  <2> QED BY <1>0, <1>5, <2>1, MoveToEffect
<1>15. ASSUME NEW w \in Walker, CountsRead(w) PROVE CountInv'
  <2>1. walk' = [walk EXCEPT ![w] = Idle] /\ Idle.at = "idle" /\ walk \in [Walker -> Walk]
    BY <1>0, <1>15 DEF CountsRead, Idle, WalkTypes
  <2>2. walk'[w].at = "idle" /\ \A v \in Walker \ {w} : walk'[v] = walk[v] BY <2>1
  <2>3. Whole(w)' BY <2>2 DEF Whole
  <2> QED BY <1>1, <2>2, <2>3
<1>16. ASSUME IngestCrash PROVE CountInv'
  BY <1>16 DEF IngestCrash, CountInv, Idle
<1>17. CASE UNCHANGED ingestVars BY <1>17 DEF ingestVars, CountInv
<1>18. ASSUME NEW w \in Walker, NEW committed \in BOOLEAN, IngestRaises(w, committed) PROVE CountInv'
  BY <1>4, <1>18, RaisesEffect
<1> QED
  BY <1>18, <1>6, <1>7, <1>8, <1>9, <1>10, <1>11, <1>12, <1>13, <1>14, <1>15, <1>16, <1>17 DEF IngestNext

\* What a step that keeps the notes, and takes its walk away from its rule, leaves true of them.
LEMMA NoteFrame ==
  ASSUME WalksAtRules, NoteInv, NEW w \in Walker, \A v \in Walker \ {w} : walk'[v] = walk[v],
         walk'[w].at \in {"idle", "walk", "lookup", "done"}, ruleNotes' = ruleNotes,
         untyped' \subseteq untyped, raced \subseteq raced',
         \A r \in walk'[w].ingested : ruleNotes[r] > 0 /\ r \notin untyped'
  PROVE NoteInv'
<1>1. \A v \in Walker \ {w} : Current(v)' = Current(v) BY CurrentKept
<1>2. \A r \in untyped' : ruleNotes'[r] > 0 BY DEF NoteInv
<1>3. \A r \in Rule : ruleNotes'[r] > 1 => r \in raced' BY DEF NoteInv
<1>4. ASSUME NEW v \in Walker, walk'[v].at = "store"
      PROVE Current(v)' \notin untyped' /\ (ruleNotes'[Current(v)'] > 0 => Current(v)' \in raced')
  <2>1. v # w /\ walk[v].at = "store" BY <1>4
  <2>2. Current(v) \notin untyped /\ (ruleNotes[Current(v)] > 0 => Current(v) \in raced) BY <2>1 DEF NoteInv
  <2> QED BY <1>1, <2>1, <2>2
<1>5. ASSUME NEW u \in Walker, NEW v \in Walker, u # v, walk'[u].at = "store", walk'[v].at = "store",
             Current(u)' = Current(v)'
      PROVE Current(u)' \in raced'
  <2>1. u # w /\ v # w /\ walk[u].at = "store" /\ walk[v].at = "store" BY <1>5
  <2>2. Current(u) = Current(v) BY <1>1, <1>5, <2>1
  <2>3. Current(u) \in raced BY <1>5, <2>1, <2>2 DEF NoteInv
  <2> QED BY <1>1, <2>1, <2>3
<1>6. ASSUME NEW v \in Walker, walk'[v].at \in {"backfill", "relate"}
      PROVE ruleNotes'[Current(v)'] > 0 /\ (walk'[v].at = "relate" => Current(v)' \notin untyped')
  <2>1. v # w /\ walk'[v].at = walk[v].at BY <1>6
  <2>2. ruleNotes[Current(v)] > 0 /\ (walk[v].at = "relate" => Current(v) \notin untyped)
    BY <1>6, <2>1 DEF NoteInv
  <2> QED BY <1>1, <2>1, <2>2
<1>7. \A v \in Walker : \A r \in walk'[v].ingested : ruleNotes'[r] > 0 /\ r \notin untyped'
  BY DEF NoteInv
<1> QED BY <1>2, <1>3, <1>4, <1>5, <1>6, <1>7 DEF NoteInv

\* A walk that goes on with the rule it is at, the notes as they were.
LEMMA NoteFrameAt ==
  ASSUME WalksAtRules, NoteInv, NEW w \in Walker, \A v \in Walker \ {w} : walk'[v] = walk[v],
         walk'[w].todo = walk[w].todo, walk'[w].at \in {"backfill", "relate"},
         ruleNotes[Current(w)] > 0, walk'[w].at = "relate" => Current(w) \notin untyped,
         walk'[w].ingested = walk[w].ingested, ruleNotes' = ruleNotes, untyped' = untyped, raced' = raced
  PROVE NoteInv'
<1>1. \A v \in Walker : Current(v)' = Current(v) BY CurrentKept
<1>2. \A r \in untyped' : ruleNotes'[r] > 0 BY DEF NoteInv
<1>3. \A r \in Rule : ruleNotes'[r] > 1 => r \in raced' BY DEF NoteInv
<1>4. ASSUME NEW v \in Walker, walk'[v].at = "store"
      PROVE Current(v)' \notin untyped' /\ (ruleNotes'[Current(v)'] > 0 => Current(v)' \in raced')
  <2>1. v # w /\ walk[v].at = "store" BY <1>4
  <2>2. Current(v) \notin untyped /\ (ruleNotes[Current(v)] > 0 => Current(v) \in raced) BY <2>1 DEF NoteInv
  <2> QED BY <1>1, <2>1, <2>2
<1>5. ASSUME NEW u \in Walker, NEW v \in Walker, u # v, walk'[u].at = "store", walk'[v].at = "store",
             Current(u)' = Current(v)'
      PROVE Current(u)' \in raced'
  <2>1. u # w /\ v # w /\ walk[u].at = "store" /\ walk[v].at = "store" BY <1>5
  <2>2. Current(u) = Current(v) BY <1>1, <1>5, <2>1
  <2>3. Current(u) \in raced BY <1>5, <2>1, <2>2 DEF NoteInv
  <2> QED BY <1>1, <2>1, <2>3
<1>6. ASSUME NEW v \in Walker, walk'[v].at \in {"backfill", "relate"}
      PROVE ruleNotes'[Current(v)'] > 0 /\ (walk'[v].at = "relate" => Current(v)' \notin untyped')
  <2>1. CASE v = w BY <1>1, <2>1
  <2>2. CASE v # w
    <3>1. walk'[v].at = walk[v].at BY <2>2
    <3>2. ruleNotes[Current(v)] > 0 /\ (walk[v].at = "relate" => Current(v) \notin untyped)
      BY <1>6, <3>1 DEF NoteInv
    <3> QED BY <1>1, <3>1, <3>2
  <2> QED BY <2>1, <2>2
<1>7. \A v \in Walker : \A r \in walk'[v].ingested : ruleNotes'[r] > 0 /\ r \notin untyped'
  BY DEF NoteInv
<1> QED BY <1>2, <1>3, <1>4, <1>5, <1>6, <1>7 DEF NoteInv

\* A note that is made, or not, by a walk that was storing it.
LEMMA NoteMade ==
  ASSUME WalksAtRules, NoteInv, NEW w \in Walker, walk[w].at = "store", NEW k \in 0..1,
         \A v \in Walker \ {w} : walk'[v] = walk[v],
         ruleNotes' = [ruleNotes EXCEPT ![Current(w)] = @ + k],
         \/ walk'[w].at = "walk"
         \/ walk'[w].at = "relate" /\ walk'[w].todo = walk[w].todo /\ k = 1,
         walk'[w].ingested = walk[w].ingested, untyped' = untyped, raced' = raced
  PROVE NoteInv'
<1>0. WalkTypes /\ AtRule(w) /\ Current(w) \in Rule BY CurrentRule DEF WalksAtRules
<1> DEFINE r == Current(w)
<1>1. /\ r \in Rule /\ ruleNotes'[r] = ruleNotes[r] + k /\ \A s \in Rule \ {r} : ruleNotes'[s] = ruleNotes[s]
      /\ r \notin untyped /\ (ruleNotes[r] > 0 => r \in raced)
  BY <1>0, NoteAdded DEF NoteInv
<1>2. \A s \in Rule : ruleNotes[s] \in Nat BY <1>0 DEF WalkTypes
<1>3. \A v \in Walker \ {w} : Current(v)' = Current(v) BY CurrentKept
<1>4. walk'[w].at = "relate" => Current(w)' = r BY CurrentKept
<1>5. \A v \in Walker : walk[v].at \in {"store", "backfill", "relate"} => Current(v) \in Rule
  BY <1>0, CurrentRule DEF WalksAtRules
<1>6. \A v \in Walker \ {w} : walk[v].at = "store" /\ Current(v) = r => r \in raced BY DEF NoteInv
<1> HIDE DEF r
<1>7. \A s \in Rule : ruleNotes[s] > 0 => ruleNotes'[s] > 0
  <2> SUFFICES ASSUME NEW s \in Rule, ruleNotes[s] > 0 PROVE ruleNotes'[s] > 0 OBVIOUS
  <2>1. CASE s = r BY <1>1, <1>2, <2>1
  <2>2. CASE s # r BY <1>1, <2>2
  <2> QED BY <2>1, <2>2
<1>8. \A s \in untyped' : ruleNotes'[s] > 0 BY <1>0, <1>7 DEF NoteInv, WalkTypes
<1>9. \A s \in Rule : ruleNotes'[s] > 1 => s \in raced'
  <2> SUFFICES ASSUME NEW s \in Rule, ruleNotes'[s] > 1 PROVE s \in raced OBVIOUS
  <2>1. CASE s = r
    <3>1. ruleNotes[r] > 0 BY <1>1, <1>2, <2>1
    <3> QED BY <1>1, <2>1, <3>1
  <2>2. CASE s # r BY <1>1, <2>2 DEF NoteInv
  <2> QED BY <2>1, <2>2
<1>10. ASSUME NEW v \in Walker, walk'[v].at = "store"
       PROVE Current(v)' \notin untyped' /\ (ruleNotes'[Current(v)'] > 0 => Current(v)' \in raced')
  <2>1. v # w /\ walk[v].at = "store" /\ Current(v)' = Current(v) /\ Current(v) \in Rule
    BY <1>3, <1>5, <1>10
  <2>2. Current(v) \notin untyped /\ (ruleNotes[Current(v)] > 0 => Current(v) \in raced) BY <2>1 DEF NoteInv
  <2>3. CASE Current(v) = r BY <1>6, <2>1, <2>2, <2>3
  <2>4. CASE Current(v) # r BY <1>1, <2>1, <2>2, <2>4
  <2> QED BY <2>3, <2>4
<1>11. ASSUME NEW u \in Walker, NEW v \in Walker, u # v, walk'[u].at = "store", walk'[v].at = "store",
              Current(u)' = Current(v)'
       PROVE Current(u)' \in raced'
  <2>1. u # w /\ v # w /\ walk[u].at = "store" /\ walk[v].at = "store" BY <1>11
  <2>2. Current(u) = Current(v) BY <1>3, <1>11, <2>1
  <2>3. Current(u) \in raced BY <1>11, <2>1, <2>2 DEF NoteInv
  <2> QED BY <1>3, <2>1, <2>3
<1>12. ASSUME NEW v \in Walker, walk'[v].at \in {"backfill", "relate"}
       PROVE ruleNotes'[Current(v)'] > 0 /\ (walk'[v].at = "relate" => Current(v)' \notin untyped')
  <2>1. CASE v = w
    <3>1. Current(v)' = r /\ k = 1 BY <1>4, <1>12, <2>1
    <3>2. ruleNotes'[r] > 0 BY <1>1, <1>2, <3>1
    <3> QED BY <1>1, <3>1, <3>2
  <2>2. CASE v # w
    <3>1. walk'[v].at = walk[v].at /\ Current(v)' = Current(v) BY <1>3, <2>2
    <3>2. ruleNotes[Current(v)] > 0 /\ (walk[v].at = "relate" => Current(v) \notin untyped)
      BY <1>12, <3>1 DEF NoteInv
    <3>3. Current(v) \in Rule BY <1>5, <1>12, <3>1
    <3> QED BY <1>7, <3>1, <3>2, <3>3
  <2> QED BY <2>1, <2>2
<1>13. ASSUME NEW v \in Walker, NEW s \in walk'[v].ingested PROVE ruleNotes'[s] > 0 /\ s \notin untyped'
  <2>1. s \in walk[v].ingested BY <1>13
  <2>2. walk[v] \in Walk BY <1>0 DEF WalkTypes
  <2>3. s \in Rule BY <2>1, <2>2 DEF Walk
  <2>4. ruleNotes[s] > 0 /\ s \notin untyped BY <2>1 DEF NoteInv
  <2> QED BY <1>7, <2>3, <2>4
<1> QED BY <1>8, <1>9, <1>10, <1>11, <1>12, <1>13 DEF NoteInv

\* A walk that goes on after an entry: what it ingested has a note and its slot.
LEMMA NoteAdvanced ==
  ASSUME WalksAtRules, NoteInv, NEW w \in Walker, NEW more, Advanced(w, more),
         \A r \in more : ruleNotes[r] > 0 /\ r \notin untyped',
         ruleNotes' = ruleNotes, untyped' \subseteq untyped, raced \subseteq raced'
  PROVE NoteInv'
<1>1. /\ \A v \in Walker \ {w} : walk'[v] = walk[v]
      /\ walk'[w].at = "walk" /\ walk'[w].ingested = walk[w].ingested \cup more
  BY DEF Advanced
<1>2. \A r \in walk[w].ingested : ruleNotes[r] > 0 /\ r \notin untyped BY DEF NoteInv
<1>3. \A r \in walk'[w].ingested : ruleNotes[r] > 0 /\ r \notin untyped' BY <1>1, <1>2
<1> QED BY <1>1, <1>3, NoteFrame

\* A rule looked up and found to have no note: the walk will store it.
LEMMA NoteLookup ==
  ASSUME WalksAtRules, NoteInv, NEW w \in Walker, walk[w].at = "lookup", ruleNotes[Current(w)] = 0,
         MoveTo(w, "store"), RulesUnchanged,
         raced' = (IF Adding(Current(w)) = {} THEN raced ELSE raced \cup {Current(w)})
  PROVE NoteInv'
<1>0. WalkTypes /\ AtRule(w) /\ Current(w) \in Rule BY CurrentRule DEF WalksAtRules
<1>1. /\ \A v \in Walker \ {w} : walk'[v] = walk[v]
      /\ walk'[w].at = "store" /\ walk'[w].todo = walk[w].todo /\ walk'[w].ingested = walk[w].ingested
  BY <1>0, MoveToEffect
<1>2. \A v \in Walker : Current(v)' = Current(v) BY <1>1, CurrentKept
<1>3. /\ ruleNotes' = ruleNotes /\ untyped' = untyped /\ raced \subseteq raced' BY DEF RulesUnchanged
<1>4. Current(w) \notin untyped BY <1>0 DEF NoteInv
<1>5. ASSUME NEW v \in Walker, v # w, walk[v].at = "store", Current(v) = Current(w)
      PROVE Current(w) \in raced'
  <2>1. v \in Adding(Current(w)) BY <1>5 DEF Adding
  <2> QED BY <2>1
<1>6. \A r \in untyped' : ruleNotes'[r] > 0 BY <1>3 DEF NoteInv
<1>7. \A r \in Rule : ruleNotes'[r] > 1 => r \in raced' BY <1>3 DEF NoteInv
<1>8. ASSUME NEW v \in Walker, walk'[v].at = "store"
      PROVE Current(v)' \notin untyped' /\ (ruleNotes'[Current(v)'] > 0 => Current(v)' \in raced')
  <2>1. CASE v = w
    <3>1. Current(v)' = Current(w) BY <1>2, <2>1
    <3>2. ruleNotes'[Current(v)'] = 0 BY <1>3, <3>1
    <3> QED BY <1>3, <1>4, <3>1, <3>2
  <2>2. CASE v # w
    <3>1. walk[v].at = "store" BY <1>1, <1>8, <2>2
    <3>2. Current(v) \notin untyped /\ (ruleNotes[Current(v)] > 0 => Current(v) \in raced) BY <3>1 DEF NoteInv
    <3> QED BY <1>2, <1>3, <3>2
  <2> QED BY <2>1, <2>2
<1>9. ASSUME NEW u \in Walker, NEW v \in Walker, u # v, walk'[u].at = "store", walk'[v].at = "store",
             Current(u)' = Current(v)'
      PROVE Current(u)' \in raced'
  <2>1. Current(u) = Current(v) BY <1>2, <1>9
  <2>2. CASE u = w
    <3>1. v # w /\ walk[v].at = "store" BY <1>1, <1>9, <2>2
    <3> QED BY <1>2, <1>5, <2>1, <2>2, <3>1
  <2>3. CASE v = w
    <3>1. u # w /\ walk[u].at = "store" BY <1>1, <1>9, <2>3
    <3> QED BY <1>2, <1>5, <2>1, <2>3, <3>1
  <2>4. CASE u # w /\ v # w
    <3>1. walk[u].at = "store" /\ walk[v].at = "store" BY <1>1, <1>9, <2>4
    <3>2. Current(u) \in raced BY <1>9, <2>1, <3>1 DEF NoteInv
    <3> QED BY <1>2, <1>3, <3>2
  <2> QED BY <2>2, <2>3, <2>4
<1>10. ASSUME NEW v \in Walker, walk'[v].at \in {"backfill", "relate"}
       PROVE ruleNotes'[Current(v)'] > 0 /\ (walk'[v].at = "relate" => Current(v)' \notin untyped')
  <2>1. walk'[v] = walk[v] BY <1>1, <1>10
  <2>2. ruleNotes[Current(v)] > 0 /\ (walk[v].at = "relate" => Current(v) \notin untyped)
    BY <1>10, <2>1 DEF NoteInv
  <2> QED BY <1>2, <1>3, <2>1, <2>2
<1>11. \A v \in Walker : \A r \in walk'[v].ingested : ruleNotes'[r] > 0 /\ r \notin untyped'
  <2>1. \A v \in Walker : walk'[v].ingested = walk[v].ingested BY <1>1
  <2> QED BY <1>3, <2>1 DEF NoteInv
<1> QED BY <1>6, <1>7, <1>8, <1>9, <1>10, <1>11 DEF NoteInv

\* The notes: every step.
LEMMA NoteStep == WalksAtRules /\ NoteInv /\ [IngestNext]_ingestVars => NoteInv'
<1> SUFFICES ASSUME WalksAtRules, NoteInv, [IngestNext]_ingestVars PROVE NoteInv'
  OBVIOUS
<1>0. WalkTypes BY DEF WalksAtRules
<1>1. ASSUME NEW w \in Walker, NEW tier \in Tiers, IngestDir(w, tier) PROVE NoteInv'
  <2>1. /\ \A v \in Walker \ {w} : walk'[v] = walk[v]
        /\ walk'[w].at = "walk" /\ walk'[w].ingested = {}
    BY <1>0, <1>1, IngestDirEffect
  <2> QED BY <1>1, <2>1, NoteFrame DEF IngestDir, RulesUnchanged
<1>2. ASSUME NEW w \in Walker, TakeEntry(w) PROVE NoteInv'
  <2>1. ruleNotes' = ruleNotes /\ untyped' = untyped /\ raced' = raced BY <1>2 DEF TakeEntry, RulesUnchanged
  <2>2. CASE Skip(w)
    <3>1. Advanced(w, {}) BY <1>0, <1>2, <2>2, SkipEffect DEF TakeEntry
    <3> QED BY <2>1, <3>1, NoteAdvanced
  <2>3. CASE MoveTo(w, "lookup")
    <3>1. /\ \A v \in Walker \ {w} : walk'[v] = walk[v]
          /\ walk'[w].at = "lookup" /\ walk'[w].ingested = walk[w].ingested
      BY <1>0, <2>3, MoveToEffect
    <3>2. \A r \in walk[w].ingested : ruleNotes[r] > 0 /\ r \notin untyped BY DEF NoteInv
    <3> QED BY <2>1, <3>1, <3>2, NoteFrame
  <2> QED BY <1>2, <2>2, <2>3 DEF TakeEntry
<1>3. ASSUME NEW w \in Walker, LookupRule(w) PROVE NoteInv'
  <2>1. AtRule(w) /\ walk[w].at = "lookup" BY <1>3 DEF LookupRule, WalksAtRules
  <2>2. RulesUnchanged /\ ruleNotes' = ruleNotes /\ untyped' = untyped BY <1>3 DEF LookupRule, RulesUnchanged
  <2>3. CASE /\ ruleNotes[Current(w)] = 0 /\ MoveTo(w, "store")
             /\ raced' = (IF Adding(Current(w)) = {} THEN raced ELSE raced \cup {Current(w)})
    BY <2>1, <2>2, <2>3, NoteLookup
  <2>4. CASE ruleNotes[Current(w)] > 0 /\ MoveTo(w, "backfill") /\ UNCHANGED raced
    <3>1. /\ \A v \in Walker \ {w} : walk'[v] = walk[v]
          /\ walk'[w].at = "backfill" /\ walk'[w].todo = walk[w].todo
          /\ walk'[w].ingested = walk[w].ingested
      BY <1>0, <2>4, MoveToEffect
    <3> QED BY <2>2, <2>4, <3>1, NoteFrameAt
  <2>5. CASE ruleNotes[Current(w)] > 0 /\ Current(w) \notin untyped /\ Present(w) /\ UNCHANGED raced
    <3>1. PICK more \in {{}, {Current(w)}} : Advanced(w, more) BY <1>0, <2>1, <2>5, PresentEffect
    <3>2. \A r \in more : ruleNotes[r] > 0 /\ r \notin untyped' BY <2>2, <2>5
    <3> QED BY <2>2, <2>5, <3>1, <3>2, NoteAdvanced
  <2> QED BY <1>3, <2>3, <2>4, <2>5 DEF LookupRule
<1>4. ASSUME NEW w \in Walker, Backfill(w) PROVE NoteInv'
  <2>1. AtRule(w) /\ walk[w].at = "backfill" BY <1>4 DEF Backfill, WalksAtRules
  <2>2. ruleNotes[Current(w)] > 0 BY <2>1 DEF NoteInv
  <2>3. ruleNotes' = ruleNotes /\ untyped' = untyped \ {Current(w)} /\ raced' = raced BY <1>4 DEF Backfill
  <2>4. PICK more \in {{}, {Current(w)}} : Advanced(w, more) BY <1>0, <1>4, <2>1, PresentEffect DEF Backfill
  <2>5. \A r \in more : ruleNotes[r] > 0 /\ r \notin untyped' BY <2>2, <2>3
  <2> QED BY <2>3, <2>4, <2>5, NoteAdvanced
<1>5. ASSUME NEW w \in Walker, StoreRule(w) PROVE NoteInv'
  <2>1. AtRule(w) /\ Current(w) \in Rule BY <1>0, <1>5, CurrentRule DEF StoreRule, WalksAtRules
  <2>2. RelationsOf(Current(w)) \subseteq Relations BY <2>1, RelationsTyped
  <2>3. /\ \A v \in Walker \ {w} : walk'[v] = walk[v]
        /\ walk'[w].at = "relate" /\ walk'[w].todo = walk[w].todo
        /\ walk'[w].ingested = walk[w].ingested
    BY <1>0, <1>5, <2>2, LeftEffect DEF StoreRule
  <2>4. /\ walk[w].at = "store" /\ ruleNotes' = [ruleNotes EXCEPT ![Current(w)] = @ + 1]
        /\ untyped' = untyped /\ raced' = raced
    BY <1>5 DEF StoreRule
  <2>5. 1 \in 0..1 OBVIOUS
  <2> QED BY <2>3, <2>4, <2>5, NoteMade
<1>6. ASSUME NEW w \in Walker, NEW committed \in 0..1, RememberRaises(w, committed) PROVE NoteInv'
  <2>1. /\ walk[w].at = "store" /\ AtRule(w) /\ Skip(w)
        /\ ruleNotes' = [ruleNotes EXCEPT ![Current(w)] = @ + committed]
        /\ untyped' = untyped /\ raced' = raced
    BY <1>6 DEF RememberRaises, WalksAtRules
  <2>2. Advanced(w, {}) BY <1>0, <2>1, SkipEffect DEF AtRule
  <2>3. /\ \A v \in Walker \ {w} : walk'[v] = walk[v]
        /\ walk'[w].at = "walk" /\ walk'[w].ingested = walk[w].ingested
    BY <2>2 DEF Advanced
  <2> QED BY <2>1, <2>3, NoteMade
<1>7. ASSUME NEW w \in Walker, NEW e \in walk[w].left, AddRelation(w, e) \/ AddRelationFails(w, e)
      PROVE NoteInv'
  <2>1. walk[w] \in Walk /\ walk \in [Walker -> Walk] BY <1>0 DEF WalkTypes
  <2>2. walk[w].left \ {e} \in SUBSET Relations BY <2>1 DEF Walk
  <2>3. walk' = [walk EXCEPT ![w].at = "relate", ![w].left = walk[w].left \ {e}]
    BY <1>7, <2>1 DEF AddRelation, AddRelationFails, Walk
  <2>4. /\ \A v \in Walker \ {w} : walk'[v] = walk[v]
        /\ walk'[w].at = "relate" /\ walk'[w].todo = walk[w].todo
        /\ walk'[w].ingested = walk[w].ingested
    BY <1>0, <2>2, <2>3, LeftEffect
  <2>5. walk[w].at = "relate" /\ ruleNotes' = ruleNotes /\ untyped' = untyped /\ raced' = raced
    BY <1>7 DEF AddRelation, AddRelationFails
  <2>6. ruleNotes[Current(w)] > 0 /\ Current(w) \notin untyped BY <2>5 DEF NoteInv
  <2> QED BY <2>4, <2>5, <2>6, NoteFrameAt
<1>8. ASSUME NEW w \in Walker, Related(w) PROVE NoteInv'
  <2>1. AtRule(w) /\ walk[w].at = "relate" /\ Ingested(w) BY <1>8 DEF Related, WalksAtRules
  <2>2. Advanced(w, {Current(w)}) BY <1>0, <2>1, IngestedEffect
  <2>3. ruleNotes[Current(w)] > 0 /\ Current(w) \notin untyped BY <2>1 DEF NoteInv
  <2>4. ruleNotes' = ruleNotes /\ untyped' = untyped /\ raced' = raced BY <1>8 DEF Related, RulesUnchanged
  <2> QED BY <2>2, <2>3, <2>4, NoteAdvanced
<1>9. ASSUME NEW w \in Walker, EndOfWalk(w) PROVE NoteInv'
  <2>1. /\ \A v \in Walker \ {w} : walk'[v] = walk[v]
        /\ walk'[w].at = "done" /\ walk'[w].ingested = walk[w].ingested
    BY <1>0, <1>9, MoveToEffect DEF EndOfWalk
  <2>2. \A r \in walk[w].ingested : ruleNotes[r] > 0 /\ r \notin untyped BY DEF NoteInv
  <2>3. ruleNotes' = ruleNotes /\ untyped' = untyped /\ raced' = raced BY <1>9 DEF EndOfWalk, RulesUnchanged
  <2> QED BY <2>1, <2>2, <2>3, NoteFrame
<1>10. ASSUME NEW w \in Walker, CountsRead(w) PROVE NoteInv'
  <2>1. walk' = [walk EXCEPT ![w] = Idle] /\ Idle.at = "idle" /\ Idle.ingested = {}
        /\ walk \in [Walker -> Walk]
    BY <1>0, <1>10 DEF CountsRead, Idle, WalkTypes
  <2>2. /\ \A v \in Walker \ {w} : walk'[v] = walk[v]
        /\ walk'[w].at = "idle" /\ walk'[w].ingested = {}
    BY <2>1
  <2>3. ruleNotes' = ruleNotes /\ untyped' = untyped /\ raced' = raced BY <1>10 DEF CountsRead, RulesUnchanged
  <2> QED BY <2>2, <2>3, NoteFrame
<1>11. ASSUME IngestCrash PROVE NoteInv'
  <2>1. \A w \in Walker : walk'[w].at = "idle" /\ walk'[w].ingested = {} BY <1>11 DEF IngestCrash, Idle
  <2>2. ruleNotes' = ruleNotes /\ untyped' = untyped /\ raced' = raced BY <1>11 DEF IngestCrash, RulesUnchanged
  <2> QED BY <2>1, <2>2 DEF NoteInv
<1>12. CASE UNCHANGED ingestVars BY <1>12 DEF ingestVars, NoteInv, Current
<1>13. ASSUME NEW w \in Walker, NEW committed \in BOOLEAN, IngestRaises(w, committed) PROVE NoteInv'
  <2>1. Advanced(w, {}) /\ ruleNotes' = ruleNotes /\ untyped' \subseteq untyped /\ raced' = raced
    BY <1>13, RaisesEffect
  <2> QED BY <2>1, NoteAdvanced
<1> QED BY <1>13, <1>1, <1>2, <1>3, <1>4, <1>5, <1>6, <1>7, <1>8, <1>9, <1>10, <1>11, <1>12 DEF IngestNext

\* What a step that writes no edge and ends no writing of edges leaves true of them; a rule
\* whose ingestion it cut short is out of the promise.
LEMMA EdgeFrame ==
  ASSUME WalkTypes, EdgeInv, NEW w \in Walker, \A v \in Walker \ {w} : walk'[v] = walk[v],
         walk[w].at = "relate" => walk[w].left = {}, walk'[w].at # "relate", ruleEdges' = ruleEdges,
         \A r \in Rule : ruleNotes[r] > 0 => ruleNotes'[r] > 0,
         \A r \in Rule : ruleNotes'[r] > 0 /\ r \notin hurt' => ruleNotes[r] > 0 /\ r \notin hurt
  PROVE EdgeInv'
<1>1. \A v \in Walker \ {w} : Current(v)' = Current(v) BY CurrentKept
<1>2. ASSUME NEW v \in Walker, walk'[v].at = "relate" PROVE walk'[v].left \subseteq RelationsOf(Current(v)')
  <2>1. v # w /\ walk[v].at = "relate" /\ walk'[v].left = walk[v].left BY <1>2
  <2>2. walk[v].left \subseteq RelationsOf(Current(v)) BY <2>1 DEF EdgeInv
  <2> QED BY <1>1, <2>1, <2>2
<1>3. ASSUME NEW r \in Rule, ruleNotes'[r] > 0, r \notin hurt', NEW e \in RelationsOf(r)
      PROVE e \in ruleEdges' \/ WritingRelation(r, e)'
  <2>1. e \in ruleEdges \/ WritingRelation(r, e) BY <1>3 DEF EdgeInv
  <2>2. CASE WritingRelation(r, e)
    <3>1. PICK v \in Walker : walk[v].at = "relate" /\ Current(v) = r /\ e \in walk[v].left
      BY <2>2 DEF WritingRelation
    <3>2. v # w BY <3>1
    <3>3. walk'[v].at = "relate" /\ Current(v)' = r /\ e \in walk'[v].left BY <1>1, <3>1, <3>2
    <3> QED BY <3>3 DEF WritingRelation
  <2> QED BY <2>1, <2>2
<1>4. \A e \in ruleEdges' : \E r \in Rule : ruleNotes'[r] > 0 /\ e \in RelationsOf(r) BY DEF EdgeInv
<1> QED BY <1>2, <1>3, <1>4 DEF EdgeInv

\* A note committed: its relations are all to be written.
LEMMA EdgeStore ==
  ASSUME WalksAtRules, EdgeInv, NEW w \in Walker, StoreRule(w)
  PROVE EdgeInv'
<1>0. WalkTypes /\ AtRule(w) /\ Current(w) \in Rule BY CurrentRule DEF StoreRule, WalksAtRules
<1>1. RelationsOf(Current(w)) \subseteq Relations BY <1>0, RelationsTyped
<1>2. /\ \A v \in Walker \ {w} : walk'[v] = walk[v]
      /\ walk'[w].at = "relate" /\ walk'[w].todo = walk[w].todo
      /\ walk'[w].left = RelationsOf(Current(w))
  BY <1>0, <1>1, LeftEffect DEF StoreRule
<1>3. \A v \in Walker : Current(v)' = Current(v) BY <1>2, CurrentKept
<1>4. /\ walk[w].at = "store" /\ ruleEdges' = ruleEdges /\ hurt' = hurt
      /\ ruleNotes' = [ruleNotes EXCEPT ![Current(w)] = @ + 1]
  BY DEF StoreRule
<1>5. /\ \A s \in Rule \ {Current(w)} : ruleNotes'[s] = ruleNotes[s]
      /\ ruleNotes'[Current(w)] = ruleNotes[Current(w)] + 1 /\ ruleNotes[Current(w)] \in Nat
  BY <1>0, <1>4 DEF WalkTypes
<1>6. \A s \in Rule : ruleNotes[s] > 0 => ruleNotes'[s] > 0
  <2> SUFFICES ASSUME NEW s \in Rule, ruleNotes[s] > 0 PROVE ruleNotes'[s] > 0 OBVIOUS
  <2>1. CASE s = Current(w)
    <3>1. ruleNotes'[Current(w)] > 0 BY <1>5
    <3> QED BY <2>1, <3>1
  <2>2. CASE s # Current(w) BY <1>5, <2>2
  <2> QED BY <2>1, <2>2
<1>7. ASSUME NEW v \in Walker, walk'[v].at = "relate" PROVE walk'[v].left \subseteq RelationsOf(Current(v)')
  <2>1. CASE v = w BY <1>2, <1>3, <2>1
  <2>2. CASE v # w
    <3>1. walk[v].left \subseteq RelationsOf(Current(v)) BY <1>2, <1>7, <2>2 DEF EdgeInv
    <3> QED BY <1>2, <1>3, <2>2, <3>1
  <2> QED BY <2>1, <2>2
<1>8. ASSUME NEW r \in Rule, ruleNotes'[r] > 0, r \notin hurt', NEW e \in RelationsOf(r)
      PROVE e \in ruleEdges' \/ WritingRelation(r, e)'
  <2>1. CASE r = Current(w)
    <3>1. walk'[w].at = "relate" /\ Current(w)' = r /\ e \in walk'[w].left BY <1>2, <1>3, <1>8, <2>1
    <3> QED BY <3>1 DEF WritingRelation
  <2>2. CASE r # Current(w)
    <3>1. ruleNotes[r] > 0 /\ r \notin hurt BY <1>4, <1>5, <1>8, <2>2
    <3>2. e \in ruleEdges \/ WritingRelation(r, e) BY <1>8, <3>1 DEF EdgeInv
    <3>3. CASE WritingRelation(r, e)
      <4>1. PICK v \in Walker : walk[v].at = "relate" /\ Current(v) = r /\ e \in walk[v].left
        BY <3>3 DEF WritingRelation
      <4>2. v # w BY <1>4, <4>1
      <4>3. walk'[v].at = "relate" /\ Current(v)' = r /\ e \in walk'[v].left BY <1>2, <1>3, <4>1, <4>2
      <4> QED BY <4>3 DEF WritingRelation
    <3> QED BY <1>4, <3>2, <3>3
  <2> QED BY <2>1, <2>2
<1>9. \A e \in ruleEdges' : \E r \in Rule : ruleNotes'[r] > 0 /\ e \in RelationsOf(r)
  BY <1>4, <1>6 DEF EdgeInv
<1> QED BY <1>7, <1>8, <1>9 DEF EdgeInv

\* An edge written or given up: the walk has one less to write.
LEMMA EdgeWrite ==
  ASSUME WalksAtRules, NoteInv, EdgeInv, NEW w \in Walker, NEW e \in walk[w].left,
         AddRelation(w, e) \/ AddRelationFails(w, e)
  PROVE EdgeInv'
<1>0. WalkTypes /\ AtRule(w) /\ Current(w) \in Rule
  BY CurrentRule DEF AddRelation, AddRelationFails, WalksAtRules
<1>1. walk[w] \in Walk /\ walk \in [Walker -> Walk] BY <1>0 DEF WalkTypes
<1>2. walk[w].left \ {e} \in SUBSET Relations BY <1>1 DEF Walk
<1>3. walk' = [walk EXCEPT ![w].at = "relate", ![w].left = walk[w].left \ {e}]
  BY <1>1 DEF AddRelation, AddRelationFails, Walk
<1>4. /\ \A v \in Walker \ {w} : walk'[v] = walk[v]
      /\ walk'[w].at = "relate" /\ walk'[w].todo = walk[w].todo /\ walk'[w].left = walk[w].left \ {e}
  BY <1>0, <1>2, <1>3, LeftEffect
<1>5. \A v \in Walker : Current(v)' = Current(v) BY <1>4, CurrentKept
<1>6. /\ walk[w].at = "relate" /\ ruleNotes' = ruleNotes /\ hurt \subseteq hurt'
      /\ ruleEdges \subseteq ruleEdges' /\ ruleEdges' \subseteq ruleEdges \cup {e}
      /\ e \in ruleEdges' \/ Current(w) \in hurt'
  BY DEF AddRelation, AddRelationFails
<1>7. \A v \in Walker : walk'[v].at = walk[v].at /\ walk'[v].left \subseteq walk[v].left BY <1>4, <1>6
<1>8. ASSUME NEW v \in Walker, walk'[v].at = "relate" PROVE walk'[v].left \subseteq RelationsOf(Current(v)')
  <2>1. walk[v].left \subseteq RelationsOf(Current(v)) BY <1>7, <1>8 DEF EdgeInv
  <2> QED BY <1>5, <1>7, <2>1
<1>9. ASSUME NEW r \in Rule, ruleNotes'[r] > 0, r \notin hurt', NEW f \in RelationsOf(r)
      PROVE f \in ruleEdges' \/ WritingRelation(r, f)'
  <2>1. f \in ruleEdges \/ WritingRelation(r, f) BY <1>6, <1>9 DEF EdgeInv
  <2>2. CASE WritingRelation(r, f)
    <3>1. PICK v \in Walker : walk[v].at = "relate" /\ Current(v) = r /\ f \in walk[v].left
      BY <2>2 DEF WritingRelation
    <3>2. CASE v = w /\ f = e BY <1>6, <1>9, <3>1, <3>2
    <3>3. CASE v # w \/ f # e
      <4>1. walk'[v].at = "relate" /\ Current(v)' = r /\ f \in walk'[v].left BY <1>4, <1>5, <3>1, <3>3
      <4> QED BY <4>1 DEF WritingRelation
    <3> QED BY <3>2, <3>3
  <2> QED BY <1>6, <2>1, <2>2
<1>10. ASSUME NEW f \in ruleEdges' PROVE \E r \in Rule : ruleNotes'[r] > 0 /\ f \in RelationsOf(r)
  <2>1. CASE f \in ruleEdges BY <1>6, <2>1 DEF EdgeInv
  <2>2. CASE f = e
    <3>1. ruleNotes[Current(w)] > 0 BY <1>6 DEF NoteInv
    <3>2. e \in RelationsOf(Current(w)) BY <1>6 DEF EdgeInv
    <3> QED BY <1>0, <1>6, <2>2, <3>1, <3>2
  <2> QED BY <1>6, <1>10, <2>1, <2>2
<1> QED BY <1>8, <1>9, <1>10 DEF EdgeInv

\* The edges: every step.
LEMMA EdgeStep == WalksAtRules /\ NoteInv /\ EdgeInv /\ [IngestNext]_ingestVars => EdgeInv'
<1> SUFFICES ASSUME WalksAtRules, NoteInv, EdgeInv, [IngestNext]_ingestVars PROVE EdgeInv'
  OBVIOUS
<1>0. WalkTypes BY DEF WalksAtRules
<1>1. ASSUME NEW w \in Walker, \A v \in Walker \ {w} : walk'[v] = walk[v],
             walk[w].at = "relate" => walk[w].left = {}, walk'[w].at # "relate",
             ruleEdges' = ruleEdges, ruleNotes' = ruleNotes, hurt' = hurt
      PROVE EdgeInv'
  BY <1>0, <1>1, EdgeFrame
<1>2. ASSUME NEW w \in Walker, NEW tier \in Tiers, IngestDir(w, tier) PROVE EdgeInv'
  <2>1. /\ \A v \in Walker \ {w} : walk'[v] = walk[v]
        /\ walk'[w].at = "walk"
    BY <1>0, <1>2, IngestDirEffect
  <2> QED BY <1>1, <1>2, <2>1 DEF IngestDir, RulesUnchanged
<1>3. ASSUME NEW w \in Walker, TakeEntry(w) PROVE EdgeInv'
  <2>1. /\ \A v \in Walker \ {w} : walk'[v] = walk[v]
        /\ walk'[w].at \in {"walk", "lookup"}
    <3>1. CASE Skip(w) BY <1>0, <1>3, <3>1, SkipEffect DEF TakeEntry, Advanced
    <3>2. CASE MoveTo(w, "lookup") BY <1>0, <3>2, MoveToEffect
    <3> QED BY <1>3, <3>1, <3>2 DEF TakeEntry
  <2> QED BY <1>1, <1>3, <2>1 DEF TakeEntry, RulesUnchanged
<1>4. ASSUME NEW w \in Walker, LookupRule(w) PROVE EdgeInv'
  <2>1. AtRule(w) BY <1>4 DEF LookupRule, WalksAtRules
  <2>2. /\ \A v \in Walker \ {w} : walk'[v] = walk[v]
        /\ walk'[w].at \in {"walk", "store", "backfill"}
    <3>1. CASE Present(w) BY <1>0, <2>1, <3>1, PresentEffect DEF Advanced
    <3>2. CASE MoveTo(w, "store") BY <1>0, <3>2, MoveToEffect
    <3>3. CASE MoveTo(w, "backfill") BY <1>0, <3>3, MoveToEffect
    <3> QED BY <1>4, <3>1, <3>2, <3>3 DEF LookupRule
  <2> QED BY <1>1, <1>4, <2>2 DEF LookupRule, RulesUnchanged
<1>5. ASSUME NEW w \in Walker, Backfill(w) PROVE EdgeInv'
  <2>1. AtRule(w) BY <1>5 DEF Backfill, WalksAtRules
  <2>2. /\ \A v \in Walker \ {w} : walk'[v] = walk[v]
        /\ walk'[w].at = "walk"
    BY <1>0, <1>5, <2>1, PresentEffect DEF Backfill, Advanced
  <2> QED BY <1>1, <1>5, <2>2 DEF Backfill
<1>6. ASSUME NEW w \in Walker, StoreRule(w) PROVE EdgeInv' BY <1>6, EdgeStore
<1>7. ASSUME NEW w \in Walker, NEW committed \in 0..1, RememberRaises(w, committed) PROVE EdgeInv'
  <2>1. AtRule(w) /\ Current(w) \in Rule BY <1>0, <1>7, CurrentRule DEF RememberRaises, WalksAtRules
  <2>2. /\ \A v \in Walker \ {w} : walk'[v] = walk[v]
        /\ walk'[w].at = "walk"
    BY <1>0, <1>7, <2>1, SkipEffect DEF RememberRaises, Advanced, AtRule
  <2>3. /\ walk[w].at = "store" /\ ruleEdges' = ruleEdges /\ hurt' = hurt \cup {Current(w)}
        /\ ruleNotes' = [ruleNotes EXCEPT ![Current(w)] = @ + committed]
    BY <1>7 DEF RememberRaises
  <2>4. /\ \A s \in Rule \ {Current(w)} : ruleNotes'[s] = ruleNotes[s]
        /\ ruleNotes'[Current(w)] = ruleNotes[Current(w)] + committed /\ ruleNotes[Current(w)] \in Nat
    BY <1>0, <2>1, <2>3 DEF WalkTypes
  <2>5. \A s \in Rule : ruleNotes[s] > 0 => ruleNotes'[s] > 0
    <3> SUFFICES ASSUME NEW s \in Rule, ruleNotes[s] > 0 PROVE ruleNotes'[s] > 0 OBVIOUS
    <3>1. CASE s = Current(w)
      <4>1. ruleNotes[Current(w)] > 0 BY <3>1
      <4>2. ruleNotes'[Current(w)] > 0 BY <2>4, <4>1
      <4> QED BY <3>1, <4>2
    <3>2. CASE s # Current(w) BY <2>4, <3>2
    <3> QED BY <3>1, <3>2
  <2>6. \A s \in Rule : ruleNotes'[s] > 0 /\ s \notin hurt' => ruleNotes[s] > 0 /\ s \notin hurt
    BY <2>3, <2>4
  <2> QED BY <1>0, <2>2, <2>3, <2>5, <2>6, EdgeFrame
<1>8. ASSUME NEW w \in Walker, NEW e \in walk[w].left, AddRelation(w, e) \/ AddRelationFails(w, e)
      PROVE EdgeInv'
  BY <1>8, EdgeWrite
<1>9. ASSUME NEW w \in Walker, Related(w) PROVE EdgeInv'
  <2>1. AtRule(w) BY <1>9 DEF Related, WalksAtRules
  <2>2. /\ \A v \in Walker \ {w} : walk'[v] = walk[v]
        /\ walk'[w].at = "walk"
    BY <1>0, <1>9, <2>1, IngestedEffect DEF Related, Advanced
  <2> QED BY <1>1, <1>9, <2>2 DEF Related, RulesUnchanged
<1>10. ASSUME NEW w \in Walker, EndOfWalk(w) PROVE EdgeInv'
  <2>1. /\ \A v \in Walker \ {w} : walk'[v] = walk[v]
        /\ walk'[w].at = "done"
    BY <1>0, <1>10, MoveToEffect DEF EndOfWalk
  <2> QED BY <1>1, <1>10, <2>1 DEF EndOfWalk, RulesUnchanged
<1>11. ASSUME NEW w \in Walker, CountsRead(w) PROVE EdgeInv'
  <2>1. walk' = [walk EXCEPT ![w] = Idle] /\ Idle.at = "idle" /\ walk \in [Walker -> Walk]
    BY <1>0, <1>11 DEF CountsRead, Idle, WalkTypes
  <2>2. /\ \A v \in Walker \ {w} : walk'[v] = walk[v]
        /\ walk'[w].at = "idle"
    BY <2>1
  <2> QED BY <1>1, <1>11, <2>2 DEF CountsRead, RulesUnchanged
<1>12. ASSUME IngestCrash PROVE EdgeInv'
  <2>1. \A w \in Walker : walk'[w].at = "idle" BY <1>12 DEF IngestCrash, Idle
  <2>2. /\ ruleNotes' = ruleNotes /\ ruleEdges' = ruleEdges
        /\ hurt' = hurt \cup {Current(w) : w \in {v \in Walker : walk[v].at \in {"store", "relate"}}}
    BY <1>12 DEF IngestCrash, RulesUnchanged
  <2>3. ASSUME NEW r \in Rule, ruleNotes'[r] > 0, r \notin hurt', NEW e \in RelationsOf(r)
        PROVE e \in ruleEdges'
    <3>1. e \in ruleEdges \/ WritingRelation(r, e) BY <2>2, <2>3 DEF EdgeInv
    <3>2. ~WritingRelation(r, e) BY <2>2, <2>3 DEF WritingRelation
    <3> QED BY <2>2, <3>1, <3>2
  <2>4. \A e \in ruleEdges' : \E r \in Rule : ruleNotes'[r] > 0 /\ e \in RelationsOf(r)
    BY <2>2 DEF EdgeInv
  <2> QED BY <2>1, <2>3, <2>4 DEF EdgeInv
<1>13. CASE UNCHANGED ingestVars BY <1>13 DEF ingestVars, EdgeInv, Current, WritingRelation
<1>14. ASSUME NEW w \in Walker, NEW committed \in BOOLEAN, IngestRaises(w, committed) PROVE EdgeInv'
  <2>1. /\ \A v \in Walker \ {w} : walk'[v] = walk[v]
        /\ walk[w].at \in {"lookup", "backfill"} /\ walk'[w].at = "walk"
        /\ ruleEdges' = ruleEdges /\ ruleNotes' = ruleNotes /\ hurt' = hurt
    BY <1>14, RaisesEffect DEF Advanced
  <2> QED BY <1>1, <2>1
<1> QED
  BY <1>14, <1>2, <1>3, <1>4, <1>5, <1>6, <1>7, <1>8, <1>9, <1>10, <1>11, <1>12, <1>13 DEF IngestNext

\* The invariant of the walks holds throughout.
LEMMA RulesInductive == IngestSpec => []RulesInv
<1>1. IngestInit => RulesInv
  <2> SUFFICES ASSUME IngestInit PROVE RulesInv OBVIOUS
  <2>1. Idle \in Walk /\ Idle.at = "idle" /\ Idle.ingested = {} BY IdleTyped DEF Idle
  <2>2. \A w \in Walker : walk[w] = Idle BY DEF IngestInit
  <2>3. ruleNotes \in [Rule -> Nat] /\ \A r \in Rule : ruleNotes[r] > 0 <=> r \in LegacyRule
    BY DEF IngestInit
  <2>4. WalksAtRules
    <3>1. hurt \subseteq Rule BY LegacyRules DEF IngestInit
    <3> QED BY <2>1, <2>2, <2>3, <3>1, LegacyRules DEF IngestInit, WalksAtRules, WalkTypes
  <2>5. CountInv BY <2>1, <2>2 DEF CountInv
  <2>6. NoteInv BY <2>1, <2>2, <2>3, LegacyRules DEF IngestInit, NoteInv
  <2>7. EdgeInv
    <3>1. \A r \in LegacyRule : r \notin hurt => RelationsOf(r) \subseteq ruleEdges BY DEF IngestInit
    <3>2. \A e \in ruleEdges : \E r \in LegacyRule : e \in RelationsOf(r) BY DEF IngestInit
    <3> QED BY <2>1, <2>2, <2>3, <3>1, <3>2, LegacyRules DEF EdgeInv
  <2> QED BY <2>4, <2>5, <2>6, <2>7 DEF RulesInv
<1>2. RulesInv /\ [IngestNext]_ingestVars => RulesInv'
  BY WalkTypesStep, CountStep, NoteStep, EdgeStep DEF RulesInv
<1> QED BY <1>1, <1>2, PTL DEF IngestSpec

\* Only a race gives a rule two notes, only a fault, a crash or an older version leaves one
\* without an edge, no edge stands without its note, and the counts of every walk add up
\* (sigma/ingest.py:101, yara/ingest.py:200): for any rules, files and walks.
THEOREM RulesExplainedCorrect == IngestSpec => []RulesExplained
<1>1. RulesInv => RulesExplained
  <2> SUFFICES ASSUME RulesInv PROVE RulesExplained OBVIOUS
  <2>1. ASSUME NEW w \in Walker, walk[w].at = "done" PROVE walk[w].taken + walk[w].skipped = Len(Found)
    <3>1. walk[w].taken + walk[w].skipped + Len(walk[w].todo) = Len(Found) /\ walk[w].todo = <<>>
      BY <2>1 DEF RulesInv, CountInv
    <3>2. walk[w] \in Walk BY DEF RulesInv, WalksAtRules, WalkTypes
    <3>3. walk[w].taken \in Nat /\ walk[w].skipped \in Nat BY <3>2 DEF Walk
    <3>4. Len(walk[w].todo) = 0 BY <3>1
    <3> QED BY <3>1, <3>3, <3>4
  <2> QED BY <2>1 DEF RulesInv, NoteInv, EdgeInv, RulesExplained
<1> QED BY <1>1, RulesInductive, PTL

-----------------------------------------------------------------------------
(* Rules: how many notes a rule can have *)

\* A rule has at most one note for each walk that was adding it at the same time.
Bounded == \A r \in Rule : ruleNotes[r] + Cardinality(Adding(r)) <= Cardinality(Walker)
LeftInv == \A w \in Walker : walk[w].at # "relate" => walk[w].left = {}
SizesInv == Bounded /\ LeftInv /\ walks \in 0..MaxWalks /\ ingestFaults \in 0..MaxIngestFaults

LEMMA AddingFinite ==
  ASSUME NEW A \in SUBSET Walker
  PROVE IsFiniteSet(A) /\ Cardinality(A) \in Nat /\ Cardinality(A) <= Cardinality(Walker)
<1>1. IsFiniteSet(Walker) BY WalkConstants
<1>2. IsFiniteSet(A) /\ Cardinality(A) <= Cardinality(Walker) BY <1>1, FS_Subset
<1> QED BY <1>2, FS_CardinalityType

\* No walk begins to add a rule, and no rule has a note more.
LEMMA BoundedFewer ==
  ASSUME Bounded, NEW r \in Rule, ruleNotes'[r] = ruleNotes[r], ruleNotes[r] \in Nat, Adding(r)' \subseteq Adding(r)
  PROVE ruleNotes'[r] + Cardinality(Adding(r)') <= Cardinality(Walker)
<1> DEFINE A == Adding(r)
           B == Adding(r)'
<1>1. A \in SUBSET Walker /\ B \subseteq A BY DEF Adding
<1> HIDE DEF A, B
<1>2. IsFiniteSet(A) /\ Cardinality(A) \in Nat BY <1>1, AddingFinite
<1>3. Cardinality(B) <= Cardinality(A) BY <1>1, <1>2, FS_Subset
<1>4. Cardinality(B) \in Nat /\ Cardinality(Walker) \in Nat
  <2>1. B \in SUBSET Walker /\ Walker \in SUBSET Walker BY <1>1
  <2> QED BY <2>1, AddingFinite
<1>5. ruleNotes[r] + Cardinality(A) <= Cardinality(Walker) BY DEF Bounded, A
<1>6. ruleNotes'[r] + Cardinality(B) <= Cardinality(Walker) BY <1>2, <1>3, <1>4, <1>5
<1> QED BY <1>6 DEF B

\* A walk goes on, and does not come to a rule that it is to add.
LEMMA SizesFrame ==
  ASSUME WalkTypes, SizesInv, NEW w \in Walker, \A v \in Walker \ {w} : walk'[v] = walk[v],
         walk'[w].at # "store" \/ walk'[w] = walk[w], walk'[w].at # "relate" => walk'[w].left = {}, ruleNotes' = ruleNotes
  PROVE Bounded' /\ LeftInv'
<1>1. \A v \in Walker \ {w} : Current(v)' = Current(v) BY CurrentKept
<1>2. ASSUME NEW r \in Rule PROVE ruleNotes'[r] + Cardinality(Adding(r)') <= Cardinality(Walker)
  <2>1. Adding(r)' \subseteq Adding(r)
    <3>1. ASSUME NEW v \in Walker, walk'[v].at = "store", Current(v)' = r PROVE walk[v].at = "store" /\ Current(v) = r
      <4>1. CASE v = w
        <5>1. walk'[w] = walk[w] BY <3>1, <4>1
        <5> QED BY <3>1, <4>1, <5>1, CurrentKept
      <4>2. CASE v # w BY <1>1, <3>1, <4>2
      <4> QED BY <4>1, <4>2
    <3> QED BY <3>1 DEF Adding
  <2>2. ruleNotes[r] \in Nat /\ ruleNotes'[r] = ruleNotes[r] BY DEF WalkTypes
  <2> QED BY <2>1, <2>2, BoundedFewer DEF SizesInv
<1>3. Bounded' BY <1>2 DEF Bounded
<1>4. LeftInv' BY DEF LeftInv, SizesInv
<1> QED BY <1>3, <1>4

\* The walk that has looked for the rule in vain.
LEMMA SizesLookup ==
  ASSUME WalksAtRules, SizesInv, NEW w \in Walker, AtRule(w), walk[w].at = "lookup", MoveTo(w, "store"),
         ruleNotes[Current(w)] = 0, ruleNotes' = ruleNotes
  PROVE Bounded' /\ LeftInv'
<1>0. WalkTypes BY DEF WalksAtRules
<1>1. /\ \A v \in Walker \ {w} : walk'[v] = walk[v]
      /\ walk'[w].at = "store" /\ walk'[w].todo = walk[w].todo /\ walk'[w].left = walk[w].left
  BY <1>0, MoveToEffect
<1>2. \A v \in Walker : Current(v)' = Current(v) BY <1>1, CurrentKept
<1>3. ASSUME NEW r \in Rule PROVE ruleNotes'[r] + Cardinality(Adding(r)') <= Cardinality(Walker)
  <2>1. CASE r = Current(w)
    <3> DEFINE B == Adding(r)'
    <3>1. B \in SUBSET Walker BY DEF Adding
    <3> HIDE DEF B
    <3>2. Cardinality(B) \in Nat /\ Cardinality(B) <= Cardinality(Walker) BY <3>1, AddingFinite
    <3>3. ruleNotes'[r] = 0 BY <2>1
    <3>4. 0 + Cardinality(B) = Cardinality(B) BY <3>2
    <3> QED BY <3>2, <3>3, <3>4 DEF B
  <2>2. CASE r # Current(w)
    <3>1. Adding(r)' \subseteq Adding(r)
      <4>1. ASSUME NEW v \in Walker, walk'[v].at = "store", Current(v)' = r PROVE walk[v].at = "store" /\ Current(v) = r
        <5>1. v # w BY <1>2, <2>2, <4>1
        <5> QED BY <1>1, <1>2, <4>1, <5>1
      <4> QED BY <4>1 DEF Adding
    <3>2. ruleNotes[r] \in Nat /\ ruleNotes'[r] = ruleNotes[r] BY <1>0 DEF WalkTypes
    <3> QED BY <3>1, <3>2, BoundedFewer DEF SizesInv
  <2> QED BY <2>1, <2>2
<1>4. Bounded' BY <1>3 DEF Bounded
<1>5. LeftInv' BY <1>1 DEF LeftInv, SizesInv
<1> QED BY <1>4, <1>5

\* The walk that has added the rule, or failed to.
LEMMA SizesStored ==
  ASSUME WalksAtRules, SizesInv, NEW w \in Walker, walk[w].at = "store", \A v \in Walker \ {w} : walk'[v] = walk[v],
         walk'[w].at # "store", walk'[w].at # "relate" => walk'[w].left = {},
         NEW k \in 0..1, ruleNotes' = [ruleNotes EXCEPT ![Current(w)] = @ + k]
  PROVE Bounded' /\ LeftInv'
<1>0. WalkTypes BY DEF WalksAtRules
<1>1. Current(w) \in Rule BY <1>0, CurrentRule DEF WalksAtRules
<1>2. \A v \in Walker \ {w} : Current(v)' = Current(v) BY CurrentKept
<1>3. ruleNotes'[Current(w)] = ruleNotes[Current(w)] + k /\ \A s \in Rule \ {Current(w)} : ruleNotes'[s] = ruleNotes[s]
  BY <1>0, <1>1, NoteAdded
<1>4. ASSUME NEW r \in Rule PROVE Adding(r)' \subseteq Adding(r) \ {w}
  <2>1. ASSUME NEW v \in Walker, walk'[v].at = "store", Current(v)' = r
        PROVE v # w /\ walk[v].at = "store" /\ Current(v) = r
    <3>1. v # w BY <2>1
    <3> QED BY <1>2, <2>1, <3>1
  <2> QED BY <2>1 DEF Adding
<1>5. ASSUME NEW r \in Rule PROVE ruleNotes'[r] + Cardinality(Adding(r)') <= Cardinality(Walker)
  <2>1. ruleNotes[r] \in Nat BY <1>0 DEF WalkTypes
  <2>2. CASE r # Current(w)
    <3>1. ruleNotes'[r] = ruleNotes[r] /\ Adding(r)' \subseteq Adding(r) BY <1>3, <1>4, <2>2
    <3> QED BY <2>1, <3>1, BoundedFewer DEF SizesInv
  <2>3. CASE r = Current(w)
    <3> DEFINE A == Adding(r)
               B == Adding(r)'
    <3>1. w \in A /\ A \in SUBSET Walker /\ B \subseteq A \ {w} BY <1>4, <2>3 DEF Adding
    <3>2. ruleNotes[r] + Cardinality(A) <= Cardinality(Walker) BY DEF Bounded, SizesInv
    <3> HIDE DEF A, B
    <3>3. IsFiniteSet(A) /\ Cardinality(A) \in Nat BY <3>1, AddingFinite
    <3>4. IsFiniteSet(A \ {w}) /\ Cardinality(A \ {w}) = Cardinality(A) - 1 BY <3>1, <3>3, FS_RemoveElement
    <3>5. Cardinality(B) <= Cardinality(A \ {w}) BY <3>1, <3>4, FS_Subset
    <3>6. Cardinality(B) \in Nat /\ Cardinality(Walker) \in Nat
      <4>1. B \in SUBSET Walker /\ Walker \in SUBSET Walker BY <3>1
      <4> QED BY <4>1, AddingFinite
    <3>7. ruleNotes'[r] = ruleNotes[r] + k /\ k <= 1 BY <1>3, <2>3
    <3>8. ruleNotes'[r] + Cardinality(B) <= Cardinality(Walker) BY <2>1, <3>2, <3>3, <3>4, <3>5, <3>6, <3>7
    <3> QED BY <3>8 DEF B
  <2> QED BY <2>2, <2>3
<1>6. Bounded' BY <1>5 DEF Bounded
<1>7. LeftInv' BY DEF LeftInv, SizesInv
<1> QED BY <1>6, <1>7

LEMMA SizesStep == WalksAtRules /\ SizesInv /\ [IngestNext]_ingestVars => SizesInv'
<1> SUFFICES ASSUME WalksAtRules, SizesInv, [IngestNext]_ingestVars PROVE SizesInv' OBVIOUS
<1> USE DEF RulesUnchanged
<1>0. WalkTypes /\ LeftInv /\ walks \in 0..MaxWalks /\ ingestFaults \in 0..MaxIngestFaults
      /\ MaxWalks \in Nat /\ MaxIngestFaults \in Nat
  BY WalkConstants DEF WalksAtRules, SizesInv
<1>1. (walks < MaxWalks => walks + 1 \in 0..MaxWalks) /\ (ingestFaults < MaxIngestFaults => ingestFaults + 1 \in 0..MaxIngestFaults)
  BY <1>0
<1>2. ASSUME NEW w \in Walker, NEW more, Advanced(w, more), ruleNotes' = ruleNotes PROVE Bounded' /\ LeftInv'
  BY <1>0, <1>2, SizesFrame DEF Advanced
<1>3. ASSUME NEW w \in Walker, NEW tier \in Tiers, IngestDir(w, tier) PROVE SizesInv'
  <2>1. \A v \in Walker \ {w} : walk'[v] = walk[v] BY <1>0, <1>3, IngestDirEffect
  <2>2. walk'[w].at = "walk" /\ walk'[w].left = {}
    <3> DEFINE new == [Idle EXCEPT !.at = "walk", !.tier = tier, !.todo = Found]
    <3>1. new.at = "walk" /\ new.left = {} BY DEF Idle
    <3>2. walk' = [walk EXCEPT ![w] = new] /\ walk \in [Walker -> Walk] BY <1>0, <1>3 DEF IngestDir, WalkTypes
    <3> HIDE DEF new
    <3> QED BY <3>1, <3>2
  <2>3. Bounded' /\ LeftInv' BY <1>0, <1>3, <2>1, <2>2, SizesFrame DEF IngestDir
  <2> QED BY <1>0, <1>1, <1>3, <2>3 DEF IngestDir, SizesInv
<1>4. ASSUME NEW w \in Walker, TakeEntry(w) PROVE SizesInv'
  <2>1. walk[w].at = "walk" /\ walk[w].todo # <<>> /\ ruleNotes' = ruleNotes BY <1>4 DEF TakeEntry
  <2>2. CASE Skip(w)
    <3>1. Bounded' /\ LeftInv' BY <1>0, <1>2, <2>1, <2>2, SkipEffect
    <3> QED BY <1>0, <1>4, <3>1 DEF TakeEntry, SizesInv
  <2>3. CASE MoveTo(w, "lookup")
    <3>1. (\A v \in Walker \ {w} : walk'[v] = walk[v]) /\ walk'[w].at = "lookup" /\ walk'[w].left = walk[w].left
      BY <1>0, <2>3, MoveToEffect
    <3>2. walk'[w].left = {} BY <1>0, <2>1, <3>1 DEF LeftInv
    <3>3. Bounded' /\ LeftInv' BY <1>0, <2>1, <3>1, <3>2, SizesFrame
    <3> QED BY <1>0, <1>4, <3>3 DEF TakeEntry, SizesInv
  <2> QED BY <1>4, <2>2, <2>3 DEF TakeEntry
<1>5. ASSUME NEW w \in Walker, LookupRule(w) PROVE SizesInv'
  <2>1. AtRule(w) /\ walk[w].at = "lookup" /\ ruleNotes' = ruleNotes BY <1>5 DEF LookupRule, WalksAtRules
  <2>2. CASE ruleNotes[Current(w)] = 0 /\ MoveTo(w, "store")
    <3>1. Bounded' /\ LeftInv' BY <2>1, <2>2, SizesLookup
    <3> QED BY <1>0, <1>5, <3>1 DEF LookupRule, SizesInv
  <2>3. CASE MoveTo(w, "backfill")
    <3>1. (\A v \in Walker \ {w} : walk'[v] = walk[v]) /\ walk'[w].at = "backfill" /\ walk'[w].left = walk[w].left
      BY <1>0, <2>3, MoveToEffect
    <3>2. walk'[w].left = {} BY <1>0, <2>1, <3>1 DEF LeftInv
    <3>3. Bounded' /\ LeftInv' BY <1>0, <2>1, <3>1, <3>2, SizesFrame
    <3> QED BY <1>0, <1>5, <3>3 DEF LookupRule, SizesInv
  <2>4. CASE Present(w)
    <3>1. Bounded' /\ LeftInv' BY <1>0, <1>2, <2>1, <2>4, PresentEffect
    <3> QED BY <1>0, <1>5, <3>1 DEF LookupRule, SizesInv
  <2> QED BY <1>5, <2>2, <2>3, <2>4 DEF LookupRule
<1>6. ASSUME NEW w \in Walker, Backfill(w) PROVE SizesInv'
  <2>1. AtRule(w) /\ ruleNotes' = ruleNotes /\ Present(w) BY <1>6 DEF Backfill, WalksAtRules
  <2>2. Bounded' /\ LeftInv' BY <1>0, <1>2, <2>1, PresentEffect
  <2> QED BY <1>0, <1>6, <2>2 DEF Backfill, SizesInv
<1>7. ASSUME NEW w \in Walker, StoreRule(w) PROVE SizesInv'
  <2>1. AtRule(w) /\ Current(w) \in Rule BY <1>0, <1>7, CurrentRule DEF StoreRule, WalksAtRules
  <2>2. RelationsOf(Current(w)) \subseteq Relations BY <2>1, RelationsTyped
  <2>3. (\A v \in Walker \ {w} : walk'[v] = walk[v]) /\ walk'[w].at = "relate"
    BY <1>0, <1>7, <2>2, LeftEffect DEF StoreRule
  <2>4. Bounded' /\ LeftInv'
    <3>1. ruleNotes' = [ruleNotes EXCEPT ![Current(w)] = @ + 1] /\ walk[w].at = "store" /\ 1 \in 0..1 BY <1>7 DEF StoreRule
    <3>2. walk'[w].at # "store" /\ (walk'[w].at # "relate" => walk'[w].left = {}) BY <2>3
    <3> QED BY <2>3, <3>1, <3>2, SizesStored
  <2> QED BY <1>0, <1>7, <2>4 DEF StoreRule, SizesInv
<1>8. ASSUME NEW w \in Walker, NEW committed \in 0..1, RememberRaises(w, committed) PROVE SizesInv'
  <2>1. AtRule(w) /\ walk[w].at = "store" /\ walk[w].todo # <<>> /\ Skip(w)
    BY <1>8 DEF RememberRaises, WalksAtRules, AtRule
  <2>2. Advanced(w, {}) BY <1>0, <2>1, SkipEffect
  <2>3. Bounded' /\ LeftInv'
    <3>1. ruleNotes' = [ruleNotes EXCEPT ![Current(w)] = @ + committed] BY <1>8 DEF RememberRaises
    <3>2. (\A v \in Walker \ {w} : walk'[v] = walk[v]) /\ walk'[w].at = "walk" /\ walk'[w].left = {} BY <2>2 DEF Advanced
    <3> QED BY <2>1, <3>1, <3>2, SizesStored
  <2> QED BY <1>0, <1>1, <1>8, <2>3 DEF RememberRaises, SizesInv
<1>9. ASSUME NEW w \in Walker, NEW e \in walk[w].left, AddRelation(w, e) \/ AddRelationFails(w, e) PROVE SizesInv'
  <2>1. walk[w] \in Walk /\ walk \in [Walker -> Walk] BY <1>0 DEF WalkTypes
  <2>2. walk[w].left \ {e} \in SUBSET Relations BY <2>1 DEF Walk
  <2>3. walk' = [walk EXCEPT ![w].at = "relate", ![w].left = walk[w].left \ {e}]
    BY <1>9, <2>1 DEF AddRelation, AddRelationFails, Walk
  <2>4. (\A v \in Walker \ {w} : walk'[v] = walk[v]) /\ walk'[w].at = "relate" BY <1>0, <2>2, <2>3, LeftEffect
  <2>5. Bounded' /\ LeftInv' BY <1>0, <1>9, <2>4, SizesFrame DEF AddRelation, AddRelationFails
  <2> QED BY <1>0, <1>1, <1>9, <2>5 DEF AddRelation, AddRelationFails, SizesInv
<1>10. ASSUME NEW w \in Walker, Related(w) PROVE SizesInv'
  <2>1. AtRule(w) /\ ruleNotes' = ruleNotes /\ Ingested(w) BY <1>10 DEF Related, WalksAtRules
  <2>2. Bounded' /\ LeftInv' BY <1>0, <1>2, <2>1, IngestedEffect
  <2> QED BY <1>0, <1>10, <2>2 DEF Related, SizesInv
<1>11. ASSUME NEW w \in Walker, EndOfWalk(w) PROVE SizesInv'
  <2>1. (\A v \in Walker \ {w} : walk'[v] = walk[v]) /\ walk'[w].at = "done" /\ walk'[w].left = walk[w].left
    BY <1>0, <1>11, MoveToEffect DEF EndOfWalk
  <2>2. walk'[w].left = {} BY <1>0, <1>11, <2>1 DEF LeftInv, EndOfWalk
  <2>3. Bounded' /\ LeftInv' BY <1>0, <1>11, <2>1, <2>2, SizesFrame DEF EndOfWalk
  <2> QED BY <1>0, <1>11, <2>3 DEF EndOfWalk, SizesInv
<1>12. ASSUME NEW w \in Walker, CountsRead(w) PROVE SizesInv'
  <2>1. walk' = [walk EXCEPT ![w] = Idle] /\ Idle.at = "idle" /\ Idle.left = {} /\ walk \in [Walker -> Walk]
    BY <1>0, <1>12 DEF CountsRead, Idle, WalkTypes
  <2>2. walk'[w].at = "idle" /\ walk'[w].left = {} /\ \A v \in Walker \ {w} : walk'[v] = walk[v] BY <2>1
  <2>3. Bounded' /\ LeftInv' BY <1>0, <1>12, <2>2, SizesFrame DEF CountsRead
  <2> QED BY <1>0, <1>12, <2>3 DEF CountsRead, SizesInv
<1>13. ASSUME IngestCrash PROVE SizesInv'
  <2>1. Idle.at = "idle" /\ Idle.left = {} BY DEF Idle
  <2>2. \A w \in Walker : walk'[w].at = "idle" /\ walk'[w].left = {} BY <1>13, <2>1 DEF IngestCrash
  <2>3. LeftInv' BY <2>2 DEF LeftInv
  <2>4. ASSUME NEW r \in Rule PROVE ruleNotes'[r] + Cardinality(Adding(r)') <= Cardinality(Walker)
    <3>1. Adding(r)' \subseteq Adding(r) BY <2>2 DEF Adding
    <3>2. ruleNotes[r] \in Nat /\ ruleNotes'[r] = ruleNotes[r] BY <1>0, <1>13 DEF IngestCrash, WalkTypes
    <3> QED BY <3>1, <3>2, BoundedFewer DEF SizesInv
  <2>5. Bounded' BY <2>4 DEF Bounded
  <2> QED BY <1>0, <1>1, <1>13, <2>3, <2>5 DEF IngestCrash, SizesInv
<1>14. CASE UNCHANGED ingestVars
  BY <1>14 DEF ingestVars, SizesInv, Bounded, LeftInv, Adding, Current
<1>15. ASSUME NEW w \in Walker, NEW committed \in BOOLEAN, IngestRaises(w, committed) PROVE SizesInv'
  <2>1. Bounded' /\ LeftInv' BY <1>2, <1>15, RaisesEffect
  <2>2. walks' \in 0..MaxWalks /\ ingestFaults' \in 0..MaxIngestFaults BY <1>0, <1>1, <1>15, RaisesEffect
  <2> QED BY <2>1, <2>2 DEF SizesInv
<1> QED
  BY <1>15, <1>3, <1>4, <1>5, <1>6, <1>7, <1>8, <1>9, <1>10, <1>11, <1>12, <1>13, <1>14 DEF IngestNext

LEMMA RelationKinds ==
  ASSUME NEW r \in Rule, NEW e \in RelationsOf(r)
  PROVE e.rel \in {"applies_to", "tagged_with", "detects", "references_cve", "attributed_to", "superseded_by", "related_to"}
<1>1. \A kind \in TypedBy(r) : TypedEdge[kind] \in {"detects", "references_cve", "attributed_to"} BY DEF TypedBy, TypedEdge
<1>2. \A m \in r.cccs : MetaEdge[m.field] \in {"detects", "tagged_with", "attributed_to"}
  BY RuleFields DEF MetaEdge
<1> QED BY <1>1, <1>2 DEF RelationsOf, Edge

\* The walks over Sigma and YARA rules keep their variables well formed, and a rule has at most as
\* many notes as there are walks that can race (ingest_rule looks the rule up before it stores it).
THEOREM IngestTypeCorrect == IngestSpec => []IngestTypeOK
<1>1. IngestInit => SizesInv
  <2> SUFFICES ASSUME IngestInit PROVE SizesInv OBVIOUS
  <2>1. \A w \in Walker : walk[w].at = "idle" /\ walk[w].left = {} BY DEF IngestInit, Idle
  <2>2. ASSUME NEW r \in Rule PROVE ruleNotes[r] + Cardinality(Adding(r)) <= Cardinality(Walker)
    <3>1. Adding(r) = {} BY <2>1 DEF Adding
    <3>2. Cardinality(Adding(r)) = 0 BY <3>1, FS_EmptySet
    <3>3. ruleNotes[r] \in 0..1 BY DEF IngestInit
    <3>4. Cardinality(Walker) \in Nat /\ Cardinality(Walker) # 0
      <4>1. IsFiniteSet(Walker) /\ Walker # {} BY WalkConstants
      <4> QED BY <4>1, FS_EmptySet, FS_CardinalityType
    <3> QED BY <3>2, <3>3, <3>4
  <2> QED BY <2>1, <2>2, WalkConstants DEF IngestInit, SizesInv, Bounded, LeftInv
<1>2. RulesInv /\ SizesInv /\ [IngestNext]_ingestVars => SizesInv' BY SizesStep DEF RulesInv
<1>3. RulesInv /\ SizesInv => IngestTypeOK
  <2> SUFFICES ASSUME RulesInv, SizesInv PROVE IngestTypeOK OBVIOUS
  <2>1. WalkTypes BY DEF RulesInv, WalksAtRules
  <2>2. ruleNotes \in [Rule -> 0..Cardinality(Walker)]
    <3>1. ASSUME NEW r \in Rule PROVE ruleNotes[r] \in 0..Cardinality(Walker)
      <4>1. Adding(r) \in SUBSET Walker /\ Walker \in SUBSET Walker BY DEF Adding
      <4>2. Cardinality(Adding(r)) \in Nat /\ Cardinality(Walker) \in Nat BY <4>1, AddingFinite
      <4>3. ruleNotes[r] + Cardinality(Adding(r)) <= Cardinality(Walker) BY DEF SizesInv, Bounded
      <4>4. ruleNotes[r] \in Nat BY <2>1 DEF WalkTypes
      <4> QED BY <4>2, <4>3, <4>4
    <3> QED BY <2>1, <3>1 DEF WalkTypes
  <2>3. \A e \in ruleEdges : e.rel \in {"applies_to", "tagged_with", "detects", "references_cve",
                                        "attributed_to", "superseded_by", "related_to"}
    BY RelationKinds DEF RulesInv, EdgeInv
  <2>4. ASSUME NEW w \in Walker
        PROVE /\ walk[w].at \in {"idle", "walk", "lookup", "backfill", "store", "relate", "done"}
              /\ walk[w].tier \in Tiers /\ walk[w].ingested \subseteq Rule
              /\ walk[w].left # {} => walk[w].left \subseteq RelationsOf(Current(w))
    <3>1. walk[w] \in Walk BY <2>1 DEF WalkTypes
    <3>2. walk[w].left # {} => walk[w].at = "relate" BY DEF SizesInv, LeftInv
    <3> QED BY <3>1, <3>2 DEF Walk, RulesInv, EdgeInv
  <2> QED BY <2>1, <2>2, <2>3, <2>4 DEF IngestTypeOK, SizesInv, WalkTypes
<1> QED BY <1>1, <1>2, <1>3, RulesInductive, PTL DEF IngestSpec

-----------------------------------------------------------------------------
(* OSINT runs *)

\* The elements of a finite set put in a row are a sequence of them.
LEMMA InARow ==
  ASSUME NEW S, IsFiniteSet(S)
  PROVE SetToSeq(S) \in Seq(S)
<1>1. Cardinality(S) \in Nat /\ ExistsBijection(1..Cardinality(S), S) BY FS_CardinalityType
<1>2. \E f \in [1..Cardinality(S) -> S] : IsInjective(f)
  BY <1>1 DEF ExistsBijection, Bijection, Injection
<1>3. SetToSeq(S) \in [1..Cardinality(S) -> S] BY <1>2 DEF SetToSeq
<1> QED BY <1>1, <1>3

Tuples == UNION {Collectors[c].maybe : c \in DOMAIN Collectors}
Types == UNION {{t.outType, t.from, t.to} : t \in Tuples}
Nodes == Types \X DOMAIN Spelling
PersistedTuples == [edge : [from : Nodes, rel : DOMAIN RelationTypes, to : Nodes], nodes : SUBSET Nodes]
RunRec == [at : {"idle", "seed", "collect", "tuples", "returned", "raised"},
           type : SeedTypes \cup {""}, seed : DOMAIN Spelling \cup {""}, persist : BOOLEAN,
           todo : Seq(DOMAIN Collectors), collector : DOMAIN Collectors \cup {""},
           tuples : Seq(Tuples), writing : 0..4, collected : Nat, persisted : Seq(PersistedTuples), refused : Nat]

RunTypes == run \in RunRec /\ runs \in 0..MaxRuns /\ storeErrors \in 0..MaxStoreErrors

\* The tuple being written is one that was accepted, and the nodes written before it are there.
TupleInv ==
  /\ run.tuples # <<>> => run.at = "tuples"
  /\ run.writing # 0 => /\ run.persist /\ run.tuples # <<>> /\ Accepted(Head(run.tuples))
                        /\ Persisted(Head(run.tuples)) \in accepted
  /\ \A i \in 1..3 : i < run.writing => NodesOf(Head(run.tuples))[i] \in osNodes
  /\ run.at = "seed" => <<run.type, run.seed>> \in seeded

Inside(r) == r.edge \in osEdges /\ r.nodes \subseteq osNodes

\* What is in the graph, and why.
GraphInv ==
  /\ \A r \in Range(run.persisted) : r \in accepted /\ Inside(r)
  /\ \A r \in accepted : Inside(r) \/ r \in cutShort \cup BeingWritten
  /\ cutShort \subseteq accepted
  /\ osEdges \subseteq {r.edge : r \in accepted}
  /\ osNodes \subseteq seeded \cup UNION {r.nodes : r \in accepted}
  /\ \A e \in osEdges : /\ e.from \in osNodes /\ e.to \in osNodes
                        /\ e.from \notin Invalid /\ e.to \notin Invalid

\* Every tuple collected was persisted or refused, or is still to come.
TallyInv ==
  run.persist /\ run.at \in {"seed", "collect", "tuples", "returned"} =>
    run.collected = Len(run.persisted) + run.refused + Len(run.tuples)

OsintInv == RunTypes /\ TupleInv /\ GraphInv /\ TallyInv

\* A run keeps its type and seed while it goes on, and so what it writes for a tuple.
LEMMA TupleKept ==
  ASSUME run'.type = run.type, run'.seed = run.seed, run'.tuples = run.tuples,
         run'.collector = run.collector
  PROVE /\ NodesOf(Head(run.tuples))' = NodesOf(Head(run.tuples))
        /\ Accepted(Head(run.tuples))' <=> Accepted(Head(run.tuples))
        /\ Persisted(Head(run.tuples))' = Persisted(Head(run.tuples))
<1>1. /\ FromValue(Head(run.tuples))' = FromValue(Head(run.tuples))
      /\ ToValue(Head(run.tuples))' = ToValue(Head(run.tuples))
  BY DEF FromValue, ToValue
<1> QED BY <1>1 DEF NodesOf, EdgeOf, Persisted, Accepted, ValidEntity, CanonicalNode, Readable

\* The three nodes of a tuple, and the ends of its edge.
LEMMA ThreeNodes ==
  ASSUME NEW t
  PROVE /\ Range(NodesOf(t)) = {NodesOf(t)[1], NodesOf(t)[2], NodesOf(t)[3]}
        /\ NodesOf(t)[2] = EdgeOf(t).from /\ NodesOf(t)[3] = EdgeOf(t).to
        /\ Accepted(t) => EdgeOf(t).from \notin Invalid /\ EdgeOf(t).to \notin Invalid
<1>1. Range(NodesOf(t)) = {NodesOf(t)[1], NodesOf(t)[2], NodesOf(t)[3]}
      /\ NodesOf(t)[2] = EdgeOf(t).from /\ NodesOf(t)[3] = EdgeOf(t).to
  <2> DEFINE a == CanonicalNode(t.outType, t.out)
             b == EdgeOf(t).from
             c == EdgeOf(t).to
  <2>1. NodesOf(t) = <<a, b, c>> BY DEF NodesOf
  <2> HIDE DEF a, b, c
  <2>2. DOMAIN <<a, b, c>> = {1, 2, 3} OBVIOUS
  <2>3. Range(<<a, b, c>>) = {a, b, c} BY <2>2 DEF Range
  <2>4. NodesOf(t)[1] = a /\ NodesOf(t)[2] = b /\ NodesOf(t)[3] = c BY <2>1
  <2> QED BY <2>1, <2>3, <2>4 DEF b, c
<1>2. Accepted(t) => EdgeOf(t).from \notin Invalid /\ EdgeOf(t).to \notin Invalid
  BY DEF Accepted, ValidEntity, EdgeOf
<1> QED BY <1>1, <1>2

\* What the result says of a tuple that was accepted.
LEMMA PersistedTyped ==
  ASSUME NEW t \in Tuples, Accepted(t)
  PROVE /\ Persisted(t) \in PersistedTuples
        /\ Persisted(t).edge = EdgeOf(t) /\ Persisted(t).nodes = Range(NodesOf(t))
<1>1. /\ CanonicalNode(t.outType, t.out) \in Nodes /\ EdgeOf(t).from \in Nodes /\ EdgeOf(t).to \in Nodes
      /\ t.edge \in DOMAIN RelationTypes
  <2> DEFINE a == FromValue(t)
             b == ToValue(t)
  <2>1. t.outType \in Types /\ t.from \in Types /\ t.to \in Types BY DEF Types
  <2>2. /\ t.out \in DOMAIN Spelling /\ a \in DOMAIN Spelling /\ b \in DOMAIN Spelling
        /\ t.edge \in DOMAIN RelationTypes
    BY DEF Accepted, ValidEntity, Readable
  <2>3. EdgeOf(t).from = <<t.from, Spelling[a]>> /\ EdgeOf(t).to = <<t.to, Spelling[b]>>
        /\ CanonicalNode(t.outType, t.out) = <<t.outType, Spelling[t.out]>>
    BY DEF EdgeOf, CanonicalNode
  <2> HIDE DEF a, b
  <2>5. Spelling[t.out] \in DOMAIN Spelling /\ Spelling[a] \in DOMAIN Spelling /\ Spelling[b] \in DOMAIN Spelling
    BY <2>2, CanonicalSpellings
  <2> QED BY <2>1, <2>2, <2>3, <2>5 DEF Nodes
<1>2. EdgeOf(t) \in [from : Nodes, rel : DOMAIN RelationTypes, to : Nodes]
  <2> DEFINE a == CanonicalNode(t.from, FromValue(t))
             b == CanonicalNode(t.to, ToValue(t))
  <2>1. a \in Nodes /\ b \in Nodes /\ EdgeOf(t) = [from |-> a, rel |-> t.edge, to |-> b] BY <1>1 DEF EdgeOf
  <2> HIDE DEF a, b
  <2> QED BY <1>1, <2>1
<1>3. Range(NodesOf(t)) = {NodesOf(t)[1], NodesOf(t)[2], NodesOf(t)[3]}
      /\ NodesOf(t)[1] = CanonicalNode(t.outType, t.out)
      /\ NodesOf(t)[2] = EdgeOf(t).from /\ NodesOf(t)[3] = EdgeOf(t).to
  BY ThreeNodes DEF NodesOf
<1>4. Range(NodesOf(t)) \in SUBSET Nodes BY <1>1, <1>3
<1> QED BY <1>2, <1>4 DEF Persisted, PersistedTuples

\* The tuples a result names, with one more.
LEMMA OneMorePersisted ==
  ASSUME NEW S, NEW rs \in Seq(S), NEW r \in S
  PROVE /\ Append(rs, r) \in Seq(S) /\ Len(Append(rs, r)) = Len(rs) + 1
        /\ \A q \in Range(Append(rs, r)) : q \in Range(rs) \/ q = r
<1>1. /\ Append(rs, r) \in Seq(S) /\ Len(Append(rs, r)) = Len(rs) + 1
      /\ \A i \in 1..Len(rs) : Append(rs, r)[i] = rs[i] /\ Append(rs, r)[Len(rs) + 1] = r
  BY AppendProperties
<1>2. Append(rs, r)[Len(rs) + 1] = r BY AppendProperties
<1>3. DOMAIN Append(rs, r) = 1..Len(rs) + 1 /\ DOMAIN rs = 1..Len(rs) /\ Len(rs) \in Nat BY <1>1, LenProperties
<1>4. ASSUME NEW i \in 1..Len(rs) + 1 PROVE Append(rs, r)[i] \in Range(rs) \/ Append(rs, r)[i] = r
  <2>1. CASE i \in 1..Len(rs) BY <1>1, <1>3, <2>1 DEF Range
  <2>2. CASE i = Len(rs) + 1 BY <1>2, <2>2
  <2> QED BY <1>3, <2>1, <2>2
<1> QED BY <1>1, <1>3, <1>4 DEF Range

\* No run, and one that an error ends.
LEMMA NoRunTyped ==
  /\ NoRun \in RunRec /\ NoRun.tuples = <<>> /\ NoRun.writing = 0
  /\ [NoRun EXCEPT !.at = "raised"] \in RunRec
  /\ [NoRun EXCEPT !.at = "raised"].tuples = <<>> /\ [NoRun EXCEPT !.at = "raised"].writing = 0
  /\ [NoRun EXCEPT !.at = "raised"].at = "raised" /\ NoRun.persisted = <<>>
  /\ [NoRun EXCEPT !.at = "raised"].persisted = <<>>
<1>1. <<>> \in Seq(DOMAIN Collectors) /\ <<>> \in Seq(Tuples) /\ <<>> \in Seq(PersistedTuples) OBVIOUS
<1>2. NoRun \in RunRec BY <1>1 DEF NoRun, RunRec
<1>3. [NoRun EXCEPT !.at = "raised"] \in RunRec BY <1>2 DEF RunRec
<1> QED BY <1>2, <1>3 DEF NoRun

\* The start of a run: refused, or with the collectors that take the seed.
LEMMA RunEffect ==
  ASSUME RunTypes, NEW type \in {"other"} \cup SeedTypes, NEW seed \in Seeds, NEW persist \in BOOLEAN,
         NEW allowed \in SUBSET DOMAIN Collectors, Run(type, seed, persist, allowed)
  PROVE /\ run' \in RunRec /\ run'.tuples = <<>> /\ run'.writing = 0 /\ run'.persisted = <<>>
        /\ run'.at # "raised" => run'.collected = 0 /\ run'.refused = 0
        /\ run'.at = "seed" => <<run'.type, run'.seed>> \in seeded'
<1>1. CASE type \in SeedTypes /\ ValidEntity(type, seed)
  <2> DEFINE todo == SetToSeq({c \in allowed : type \in Collectors[c].inputs})
             at == IF persist THEN "seed" ELSE "collect"
             value == Spelling[seed]
  <2>1. todo \in Seq(DOMAIN Collectors)
    <3> DEFINE S == {c \in allowed : type \in Collectors[c].inputs}
    <3>1. S \in SUBSET DOMAIN Collectors OBVIOUS
    <3>2. IsFiniteSet(S) BY <3>1, OsintBounds, FS_Subset
    <3>3. todo \in Seq(S) BY <3>2, InARow
    <3> HIDE DEF S, todo
    <3> QED BY <3>1, <3>3
  <2>2. value \in DOMAIN Spelling BY <1>1, CanonicalSpellings DEF ValidEntity, Readable
  <2>3. at \in {"seed", "collect"} OBVIOUS
  <2>4. run' = [NoRun EXCEPT !.at = at, !.type = type, !.persist = persist, !.seed = value, !.todo = todo]
    BY <1>1 DEF Run
  <2> HIDE DEF todo, at, value
  <2>5. run' \in RunRec BY <1>1, <2>1, <2>2, <2>3, <2>4, NoRunTyped DEF RunRec
  <2>6. /\ run'.tuples = <<>> /\ run'.writing = 0 /\ run'.persisted = <<>>
        /\ run'.collected = 0 /\ run'.refused = 0 /\ run'.type = type /\ run'.seed = value
    BY <2>4 DEF NoRun
  <2>7. run'.at = "seed" => <<type, value>> \in seeded' BY DEF Run, CanonicalNode, value
  <2> QED BY <2>5, <2>6, <2>7
<1>2. CASE ~(type \in SeedTypes /\ ValidEntity(type, seed))
  <2>1. run' = [NoRun EXCEPT !.at = "raised"] BY <1>2 DEF Run
  <2> QED BY <2>1, NoRunTyped
<1> QED BY <1>1, <1>2

\* The fields of a run have their types.
LEMMA RunFields ==
  ASSUME RunTypes
  PROVE /\ run.todo \in Seq(DOMAIN Collectors) /\ run.tuples \in Seq(Tuples)
        /\ run.writing \in 0..4 /\ run.collected \in Nat /\ run.refused \in Nat
        /\ run.persisted \in Seq(PersistedTuples) /\ Len(run.persisted) \in Nat /\ Len(run.tuples) \in Nat
        /\ run.tuples # <<>> => Head(run.tuples) \in Tuples
        /\ run.tuples # <<>> =>
             /\ Tail(run.tuples) \in Seq(Tuples) /\ Len(Tail(run.tuples)) = Len(run.tuples) - 1
        /\ run.todo # <<>> =>
             /\ Head(run.todo) \in DOMAIN Collectors /\ Tail(run.todo) \in Seq(DOMAIN Collectors)
<1>1. run \in RunRec BY DEF RunTypes
<1>2. /\ run.todo \in Seq(DOMAIN Collectors) /\ run.tuples \in Seq(Tuples)
      /\ run.writing \in 0..4 /\ run.collected \in Nat /\ run.refused \in Nat
      /\ run.persisted \in Seq(PersistedTuples)
  BY <1>1 DEF RunRec
<1> QED BY <1>2, HeadTailProperties, LenProperties

\* Between two tuples, what a step that writes nothing leaves true of the graph.
LEMMA GraphFrame ==
  ASSUME GraphInv, GraphUnchanged, run.writing = 0, run'.writing = 0,
         run'.persisted \in {run.persisted, <<>>}, seeded \subseteq seeded',
         accepted' = accepted, cutShort' = cutShort
  PROVE GraphInv'
<1>1. osNodes' = osNodes /\ osEdges' = osEdges BY DEF GraphUnchanged
<1>2. BeingWritten = {} BY DEF BeingWritten
<1>3. Range(run'.persisted) \subseteq Range(run.persisted)
  <2>1. Range(<<>>) = {} BY DEF Range
  <2> QED BY <2>1
<1>4. \A r : Inside(r) => Inside(r)' BY <1>1 DEF Inside
<1> QED BY <1>1, <1>2, <1>3, <1>4 DEF GraphInv

\* The start of a run.
LEMMA RunStep ==
  ASSUME OsintInv, NEW type \in {"other"} \cup SeedTypes, NEW seed \in Seeds, NEW persist \in BOOLEAN,
         NEW allowed \in SUBSET DOMAIN Collectors, Run(type, seed, persist, allowed)
  PROVE OsintInv'
<1>1. RunTypes BY DEF OsintInv
<1>2. /\ run' \in RunRec /\ run'.tuples = <<>> /\ run'.writing = 0 /\ run'.persisted = <<>>
      /\ run'.at # "raised" => run'.collected = 0 /\ run'.refused = 0
      /\ run'.at = "seed" => <<run'.type, run'.seed>> \in seeded'
  BY <1>1, RunEffect
<1>3. /\ runs' = runs + 1 /\ runs < MaxRuns /\ storeErrors' = storeErrors /\ GraphUnchanged
      /\ accepted' = accepted /\ cutShort' = cutShort /\ seeded \subseteq seeded'
  BY DEF Run
<1>4. runs' \in 0..MaxRuns BY <1>1, <1>3, OsintBounds DEF RunTypes
<1>5. RunTypes' BY <1>1, <1>2, <1>3, <1>4 DEF RunTypes
<1>6. run.writing = 0 BY DEF OsintInv, TupleInv, Run
<1>7. GraphInv' BY <1>2, <1>3, <1>6, GraphFrame DEF OsintInv
<1>8. TupleInv' BY <1>2 DEF TupleInv
<1>9. TallyInv'
  <2>1. Len(run'.tuples) = 0 /\ Len(run'.persisted) = 0 BY <1>2
  <2> QED BY <1>2, <2>1 DEF TallyInv
<1> QED BY <1>5, <1>7, <1>8, <1>9 DEF OsintInv

\* The seed's node.
LEMMA WriteSeedStep == OsintInv /\ WriteSeed => OsintInv'
<1> SUFFICES ASSUME OsintInv, WriteSeed PROVE OsintInv' OBVIOUS
<1>1. run \in RunRec /\ run.tuples = <<>> /\ run.writing = 0 BY DEF OsintInv, RunTypes, TupleInv, WriteSeed
<1>2. run' \in RunRec BY <1>1 DEF WriteSeed, RunRec
<1>3. /\ run'.at = "collect" /\ run'.tuples = <<>> /\ run'.writing = 0 /\ run'.persist = run.persist
      /\ run'.collected = run.collected /\ run'.persisted = run.persisted /\ run'.refused = run.refused
  BY <1>1 DEF WriteSeed, RunRec
<1>4. RunTypes' BY <1>2 DEF OsintInv, RunTypes, WriteSeed
<1>5. TupleInv' BY <1>3 DEF TupleInv
<1>6. GraphInv'
  <2>1. /\ osNodes' = osNodes \cup {<<run.type, run.seed>>} /\ osEdges' = osEdges
        /\ seeded' = seeded /\ accepted' = accepted /\ cutShort' = cutShort
        /\ <<run.type, run.seed>> \in seeded /\ run.writing = 0
    BY <1>1 DEF WriteSeed, OsintInv, TupleInv
  <2>2. \A r : Inside(r) => Inside(r)' BY <2>1 DEF Inside
  <2>3. BeingWritten = {} BY <2>1 DEF BeingWritten
  <2> QED BY <1>3, <2>1, <2>2, <2>3 DEF OsintInv, GraphInv
<1>7. TallyInv' BY <1>1, <1>3 DEF OsintInv, TallyInv, WriteSeed
<1> QED BY <1>4, <1>5, <1>6, <1>7 DEF OsintInv

\* What a collector returned.
LEMMA CollectStep ==
  ASSUME OsintInv, NEW n \in 0..MaxReturned, NEW tuples \in [1..n -> Tuples], Collect(tuples)
  PROVE OsintInv'
<1>1. RunTypes /\ run \in RunRec BY DEF OsintInv, RunTypes
<1>2. run.tuples = <<>> /\ run.writing = 0 BY DEF OsintInv, TupleInv, Collect
<1>3. n \in Nat /\ tuples \in Seq(Tuples) /\ Len(tuples) \in Nat
  <2>1. n \in Nat BY OsintBounds
  <2>2. tuples \in Seq(Tuples) BY <2>1
  <2> QED BY <2>1, <2>2, LenProperties
<1>4. /\ run.todo # <<>> /\ Head(run.todo) \in DOMAIN Collectors /\ Tail(run.todo) \in Seq(DOMAIN Collectors)
      /\ run.collected \in Nat /\ Len(run.persisted) \in Nat /\ run.refused \in Nat
  BY <1>1, RunFields DEF Collect
<1> DEFINE c == Head(run.todo)
           rest == Tail(run.todo)
           total == run.collected + Len(tuples)
<1>5. total \in Nat BY <1>3, <1>4
<1>6. run' = [run EXCEPT !.at = "tuples", !.collector = c, !.todo = rest, !.tuples = tuples,
                         !.collected = total]
  BY DEF Collect
<1>7. /\ runs' = runs /\ storeErrors' = storeErrors /\ GraphUnchanged /\ run.at = "collect"
      /\ seeded' = seeded /\ accepted' = accepted /\ cutShort' = cutShort
  BY DEF Collect
<1> HIDE DEF c, rest, total
<1>8. c \in DOMAIN Collectors /\ rest \in Seq(DOMAIN Collectors) BY <1>4 DEF c, rest
<1>9. run' \in RunRec BY <1>1, <1>3, <1>5, <1>6, <1>8 DEF RunRec
<1>10. /\ run'.at = "tuples" /\ run'.tuples = tuples /\ run'.writing = 0 /\ run'.persist = run.persist
       /\ run'.collected = total /\ run'.persisted = run.persisted /\ run'.refused = run.refused
  BY <1>1, <1>2, <1>6 DEF RunRec
<1>11. RunTypes' BY <1>1, <1>7, <1>9 DEF RunTypes
<1>12. TupleInv' BY <1>10 DEF TupleInv
<1>13. GraphInv' BY <1>2, <1>7, <1>10, GraphFrame DEF OsintInv
<1>14. TallyInv'
  <2> SUFFICES ASSUME run.persist PROVE total = Len(run.persisted) + run.refused + Len(tuples)
    BY <1>10 DEF TallyInv
  <2>1. run.collected = Len(run.persisted) + run.refused + Len(run.tuples) BY <1>7 DEF OsintInv, TallyInv
  <2>2. Len(run.tuples) = 0 BY <1>2
  <2> QED BY <1>3, <1>4, <2>1, <2>2 DEF total
<1> QED BY <1>11, <1>12, <1>13, <1>14 DEF OsintInv

\* The steps between collectors change the place of the run, and nothing that is counted.
LEMMA BetweenStep ==
  ASSUME OsintInv, CollectorRaises \/ NextCollector \/ ReturnResult
  PROVE OsintInv'
<1>1. RunTypes /\ run \in RunRec BY DEF OsintInv, RunTypes
<1>2. run.tuples = <<>> /\ run.writing = 0 /\ run.at \in {"collect", "tuples"}
  BY DEF OsintInv, TupleInv, CollectorRaises, NextCollector, ReturnResult
<1>3. run.todo # <<>> => Tail(run.todo) \in Seq(DOMAIN Collectors) BY <1>1, RunFields
<1>4. /\ runs' = runs /\ storeErrors' = storeErrors /\ GraphUnchanged
      /\ seeded' = seeded /\ accepted' = accepted /\ cutShort' = cutShort
  BY DEF CollectorRaises, NextCollector, ReturnResult
<1>5. /\ run' \in RunRec
      /\ run'.tuples = run.tuples /\ run'.writing = run.writing /\ run'.persist = run.persist
      /\ run'.collected = run.collected /\ run'.persisted = run.persisted /\ run'.refused = run.refused
  <2>1. CASE CollectorRaises
    <3> DEFINE rest == Tail(run.todo)
    <3>1. run' = [run EXCEPT !.todo = rest] /\ rest \in Seq(DOMAIN Collectors)
      BY <1>3, <2>1 DEF CollectorRaises
    <3> HIDE DEF rest
    <3> QED BY <1>1, <3>1 DEF RunRec
  <2>2. CASE NextCollector BY <1>1, <2>2 DEF NextCollector, RunRec
  <2>3. CASE ReturnResult BY <1>1, <2>3 DEF ReturnResult, RunRec
  <2> QED BY <2>1, <2>2, <2>3
<1>10. run'.at # "seed" BY <1>1 DEF CollectorRaises, NextCollector, ReturnResult, RunRec
<1>6. RunTypes' BY <1>1, <1>4, <1>5 DEF RunTypes
<1>7. TupleInv' BY <1>2, <1>5, <1>10 DEF TupleInv
<1>8. GraphInv' BY <1>2, <1>4, <1>5, GraphFrame DEF OsintInv
<1>9. TallyInv' BY <1>2, <1>5 DEF OsintInv, TallyInv
<1> QED BY <1>6, <1>7, <1>8, <1>9 DEF OsintInv

\* A tuple looked at: refused, passed over in a run that persists nothing, or about to be written.
LEMMA TakeTupleStep == OsintInv /\ TakeTuple => OsintInv'
<1> SUFFICES ASSUME OsintInv, TakeTuple PROVE OsintInv' OBVIOUS
<1>1. RunTypes /\ run \in RunRec BY DEF OsintInv, RunTypes
<1>2. /\ run.at = "tuples" /\ run.tuples # <<>> /\ run.writing = 0
      /\ runs' = runs /\ storeErrors' = storeErrors /\ GraphUnchanged
      /\ seeded' = seeded /\ cutShort' = cutShort
      /\ accepted' = IF Accepted(Head(run.tuples)) /\ run.persist
                     THEN accepted \cup {Persisted(Head(run.tuples))} ELSE accepted
  BY DEF TakeTuple
<1>3. /\ run.collected \in Nat /\ Len(run.persisted) \in Nat /\ run.refused \in Nat /\ Len(run.tuples) \in Nat
      /\ Tail(run.tuples) \in Seq(Tuples) /\ Len(Tail(run.tuples)) = Len(run.tuples) - 1
  BY <1>1, <1>2, RunFields
<1> DEFINE rest == Tail(run.tuples)
<1>4. run.persist => run.collected = Len(run.persisted) + run.refused + Len(run.tuples)
  BY <1>2 DEF OsintInv, TallyInv
<1>5. CASE ~Accepted(Head(run.tuples))
  <2> DEFINE n == run.refused + 1
  <2>1. run' = [run EXCEPT !.tuples = rest, !.refused = n] BY <1>5 DEF TakeTuple
  <2>2. rest \in Seq(Tuples) /\ n \in Nat BY <1>3
  <2>3. Len(rest) = Len(run.tuples) - 1 BY <1>3
  <2> HIDE DEF rest, n
  <2>4. run' \in RunRec BY <1>1, <2>1, <2>2 DEF RunRec
  <2>5. /\ run'.at = "tuples" /\ run'.tuples = rest /\ run'.writing = 0 /\ run'.persist = run.persist
        /\ run'.collected = run.collected /\ run'.persisted = run.persisted /\ run'.refused = n
    BY <1>1, <1>2, <2>1 DEF RunRec
  <2>6. RunTypes' BY <1>1, <1>2, <2>4 DEF RunTypes
  <2>7. TupleInv' BY <2>5 DEF TupleInv
  <2>8. GraphInv' BY <1>2, <1>5, <2>5, GraphFrame DEF OsintInv
  <2>9. run.persist => run.collected = Len(run.persisted) + n + Len(rest) BY <1>3, <1>4, <2>3, SMTT(30) DEF n
  <2>10. TallyInv' BY <2>5, <2>9 DEF TallyInv
  <2> QED BY <2>6, <2>7, <2>8, <2>10 DEF OsintInv
<1>6. CASE Accepted(Head(run.tuples)) /\ run.persist
  <2>1. run' = [run EXCEPT !.writing = 1] BY <1>6 DEF TakeTuple
  <2>2. run' \in RunRec
    <3> DEFINE first == 1
    <3>1. run' = [run EXCEPT !.writing = first] /\ first \in 0..4 BY <2>1
    <3> HIDE DEF first
    <3> QED BY <1>1, <3>1 DEF RunRec
  <2>3. /\ run'.at = "tuples" /\ run'.tuples = run.tuples /\ run'.writing = 1 /\ run'.persist = run.persist
        /\ run'.collected = run.collected /\ run'.persisted = run.persisted /\ run'.refused = run.refused
        /\ run'.type = run.type /\ run'.seed = run.seed /\ run'.collector = run.collector
    BY <1>1, <1>2, <2>1 DEF RunRec
  <2>4. RunTypes' BY <1>1, <1>2, <2>2 DEF RunTypes
  <2>5. Accepted(Head(run.tuples))' /\ Persisted(Head(run.tuples))' = Persisted(Head(run.tuples))
    BY <1>6, <2>3, TupleKept
  <2> DEFINE p == Persisted(Head(run.tuples))
  <2>9. accepted' = accepted \cup {p} BY <1>2, <1>6
  <2>6. TupleInv' BY <1>2, <1>6, <2>3, <2>5, <2>9 DEF TupleInv
  <2>7. GraphInv'
    <3>1. osNodes' = osNodes /\ osEdges' = osEdges /\ seeded' = seeded /\ cutShort' = cutShort
      BY <1>2 DEF GraphUnchanged
    <3>2. \A r : Inside(r) => Inside(r)' BY <3>1 DEF Inside
    <3>3. BeingWritten = {} /\ BeingWritten' = {p} BY <1>2, <2>3, <2>5 DEF BeingWritten
    <3> HIDE DEF p
    <3> QED BY <2>3, <2>9, <3>1, <3>2, <3>3 DEF OsintInv, GraphInv
  <2>8. TallyInv' BY <1>2, <2>3 DEF OsintInv, TallyInv
  <2> QED BY <2>4, <2>6, <2>7, <2>8 DEF OsintInv
<1>7. CASE Accepted(Head(run.tuples)) /\ ~run.persist
  <2>1. run' = [run EXCEPT !.tuples = rest] BY <1>7 DEF TakeTuple
  <2>2. rest \in Seq(Tuples) BY <1>3
  <2> HIDE DEF rest
  <2>3. run' \in RunRec BY <1>1, <2>1, <2>2 DEF RunRec
  <2>4. /\ run'.at = "tuples" /\ run'.tuples = rest /\ run'.writing = 0 /\ run'.persist = run.persist
        /\ run'.persisted = run.persisted
    BY <1>1, <1>2, <2>1 DEF RunRec
  <2>5. RunTypes' BY <1>1, <1>2, <2>3 DEF RunTypes
  <2>6. TupleInv' BY <2>4 DEF TupleInv
  <2>7. GraphInv' BY <1>2, <1>7, <2>4, GraphFrame DEF OsintInv
  <2>8. TallyInv' BY <1>7, <2>4 DEF TallyInv
  <2> QED BY <2>5, <2>6, <2>7, <2>8 DEF OsintInv
<1> QED BY <1>5, <1>6, <1>7

\* One of the three nodes of the tuple.
LEMMA WriteNodeStep == OsintInv /\ WriteNode => OsintInv'
<1> SUFFICES ASSUME OsintInv, WriteNode PROVE OsintInv' OBVIOUS
<1>1. RunTypes /\ run \in RunRec BY DEF OsintInv, RunTypes
<1> DEFINE k == run.writing
           nodes == NodesOf(Head(run.tuples))
<1>2. /\ k \in 1..3 /\ osNodes' = osNodes \cup {nodes[k]} /\ osEdges' = osEdges
      /\ seeded' = seeded /\ accepted' = accepted /\ cutShort' = cutShort
      /\ runs' = runs /\ storeErrors' = storeErrors
  BY DEF WriteNode
<1>3. /\ run.tuples # <<>> /\ run.persist /\ Accepted(Head(run.tuples)) /\ run.at = "tuples"
      /\ Persisted(Head(run.tuples)) \in accepted
      /\ \A i \in 1..3 : i < k => nodes[i] \in osNodes
  BY <1>2 DEF OsintInv, TupleInv
<1> DEFINE next == k + 1
<1>4. run' = [run EXCEPT !.writing = next] BY DEF WriteNode
<1>5. next \in 0..4 /\ next # 0 BY <1>2
<1>6. \A i \in 1..3 : i < next => i < k \/ i = k BY <1>2
<1> HIDE DEF next
<1>7. run' \in RunRec BY <1>1, <1>4, <1>5 DEF RunRec
<1>8. /\ run'.at = "tuples" /\ run'.tuples = run.tuples /\ run'.writing = next /\ run'.persist = run.persist
      /\ run'.collected = run.collected /\ run'.persisted = run.persisted /\ run'.refused = run.refused
      /\ run'.type = run.type /\ run'.seed = run.seed /\ run'.collector = run.collector
  BY <1>1, <1>3, <1>4 DEF RunRec
<1>9. /\ NodesOf(Head(run.tuples))' = nodes /\ Accepted(Head(run.tuples))'
      /\ Persisted(Head(run.tuples))' = Persisted(Head(run.tuples))
  BY <1>3, <1>8, TupleKept
<1>10. RunTypes' BY <1>1, <1>2, <1>7 DEF RunTypes
<1>11. TupleInv'
  <2>1. ASSUME NEW i \in 1..3, i < next PROVE nodes[i] \in osNodes'
    <3>1. CASE i < k
      <4>1. nodes[i] \in osNodes BY <1>3, <3>1
      <4> HIDE DEF nodes
      <4> QED BY <1>2, <4>1
    <3>2. CASE i = k
      <4> HIDE DEF nodes
      <4> QED BY <1>2, <3>2
    <3> QED BY <1>6, <2>1, <3>1, <3>2
  <2>2. run'.tuples # <<>> => run'.at = "tuples" BY <1>8
  <2>3. run'.writing # 0 => /\ run'.persist /\ run'.tuples # <<>> /\ Accepted(Head(run.tuples))'
                            /\ Persisted(Head(run.tuples))' \in accepted'
    BY <1>2, <1>3, <1>8, <1>9
  <2>4. \A i \in 1..3 : i < run'.writing => NodesOf(Head(run.tuples))'[i] \in osNodes' BY <1>8, <1>9, <2>1
  <2> QED BY <1>8, <2>2, <2>3, <2>4 DEF TupleInv
<1>12. GraphInv'
  <2>1. Range(nodes) = {nodes[1], nodes[2], nodes[3]} BY ThreeNodes
  <2> HIDE DEF nodes
  <2>2. nodes[k] \in Range(nodes) BY <1>2, <2>1
  <2>3. Persisted(Head(run.tuples)).nodes = Range(nodes) BY DEF Persisted, nodes
  <2>4. nodes[k] \in UNION {r.nodes : r \in accepted} BY <1>3, <2>2, <2>3
  <2>5. \A r : Inside(r) => Inside(r)' BY <1>2 DEF Inside
  <2>6. BeingWritten' = BeingWritten
    <3>1. run.writing # 0 /\ run'.writing # 0 BY <1>2, <1>5, <1>8
    <3> QED BY <1>9, <3>1 DEF BeingWritten
  <2> QED BY <1>2, <1>8, <2>4, <2>5, <2>6 DEF OsintInv, GraphInv
<1>13. TallyInv' BY <1>3, <1>8 DEF OsintInv, TallyInv
<1> QED BY <1>10, <1>11, <1>12, <1>13 DEF OsintInv

\* The edge, after its nodes.
LEMMA WriteEdgeStep == OsintInv /\ WriteEdge => OsintInv'
<1> SUFFICES ASSUME OsintInv, WriteEdge PROVE OsintInv' OBVIOUS
<1>1. RunTypes /\ run \in RunRec BY DEF OsintInv, RunTypes
<1> DEFINE t == Head(run.tuples)
           nodes == NodesOf(t)
<1>2. /\ run.writing = 4 /\ osNodes' = osNodes /\ osEdges' = osEdges \cup {EdgeOf(t)}
      /\ runs' = runs /\ storeErrors' = storeErrors
      /\ seeded' = seeded /\ accepted' = accepted /\ cutShort' = cutShort
  BY DEF WriteEdge
<1>3. /\ run.tuples # <<>> /\ run.persist /\ Accepted(t) /\ run.at = "tuples" /\ Persisted(t) \in accepted
      /\ \A i \in 1..3 : i < run.writing => nodes[i] \in osNodes
  BY <1>2 DEF OsintInv, TupleInv
<1>4. /\ run.collected \in Nat /\ run.refused \in Nat /\ Len(run.tuples) \in Nat
      /\ run.persisted \in Seq(PersistedTuples) /\ Len(run.persisted) \in Nat /\ t \in Tuples
      /\ Tail(run.tuples) \in Seq(Tuples) /\ Len(Tail(run.tuples)) = Len(run.tuples) - 1
  BY <1>1, <1>3, RunFields
<1> DEFINE rest == Tail(run.tuples)
           p == Persisted(t)
           n == Append(run.persisted, p)
<1>16. p \in PersistedTuples /\ p.edge = EdgeOf(t) /\ p.nodes = Range(nodes) BY <1>3, <1>4, PersistedTyped
<1>5. run' = [run EXCEPT !.writing = 0, !.tuples = rest, !.persisted = n] BY DEF WriteEdge
<1>6. rest \in Seq(Tuples) /\ n \in Seq(PersistedTuples) /\ Len(n) = Len(run.persisted) + 1
      /\ \A q \in Range(n) : q \in Range(run.persisted) \/ q = p
  <2> HIDE DEF p
  <2> QED BY <1>4, <1>16, OneMorePersisted
<1>7. run.collected = Len(n) + run.refused + Len(rest)
  <2>1. run.collected = Len(run.persisted) + run.refused + Len(run.tuples) BY <1>3 DEF OsintInv, TallyInv
  <2> DEFINE before == Len(run.persisted)
             after == Len(n)
             left == Len(rest)
             open == Len(run.tuples)
  <2>2. left = open - 1 /\ before \in Nat /\ open \in Nat BY <1>4
  <2>3. after = before + 1 BY <1>6
  <2>4. run.collected = before + run.refused + open BY <2>1
  <2>5. run.collected \in Nat /\ run.refused \in Nat BY <1>4
  <2> HIDE DEF before, after, left, open
  <2>6. run.collected = after + run.refused + left BY <2>2, <2>3, <2>4, <2>5
  <2> QED BY <2>6 DEF after, left
<1>8. /\ Range(nodes) = {nodes[1], nodes[2], nodes[3]} /\ nodes[2] = EdgeOf(t).from /\ nodes[3] = EdgeOf(t).to
      /\ EdgeOf(t).from \notin Invalid /\ EdgeOf(t).to \notin Invalid
  BY <1>3, ThreeNodes
<1>17. Persisted(t) = p /\ p \in accepted BY <1>3
<1>18. BeingWritten = {p} BY <1>2 DEF BeingWritten
<1> HIDE DEF rest, n, nodes, t, p
<1>9. nodes[1] \in osNodes /\ nodes[2] \in osNodes /\ nodes[3] \in osNodes BY <1>2, <1>3
<1>10. run' \in RunRec
  <2> DEFINE none == 0
  <2>1. run' = [run EXCEPT !.writing = none, !.tuples = rest, !.persisted = n] /\ none \in 0..4 BY <1>5
  <2> HIDE DEF none
  <2> QED BY <1>1, <1>6, <2>1 DEF RunRec
<1>11. /\ run'.at = "tuples" /\ run'.tuples = rest /\ run'.writing = 0 /\ run'.persist = run.persist
       /\ run'.collected = run.collected /\ run'.persisted = n /\ run'.refused = run.refused
  BY <1>1, <1>3, <1>5 DEF RunRec
<1>12. RunTypes' BY <1>1, <1>2, <1>10 DEF RunTypes
<1>13. TupleInv' BY <1>11 DEF TupleInv
<1>14. GraphInv'
  <2>1. \A r : Inside(r) => Inside(r)' BY <1>2 DEF Inside
  <2>2. \A r : r = p => Inside(r)'
    <3> SUFFICES ASSUME NEW r, r = p PROVE r.edge \in osEdges' /\ r.nodes \subseteq osNodes' BY DEF Inside
    <3> QED BY <1>2, <1>8, <1>9, <1>16
  <2>3. BeingWritten' = {} BY <1>11 DEF BeingWritten
  <2>8. /\ \A q \in Range(run.persisted) : q \in accepted /\ Inside(q)
        /\ \A q \in accepted : Inside(q) \/ q \in cutShort \/ q \in {p}
    BY <1>18 DEF OsintInv, GraphInv
  <2>9. accepted' = accepted /\ cutShort' = cutShort /\ run'.persisted = n BY <1>2, <1>11
  <2>4. \A q \in Range(run'.persisted) : q \in accepted' /\ Inside(q)'
    <3> SUFFICES ASSUME NEW q \in Range(n) PROVE q \in accepted /\ Inside(q)' BY <2>9
    <3>1. CASE q = p BY <1>17, <2>2, <3>1
    <3>2. CASE q \in Range(run.persisted) BY <2>1, <2>8, <3>2
    <3> QED BY <1>6, <3>1, <3>2
  <2>5. \A q \in accepted' : Inside(q)' \/ q \in cutShort' \cup BeingWritten'
    <3> SUFFICES ASSUME NEW q \in accepted PROVE Inside(q)' \/ q \in cutShort BY <2>9
    <3>1. CASE Inside(q) BY <2>1, <3>1
    <3>2. CASE q \in cutShort BY <3>2
    <3>3. CASE q = p BY <2>2, <3>3
    <3> QED BY <2>8, <3>1, <3>2, <3>3
  <2>6. osEdges' \subseteq {r.edge : r \in accepted'} BY <1>2, <1>16, <1>17 DEF OsintInv, GraphInv
  <2>7. \A e \in osEdges' : /\ e.from \in osNodes' /\ e.to \in osNodes'
                            /\ e.from \notin Invalid /\ e.to \notin Invalid
    BY <1>2, <1>8, <1>9 DEF OsintInv, GraphInv
  <2> QED BY <1>2, <2>4, <2>5, <2>6, <2>7 DEF OsintInv, GraphInv
<1>15. TallyInv' BY <1>7, <1>11 DEF TallyInv
<1> QED BY <1>12, <1>13, <1>14, <1>15 DEF OsintInv

\* An error of the graph: the tuple it came at is known to be cut short.
LEMMA GraphRaisesStep == OsintInv /\ GraphRaises => OsintInv'
<1> SUFFICES ASSUME OsintInv, GraphRaises PROVE OsintInv' OBVIOUS
<1>1. RunTypes BY DEF OsintInv
<1>2. /\ run' \in RunRec /\ run'.tuples = <<>> /\ run'.writing = 0 /\ run'.at = "raised"
      /\ run'.persisted = <<>>
  BY NoRunTyped DEF GraphRaises
<1>3. storeErrors' \in 0..MaxStoreErrors BY <1>1, OsintBounds DEF GraphRaises, RunTypes
<1>4. RunTypes' BY <1>1, <1>2, <1>3 DEF RunTypes, GraphRaises
<1>5. TupleInv' BY <1>2 DEF TupleInv
<1>6. GraphInv'
  <2>1. /\ osNodes' = osNodes /\ osEdges' = osEdges /\ seeded' = seeded /\ accepted' = accepted
        /\ cutShort' = cutShort \cup BeingWritten
    BY DEF GraphRaises, BeingWritten
  <2>2. \A r : Inside(r) => Inside(r)' BY <2>1 DEF Inside
  <2>3. BeingWritten \subseteq accepted BY DEF OsintInv, TupleInv, BeingWritten
  <2>4. Range(run'.persisted) = {} BY <1>2 DEF Range
  <2> QED BY <2>1, <2>2, <2>3, <2>4 DEF OsintInv, GraphInv
<1>7. TallyInv' BY <1>2 DEF TallyInv
<1> QED BY <1>4, <1>5, <1>6, <1>7 DEF OsintInv

\* The invariant of the runs holds throughout.
LEMMA OsintInductive == OsintSpec => []OsintInv
<1>1. OsintInit => OsintInv
  <2> SUFFICES ASSUME OsintInit PROVE OsintInv OBVIOUS
  <2>1. run = NoRun /\ run \in RunRec /\ run.tuples = <<>> /\ run.writing = 0 /\ run.at = "idle"
    BY NoRunTyped DEF OsintInit, NoRun
  <2>2. RunTypes BY <2>1, OsintBounds DEF OsintInit, RunTypes
  <2>3. TupleInv BY <2>1 DEF TupleInv
  <2>4. GraphInv
    <3>1. run.persisted = <<>> BY NoRunTyped DEF OsintInit
    <3>2. Range(run.persisted) = {} BY <3>1 DEF Range
    <3> QED BY <3>2 DEF OsintInit, GraphInv
  <2>5. TallyInv BY <2>1 DEF TallyInv
  <2> QED BY <2>2, <2>3, <2>4, <2>5 DEF OsintInv
<1>2. OsintInv /\ [OsintNext]_osintVars => OsintInv'
  <2> SUFFICES ASSUME OsintInv, [OsintNext]_osintVars PROVE OsintInv' OBVIOUS
  <2>1. ASSUME NEW type \in {"other"} \cup SeedTypes, NEW seed \in Seeds, NEW persist \in BOOLEAN,
               NEW allowed \in SUBSET DOMAIN Collectors, Run(type, seed, persist, allowed)
        PROVE OsintInv'
    BY <2>1, RunStep
  <2>2. ASSUME NEW n \in 0..MaxReturned, NEW tuples \in [1..n -> Tuples], Collect(tuples) PROVE OsintInv'
    BY <2>2, CollectStep
  <2>3. CASE WriteSeed \/ TakeTuple \/ WriteNode \/ WriteEdge \/ GraphRaises
    BY <2>3, WriteSeedStep, TakeTupleStep, WriteNodeStep, WriteEdgeStep, GraphRaisesStep
  <2>4. CASE CollectorRaises \/ NextCollector \/ ReturnResult BY <2>4, BetweenStep
  <2>5. CASE UNCHANGED osintVars
    <3>1. TupleInv' BY <2>5, TupleKept DEF osintVars, OsintInv, TupleInv
    <3>2. GraphInv'
      <4>1. BeingWritten' = BeingWritten BY <2>5, TupleKept DEF osintVars, BeingWritten
      <4> QED BY <2>5, <4>1 DEF osintVars, OsintInv, GraphInv, Inside
    <3> QED BY <2>5, <3>1, <3>2 DEF osintVars, OsintInv, RunTypes, TallyInv
  <2> QED BY <2>1, <2>2, <2>3, <2>4, <2>5 DEF OsintNext, Tuples
<1> QED BY <1>1, <1>2, PTL DEF OsintSpec

\* Every tuple a result counts as persisted is in the graph with its edge and its nodes, an
\* accepted one lacks them only while it is written or after an error of the graph at it, nothing
\* else is there, no edge touches an entity the ontology refuses, and the result accounts for every
\* tuple (executor.py:200): for any collectors, tuples and errors.
THEOREM TuplesCorrect == OsintSpec => []TuplesWholeAndCounted
<1>1. OsintInv => TuplesWholeAndCounted
  <2> SUFFICES ASSUME OsintInv PROVE TuplesWholeAndCounted OBVIOUS
  <2>1. ASSUME run.at = "returned", run.persist PROVE run.collected = Len(run.persisted) + run.refused
    <3>1. run.tuples = <<>> BY <2>1 DEF OsintInv, TupleInv
    <3>2. Len(run.tuples) = 0 BY <3>1
    <3>3. Len(run.persisted) \in Nat /\ run.refused \in Nat BY RunFields DEF OsintInv
    <3>4. run.collected = Len(run.persisted) + run.refused + Len(run.tuples) BY <2>1 DEF OsintInv, TallyInv
    <3> QED BY <3>2, <3>3, <3>4
  <2> QED BY <2>1 DEF OsintInv, GraphInv, Inside, TuplesWholeAndCounted
<1> QED BY <1>1, OsintInductive, PTL

\* The state of OSINT runs has its types, and an edge never lacks the nodes it joins.
THEOREM OsintTypeCorrect == OsintSpec => []OsintTypeOK
<1>1. OsintInv => OsintTypeOK
  <2> SUFFICES ASSUME OsintInv PROVE OsintTypeOK OBVIOUS
  <2>1. run \in RunRec BY DEF OsintInv, RunTypes
  <2>2. run.at \in {"idle", "seed", "collect", "tuples", "returned", "raised"} BY <2>1 DEF RunRec
  <2>3. run.writing \in 0..4 /\ run.collected \in Nat /\ run.refused \in Nat BY RunFields DEF OsintInv
  <2> QED BY <2>2, <2>3 DEF OsintInv, RunTypes, GraphInv, OsintTypeOK
<1> QED BY <1>1, OsintInductive, PTL

-----------------------------------------------------------------------------
(* The migration *)

FileNames == {"notes", "nodes", "edges", "mappings"}
ScriptStages == FileNames \cup {"idle", "done"}
AfterFile == [notes |-> {"nodes", "edges", "mappings", "done"}, nodes |-> {"edges", "mappings", "done"},
              edges |-> {"mappings", "done"}, mappings |-> {"done"}]

\* Has the run been over this line?
Passed(file, i) == script.at \in AfterFile[file] \/ (script.at = file /\ i < script.line)

NodeEntities == {old["nodes"][i].entity : i \in Wellformed("nodes")}
Joined(i) == old["edges"][i].ok /\ HasNode(old["edges"][i].from) /\ HasNode(old["edges"][i].to)
EdgeOfLine(i) == <<NodeOf(old["edges"][i].from), old["edges"][i].rel, NodeOf(old["edges"][i].to)>>

MigrationTypes ==
  /\ old \in OldFiles
  /\ db = [note |-> db.note, nodes |-> db.nodes, edges |-> db.edges, mappings |-> db.mappings]
  /\ db.note \in [MNote -> MContent \cup {NoContent}]
  /\ script = [at |-> script.at, dry |-> script.dry, line |-> script.line, lookup |-> script.lookup,
               whole |-> script.whole]
  /\ script.at \in ScriptStages /\ script.line \in Nat /\ script.line >= 1
  /\ live = [left |-> live.left, unmapped |-> live.unmapped, nodes |-> live.nodes, edges |-> live.edges,
             mappings |-> live.mappings]
  /\ live.left \in [MNote -> MContent \cup {NoContent, Untouched}]
  /\ live.unmapped \subseteq MNote /\ live.edges \subseteq LiveEdges
  /\ migrations \in 0..MaxMigrations /\ writeErrors \in 0..MaxWriteErrors /\ saves \in 0..MaxSaves

\* What the run has learnt of the node ids is what the files say, all of it if no write failed.
LookupInv ==
  /\ \A id \in DOMAIN script.lookup : HasNode(id) /\ script.lookup[id] = NodeOf(id)
  /\ script.whole => \A i \in Wellformed("nodes") :
       Passed("nodes", i) /\ old["nodes"][i].id # "" => old["nodes"][i].id \in DOMAIN script.lookup

\* Nothing is in the graph that neither the files say nor the application put there.
OnlyFromFiles ==
  /\ db.nodes \subseteq NodeEntities \cup live.nodes /\ db.edges \subseteq FileEdges \cup live.edges
  /\ db.mappings \subseteq FileMappings \cup live.mappings
  /\ \A e \in db.edges : e[1] \in db.nodes /\ e[3] \in db.nodes

\* What a run without an error has passed is there.
NotesThere ==
  script.whole => \A i \in Wellformed("notes") :
    Passed("notes", i)
    /\ (\A j \in Wellformed("notes") : j > i /\ Passed("notes", j) => old["notes"][j].id # old["notes"][i].id) =>
      \/ db.note[old["notes"][i].id] = live.left[old["notes"][i].id]
      \/ db.note[old["notes"][i].id] = old["notes"][i].content
GraphThere ==
  script.whole =>
    /\ \A i \in Wellformed("nodes") : Passed("nodes", i) => old["nodes"][i].entity \in db.nodes
    /\ \A i \in DOMAIN old["edges"] : Joined(i) /\ Passed("edges", i) => EdgeOfLine(i) \in db.edges
    /\ \A i \in Wellformed("mappings") : Passed("mappings", i) =>
         \/ <<old["mappings"][i].entity, old["mappings"][i].note>> \in db.mappings
         \/ old["mappings"][i].note \in live.unmapped

MigrationInv == MigrationTypes /\ LookupInv /\ OnlyFromFiles /\ NotesThere /\ GraphThere

\* The files: their names, and their lines by number.
LEMMA FilesRead ==
  ASSUME old \in OldFiles
  PROVE /\ DOMAIN old = FileNames
        /\ \A file \in FileNames : Len(old[file]) \in Nat /\ DOMAIN old[file] = 1..Len(old[file])
<1>1. DOMAIN old = FileNames BY OldFilesRead DEF FileNames
<1>2. ASSUME NEW file \in FileNames PROVE Len(old[file]) \in Nat /\ DOMAIN old[file] = 1..Len(old[file])
  <2> DEFINE S == {old[file][i] : i \in DOMAIN old[file]}
  <2>1. old[file] \in Seq(S) BY <1>1, OldFilesRead
  <2> HIDE DEF S
  <2> QED BY <2>1, LenProperties
<1> QED BY <1>1, <1>2

\* A node id stands for the entity of every line that has it.
LEMMA NodeOfLine ==
  ASSUME old \in OldFiles, NEW i \in Wellformed("nodes"), old["nodes"][i].id # ""
  PROVE HasNode(old["nodes"][i].id) /\ NodeOf(old["nodes"][i].id) = old["nodes"][i].entity
<1> DEFINE id == old["nodes"][i].id
           S == {old["nodes"][k].entity : k \in {j \in Wellformed("nodes") : old["nodes"][j].id = id}}
<1>1. HasNode(id) BY DEF HasNode
<1>2. old["nodes"][i].entity \in S OBVIOUS
<1>3. \A e \in S : e = old["nodes"][i].entity
  BY OldFilesRead DEF Wellformed
<1>4. NodeOf(id) = CHOOSE e \in S : TRUE BY DEF NodeOf
<1> HIDE DEF S
<1>5. NodeOf(id) \in S BY <1>2, <1>4
<1> QED BY <1>1, <1>3, <1>5

\* Every node id stands for the entity of a line.
LEMMA NodeOfId ==
  ASSUME old \in OldFiles, NEW id, HasNode(id)
  PROVE NodeOf(id) \in NodeEntities
<1>1. PICK i \in Wellformed("nodes") : old["nodes"][i].id = id /\ id # "" BY DEF HasNode
<1> QED BY <1>1, NodeOfLine DEF NodeEntities

\* The files do not change, nor what is said of them.
LEMMA FilesKept ==
  ASSUME old' = old
  PROVE /\ NodeEntities' = NodeEntities /\ FileMappings' = FileMappings /\ FileEdges' = FileEdges
        /\ \A id : NodeOf(id)' = NodeOf(id) /\ (HasNode(id)' <=> HasNode(id))
        /\ \A i : EdgeOfLine(i)' = EdgeOfLine(i) /\ (Joined(i)' <=> Joined(i))
        /\ Wellformed("notes")' = Wellformed("notes") /\ Wellformed("nodes")' = Wellformed("nodes")
        /\ Wellformed("edges")' = Wellformed("edges") /\ Wellformed("mappings")' = Wellformed("mappings")
<1>1. /\ Wellformed("notes")' = Wellformed("notes") /\ Wellformed("nodes")' = Wellformed("nodes")
      /\ Wellformed("edges")' = Wellformed("edges") /\ Wellformed("mappings")' = Wellformed("mappings")
  BY DEF Wellformed
<1>2. NodeEntities' = NodeEntities /\ FileMappings' = FileMappings BY <1>1 DEF NodeEntities, FileMappings
<1>3. ASSUME NEW id PROVE NodeOf(id)' = NodeOf(id) /\ (HasNode(id)' <=> HasNode(id))
  BY <1>1 DEF NodeOf, HasNode
<1>4. \A i : EdgeOfLine(i)' = EdgeOfLine(i) /\ (Joined(i)' <=> Joined(i))
  BY DEF EdgeOfLine, Joined, NodeOf, HasNode, Wellformed
<1>5. FileEdges' = FileEdges BY DEF FileEdges, NodeOf, HasNode, Wellformed
<1> QED BY <1>1, <1>2, <1>3, <1>4, <1>5

\* An edge line whose ends are known gives an edge of the files, and every edge of the files is one.
LEMMA FileEdgesAre == FileEdges = {EdgeOfLine(i) : i \in {j \in DOMAIN old["edges"] : Joined(j)}}
BY DEF FileEdges, EdgeOfLine, Joined, Wellformed

\* A line further.
LEMMA PassedNext ==
  ASSUME script.at \in FileNames, script.line \in Nat, script'.at = script.at,
         script'.line = script.line + 1, NEW file \in FileNames, NEW i \in Nat
  PROVE Passed(file, i)' <=> Passed(file, i) \/ (file = script.at /\ i = script.line)
<1>1. script.at \notin AfterFile[script.at] BY DEF AfterFile, FileNames
<1>2. i < script.line + 1 <=> i < script.line \/ i = script.line OBVIOUS
<1> QED BY <1>1, <1>2 DEF Passed

\* At the end of a file the run has passed what it had passed.
LEMMA PassedEnd ==
  ASSUME old \in OldFiles, script.at \in FileNames, script.line \in Nat, script.line > Len(old[script.at]),
         script'.at = NextFile(script.at), script'.line = 1, NEW file \in FileNames, NEW i \in DOMAIN old[file]
  PROVE Passed(file, i)' <=> Passed(file, i)
<1>1. i \in 1..Len(old[file]) /\ Len(old[file]) \in Nat BY FilesRead
<1>2. ~(i < 1) BY <1>1
<1>3. script.at = file => i < script.line BY <1>1
<1>4. Passed(file, i)' <=> NextFile(script.at) \in AfterFile[file] BY <1>2 DEF Passed
<1>5. Passed(file, i) <=> script.at \in AfterFile[file] \/ script.at = file BY <1>3 DEF Passed
<1>6. NextFile(script.at) \in AfterFile[file] <=> script.at \in AfterFile[file] \/ script.at = file
  BY DEF NextFile, AfterFile, FileNames
<1> QED BY <1>4, <1>5, <1>6

\* The line the run is at, and its write.
AtLine == script.at \in DOMAIN old /\ script.line <= Len(old[script.at])
WritesLine == AtLine /\ db' = IF Writable THEN Written ELSE db

LEMMA LineRead ==
  ASSUME MigrationTypes, AtLine
  PROVE script.at \in FileNames /\ script.line \in DOMAIN old[script.at]
<1>1. DOMAIN old = FileNames BY FilesRead DEF MigrationTypes
<1>2. script.at \in FileNames /\ script.line <= Len(old[script.at]) BY <1>1 DEF AtLine
<1> QED BY <1>2, FilesRead DEF MigrationTypes

\* A line read and, when it can be, written.
LEMMA MigrateLineEffect ==
  ASSUME MigrationTypes, MigrateLine
  PROVE /\ script.at \in FileNames /\ script.line \in DOMAIN old[script.at]
        /\ script' = [at |-> script'.at, dry |-> script'.dry, line |-> script'.line,
                      lookup |-> script'.lookup, whole |-> script'.whole]
        /\ script'.at = script.at /\ script'.line = script.line + 1 /\ script'.whole = script.whole
        /\ script'.lookup = (IF Writable THEN Learned ELSE script.lookup)
        /\ WritesLine /\ old' = old /\ live' = live
        /\ migrations' = migrations /\ writeErrors' = writeErrors /\ saves' = saves
<1>1. WritesLine BY DEF MigrateLine, WritesLine, AtLine
<1>2. script.at \in FileNames /\ script.line \in DOMAIN old[script.at] BY <1>1, LineRead DEF WritesLine
<1> DEFINE next == script.line + 1
           lookup == IF Writable THEN Learned ELSE script.lookup
<1>4. script' = [script EXCEPT !.line = next, !.lookup = lookup] BY DEF MigrateLine
<1>5. /\ old' = old /\ live' = live
      /\ migrations' = migrations /\ writeErrors' = writeErrors /\ saves' = saves
  BY DEF MigrateLine
<1>6. script = [at |-> script.at, dry |-> script.dry, line |-> script.line, lookup |-> script.lookup,
               whole |-> script.whole]
  BY DEF MigrationTypes
<1> HIDE DEF next, lookup
<1>7. script' = [at |-> script.at, dry |-> script.dry, line |-> next, lookup |-> lookup, whole |-> script.whole]
  BY <1>4, <1>6
<1>8. /\ script'.at = script.at /\ script'.line = next /\ script'.whole = script.whole
      /\ script'.lookup = lookup /\ script'.dry = script.dry
  BY <1>7
<1> QED BY <1>1, <1>2, <1>5, <1>7, <1>8 DEF next, lookup

\* The tables after a line of each file.
LEMMA WrittenEffect ==
  ASSUME MigrationTypes, WritesLine
  PROVE /\ db' = [note |-> db'.note, nodes |-> db'.nodes, edges |-> db'.edges, mappings |-> db'.mappings]
        /\ ~Writable => db' = db
        /\ script.at # "notes" => db'.note = db.note
        /\ script.at \notin {"nodes", "edges"} => db'.nodes = db.nodes
        /\ script.at # "edges" => db'.edges = db.edges
        /\ script.at # "mappings" => db'.mappings = db.mappings
        /\ Writable /\ script.at = "notes" => db'.note = [db.note EXCEPT ![Line.id] = Line.content]
        /\ Writable /\ script.at = "nodes" => db'.nodes = db.nodes \cup {Line.entity}
        /\ Writable /\ script.at = "edges" =>
             /\ db'.nodes = db.nodes \cup {script.lookup[Line.from], script.lookup[Line.to]}
             /\ db'.edges = db.edges \cup {<<script.lookup[Line.from], Line.rel, script.lookup[Line.to]>>}
        /\ Writable /\ script.at = "mappings" =>
             db'.mappings = db.mappings \cup {<<Line.entity, Line.note>>}
<1>0. db = [note |-> db.note, nodes |-> db.nodes, edges |-> db.edges, mappings |-> db.mappings]
  BY DEF MigrationTypes
<1>1. CASE ~Writable BY <1>0, <1>1 DEF WritesLine
<1>2. CASE Writable /\ script.at = "notes"
  <2> DEFINE new == [db.note EXCEPT ![Line.id] = Line.content]
  <2>1. db' = [db EXCEPT !.note = new] BY <1>2 DEF WritesLine, Written
  <2> HIDE DEF new
  <2>2. db' = [note |-> new, nodes |-> db.nodes, edges |-> db.edges, mappings |-> db.mappings] BY <1>0, <2>1
  <2>3. db'.note = new /\ db'.nodes = db.nodes /\ db'.edges = db.edges /\ db'.mappings = db.mappings BY <2>2
  <2> QED BY <1>2, <2>2, <2>3 DEF new
<1>3. CASE Writable /\ script.at = "nodes"
  <2> DEFINE new == db.nodes \cup {Line.entity}
  <2>1. db' = [db EXCEPT !.nodes = new] BY <1>3 DEF WritesLine, Written
  <2> HIDE DEF new
  <2>2. db' = [note |-> db.note, nodes |-> new, edges |-> db.edges, mappings |-> db.mappings] BY <1>0, <2>1
  <2>3. db'.note = db.note /\ db'.nodes = new /\ db'.edges = db.edges /\ db'.mappings = db.mappings BY <2>2
  <2> QED BY <1>3, <2>2, <2>3 DEF new
<1>4. CASE Writable /\ script.at = "edges"
  <2> DEFINE ends == db.nodes \cup {script.lookup[Line.from], script.lookup[Line.to]}
             new == db.edges \cup {<<script.lookup[Line.from], Line.rel, script.lookup[Line.to]>>}
  <2>1. db' = [db EXCEPT !.nodes = ends, !.edges = new] BY <1>4 DEF WritesLine, Written
  <2> HIDE DEF ends, new
  <2>2. db' = [note |-> db.note, nodes |-> ends, edges |-> new, mappings |-> db.mappings] BY <1>0, <2>1
  <2>3. db'.note = db.note /\ db'.nodes = ends /\ db'.edges = new /\ db'.mappings = db.mappings BY <2>2
  <2> QED BY <1>4, <2>2, <2>3 DEF ends, new
<1>5. CASE Writable /\ script.at = "mappings"
  <2> DEFINE new == db.mappings \cup {<<Line.entity, Line.note>>}
  <2>1. db' = [db EXCEPT !.mappings = new] BY <1>5 DEF WritesLine, Written
  <2> HIDE DEF new
  <2>2. db' = [note |-> db.note, nodes |-> db.nodes, edges |-> db.edges, mappings |-> new] BY <1>0, <2>1
  <2>3. db'.note = db.note /\ db'.nodes = db.nodes /\ db'.edges = db.edges /\ db'.mappings = new BY <2>2
  <2> QED BY <1>5, <2>2, <2>3 DEF new
<1>6. script.at \in FileNames BY LineRead DEF WritesLine
<1> QED BY <1>1, <1>2, <1>3, <1>4, <1>5, <1>6 DEF FileNames

\* Types after a line.
LEMMA NoteTypes ==
  ASSUME MigrationTypes, WritesLine
  PROVE db'.note \in [MNote -> MContent \cup {NoContent}]
<1>1. CASE Writable /\ script.at = "notes"
  <2>1. Line.id \in MNote /\ Line.content \in MContent
    <3>1. script.line \in DOMAIN old["notes"] /\ old["notes"][script.line].ok
      BY <1>1, LineRead DEF Writable, Line, WritesLine
    <3>2. Line = old["notes"][script.line] BY <1>1 DEF Line
    <3> QED BY <3>1, <3>2, OldFilesRead DEF MigrationTypes
  <2>2. db'.note = [db.note EXCEPT ![Line.id] = Line.content] BY <1>1, WrittenEffect
  <2> HIDE DEF Line
  <2> QED BY <2>1, <2>2 DEF MigrationTypes
<1>2. CASE ~(Writable /\ script.at = "notes")
  <2>1. db'.note = db.note BY <1>2, WrittenEffect
  <2> QED BY <2>1 DEF MigrationTypes
<1> QED BY <1>1, <1>2

LEMMA LineTypes == MigrationTypes /\ MigrateLine => MigrationTypes'
<1> SUFFICES ASSUME MigrationTypes, MigrateLine PROVE MigrationTypes' OBVIOUS
<1>1. WritesLine BY MigrateLineEffect
<1>2. script'.at \in ScriptStages /\ script'.line \in Nat /\ script'.line >= 1
  <2>1. script'.at = script.at /\ script'.line = script.line + 1 BY MigrateLineEffect
  <2> QED BY <2>1 DEF MigrationTypes
<1>3. /\ db'.note \in [MNote -> MContent \cup {NoContent}]
      /\ db' = [note |-> db'.note, nodes |-> db'.nodes, edges |-> db'.edges, mappings |-> db'.mappings]
  BY <1>1, NoteTypes, WrittenEffect
<1> QED BY <1>2, <1>3, MigrateLineEffect DEF MigrationTypes

\* What the run has learnt, after a line.
LEMMA LineLookup == MigrationTypes /\ LookupInv /\ MigrateLine => LookupInv'
<1> SUFFICES ASSUME MigrationTypes, LookupInv, MigrateLine PROVE LookupInv' OBVIOUS
<1> DEFINE L == script.line
<1>1. /\ script.at \in FileNames /\ L \in DOMAIN old[script.at] /\ script'.at = script.at
      /\ script'.line = L + 1 /\ script'.whole = script.whole /\ old' = old /\ L \in Nat
      /\ script'.lookup = (IF Writable THEN Learned ELSE script.lookup)
  BY MigrateLineEffect DEF MigrationTypes
<1>2. \A file \in FileNames, i \in Nat : Passed(file, i)' <=> Passed(file, i) \/ (file = script.at /\ i = L)
  BY <1>1, PassedNext
<1>3. /\ \A id : NodeOf(id)' = NodeOf(id) /\ (HasNode(id)' <=> HasNode(id))
      /\ Wellformed("nodes")' = Wellformed("nodes")
  BY <1>1, FilesKept
<1>4. Wellformed("nodes") \subseteq Nat BY FilesRead DEF Wellformed, FileNames, MigrationTypes
<1>5. CASE Writable /\ script.at = "nodes" /\ Line.id # ""
  <2>1. L \in Wellformed("nodes") /\ Line = old["nodes"][L]
    BY <1>1, <1>5 DEF Wellformed, Writable, Line
  <2>2. HasNode(Line.id) /\ NodeOf(Line.id) = Line.entity
    BY <1>5, <2>1, NodeOfLine DEF MigrationTypes
  <2>3. /\ DOMAIN script'.lookup = DOMAIN script.lookup \cup {Line.id}
        /\ \A id \in DOMAIN script'.lookup :
             script'.lookup[id] = IF id = Line.id THEN Line.entity ELSE script.lookup[id]
    BY <1>1, <1>5 DEF Learned
  <2> HIDE DEF L, Line
  <2>4. \A id \in DOMAIN script'.lookup : HasNode(id)' /\ script'.lookup[id] = NodeOf(id)'
    BY <1>3, <2>2, <2>3 DEF LookupInv
  <2>5. ASSUME script'.whole, NEW i \in Wellformed("nodes"), Passed("nodes", i)', old["nodes"][i].id # ""
        PROVE old["nodes"][i].id \in DOMAIN script'.lookup
    <3>1. Passed("nodes", i) \/ i = L BY <1>2, <1>4, <2>5 DEF FileNames
    <3> QED BY <1>1, <2>1, <2>3, <2>5, <3>1 DEF LookupInv
  <2> QED BY <1>1, <1>3, <2>4, <2>5 DEF LookupInv
<1>6. CASE ~(Writable /\ script.at = "nodes" /\ Line.id # "")
  <2>1. script'.lookup = script.lookup BY <1>1, <1>6 DEF Learned
  <2>2. ASSUME script'.whole, NEW i \in Wellformed("nodes"), Passed("nodes", i)', old["nodes"][i].id # ""
        PROVE old["nodes"][i].id \in DOMAIN script'.lookup
    <3>1. Passed("nodes", i) \/ ("nodes" = script.at /\ i = L) BY <1>2, <1>4, <2>2 DEF FileNames
    <3>2. ~("nodes" = script.at /\ i = L) BY <1>6, <2>2 DEF Wellformed, Writable, Line
    <3> QED BY <1>1, <2>1, <2>2, <3>1, <3>2 DEF LookupInv
  <2> QED BY <1>1, <1>3, <2>1, <2>2 DEF LookupInv
<1> QED BY <1>5, <1>6

\* An edge line that can be written is written with the entities the files give its ends; in a
\* run without an error every edge line whose ends have a node can be.
LEMMA EdgeLineWritten ==
  ASSUME MigrationTypes, LookupInv, script.at = "edges", script.line \in DOMAIN old["edges"]
  PROVE /\ Writable =>
             /\ Joined(script.line) /\ script.lookup[Line.from] = NodeOf(Line.from)
             /\ script.lookup[Line.to] = NodeOf(Line.to)
             /\ EdgeOfLine(script.line) = <<script.lookup[Line.from], Line.rel, script.lookup[Line.to]>>
        /\ script.whole /\ Joined(script.line) => Writable
<1>1. Line = old["edges"][script.line] BY DEF Line
<1>2. ASSUME Writable PROVE /\ Joined(script.line) /\ script.lookup[Line.from] = NodeOf(Line.from)
                            /\ script.lookup[Line.to] = NodeOf(Line.to)
                            /\ EdgeOfLine(script.line) = <<script.lookup[Line.from], Line.rel, script.lookup[Line.to]>>
  <2>1. Line.ok /\ Line.from \in DOMAIN script.lookup /\ Line.to \in DOMAIN script.lookup
    BY <1>2 DEF Writable, Resolvable
  <2>2. /\ HasNode(Line.from) /\ script.lookup[Line.from] = NodeOf(Line.from)
        /\ HasNode(Line.to) /\ script.lookup[Line.to] = NodeOf(Line.to)
    BY <2>1 DEF LookupInv
  <2> QED BY <1>1, <2>1, <2>2 DEF Joined, EdgeOfLine
<1>3. ASSUME script.whole, Joined(script.line) PROVE Writable
  <2>1. \A i : Passed("nodes", i) BY DEF Passed, AfterFile
  <2>2. \A id : HasNode(id) => id \in DOMAIN script.lookup
    BY <1>3, <2>1 DEF LookupInv, HasNode
  <2>3. Line.ok /\ HasNode(Line.from) /\ HasNode(Line.to) BY <1>1, <1>3 DEF Joined
  <2> QED BY <2>2, <2>3 DEF Writable, Resolvable
<1> QED BY <1>2, <1>3

\* Nothing but what the files say, after a line.
LEMMA LineOnly ==
  ASSUME MigrationTypes, LookupInv, OnlyFromFiles, WritesLine, old' = old, live' = live
  PROVE OnlyFromFiles'
<1>1. script.at \in FileNames /\ script.line \in DOMAIN old[script.at] BY LineRead DEF WritesLine
<1>2. NodeEntities' = NodeEntities /\ FileMappings' = FileMappings /\ FileEdges' = FileEdges BY <1>1, FilesKept
<1>3. CASE Writable /\ script.at = "nodes"
  <2>1. Line.entity \in NodeEntities
    BY <1>1, <1>3 DEF NodeEntities, Wellformed, Writable, Line
  <2>2. db'.nodes = db.nodes \cup {Line.entity} /\ db'.edges = db.edges /\ db'.mappings = db.mappings
    BY <1>3, WrittenEffect
  <2> HIDE DEF Line
  <2> QED BY <1>2, <2>1, <2>2 DEF OnlyFromFiles
<1>4. CASE Writable /\ script.at = "edges"
  <2> DEFINE from == script.lookup[Line.from]
             to == script.lookup[Line.to]
  <2>1. /\ Joined(script.line) /\ from = NodeOf(Line.from) /\ to = NodeOf(Line.to)
        /\ EdgeOfLine(script.line) = <<from, Line.rel, to>>
    BY <1>1, <1>4, EdgeLineWritten
  <2>2. <<from, Line.rel, to>> \in FileEdges BY <1>1, <1>4, <2>1, FileEdgesAre
  <2>3. HasNode(Line.from) /\ HasNode(Line.to) BY <1>4, <2>1 DEF Joined, Line
  <2>4. from \in NodeEntities /\ to \in NodeEntities BY <2>1, <2>3, NodeOfId DEF MigrationTypes
  <2>5. /\ db'.nodes = db.nodes \cup {from, to} /\ db'.edges = db.edges \cup {<<from, Line.rel, to>>}
        /\ db'.mappings = db.mappings
    BY <1>4, WrittenEffect
  <2> HIDE DEF from, to, Line
  <2>6. \A e \in db'.edges : e[1] \in db'.nodes /\ e[3] \in db'.nodes BY <2>5 DEF OnlyFromFiles
  <2> QED BY <1>2, <2>2, <2>4, <2>5, <2>6 DEF OnlyFromFiles
<1>5. CASE Writable /\ script.at = "mappings"
  <2>1. <<Line.entity, Line.note>> \in FileMappings BY <1>1, <1>5 DEF FileMappings, Wellformed, Writable, Line
  <2>2. db'.mappings = db.mappings \cup {<<Line.entity, Line.note>>} /\ db'.edges = db.edges /\ db'.nodes = db.nodes
    BY <1>5, WrittenEffect
  <2> HIDE DEF Line
  <2> QED BY <1>2, <2>1, <2>2 DEF OnlyFromFiles
<1>6. CASE ~Writable \/ script.at = "notes"
  <2>1. db'.nodes = db.nodes /\ db'.edges = db.edges /\ db'.mappings = db.mappings BY <1>6, WrittenEffect
  <2> QED BY <1>2, <2>1 DEF OnlyFromFiles
<1> QED BY <1>1, <1>3, <1>4, <1>5, <1>6 DEF FileNames

\* The notes passed are there, after a line: a later line of a note replaces an earlier one.
LEMMA LineNotes == MigrationTypes /\ NotesThere /\ MigrateLine => NotesThere'
<1> SUFFICES ASSUME MigrationTypes, NotesThere, MigrateLine PROVE NotesThere' OBVIOUS
<1> SUFFICES ASSUME script'.whole, NEW i \in Wellformed("notes"), Passed("notes", i)',
                    \A j \in Wellformed("notes") : j > i /\ Passed("notes", j)' => old["notes"][j].id # old["notes"][i].id
             PROVE \/ db'.note[old["notes"][i].id] = live.left[old["notes"][i].id]
                   \/ db'.note[old["notes"][i].id] = old["notes"][i].content
  <2>1. old' = old /\ live' = live BY MigrateLineEffect
  <2>2. Wellformed("notes")' = Wellformed("notes") BY <2>1, FilesKept
  <2> QED BY <2>1, <2>2 DEF NotesThere
<1> DEFINE L == script.line
<1>1. /\ script.at \in FileNames /\ L \in DOMAIN old[script.at] /\ script'.at = script.at
      /\ script'.line = L + 1 /\ script.whole /\ L \in Nat /\ WritesLine
  BY MigrateLineEffect DEF MigrationTypes
<1>2. Wellformed("notes") \subseteq Nat BY FilesRead DEF Wellformed, FileNames, MigrationTypes
<1>3. \A j \in Wellformed("notes") : Passed("notes", j)' <=> Passed("notes", j) \/ (script.at = "notes" /\ j = L)
  BY <1>1, <1>2, PassedNext DEF FileNames
<1>4. \A j \in Wellformed("notes") : j > i /\ Passed("notes", j) => old["notes"][j].id # old["notes"][i].id
  BY <1>3
<1>5. Passed("notes", i) => \/ db.note[old["notes"][i].id] = live.left[old["notes"][i].id]
                             \/ db.note[old["notes"][i].id] = old["notes"][i].content
  BY <1>1, <1>4 DEF NotesThere
<1>6. old["notes"][i].id \in MNote BY OldFilesRead DEF MigrationTypes, Wellformed
<1>7. CASE script.at = "notes" /\ Writable
  <2>1. L \in Wellformed("notes") /\ Line = old["notes"][L] BY <1>1, <1>7 DEF Wellformed, Writable, Line
  <2>2. db'.note = [db.note EXCEPT ![Line.id] = Line.content] BY <1>1, <1>7, WrittenEffect
  <2>3. db.note \in [MNote -> MContent \cup {NoContent}] BY DEF MigrationTypes
  <2> HIDE DEF L, Line
  <2>4. CASE i = L BY <1>6, <2>1, <2>2, <2>3, <2>4
  <2>5. CASE i # L
    <3>1. Passed("notes", i) BY <1>3, <2>5
    <3>2. i < L
      <4>1. script.at \notin AfterFile["notes"] BY <1>7 DEF AfterFile
      <4> QED BY <1>7, <3>1, <4>1 DEF Passed, L
    <3>3. L > i BY <1>1, <1>2, <3>2
    <3>4. \A j \in Wellformed("notes") : j = L => Passed("notes", j)' BY <1>3, <1>7
    <3>5. Line.id # old["notes"][i].id BY <2>1, <3>3, <3>4
    <3>6. db'.note[old["notes"][i].id] = db.note[old["notes"][i].id] BY <1>6, <2>2, <2>3, <3>5
    <3> QED BY <1>5, <3>1, <3>6
  <2> QED BY <2>4, <2>5
<1>8. CASE ~(script.at = "notes" /\ Writable)
  <2>1. db'.note = db.note BY <1>1, <1>8, WrittenEffect
  <2>2. Passed("notes", i) BY <1>3, <1>8 DEF Wellformed, Writable, Line
  <2> QED BY <1>5, <2>1, <2>2
<1> QED BY <1>7, <1>8

\* Nodes, edges and mappings passed are there, after a line.
LEMMA LineGraph == MigrationTypes /\ LookupInv /\ GraphThere /\ MigrateLine => GraphThere'
<1> SUFFICES ASSUME MigrationTypes, LookupInv, GraphThere, MigrateLine, script'.whole PROVE GraphThere'
  BY DEF GraphThere
<1> DEFINE L == script.line
<1>1. /\ script.at \in FileNames /\ L \in DOMAIN old[script.at] /\ script'.at = script.at
      /\ script'.line = L + 1 /\ script.whole /\ L \in Nat /\ old' = old /\ live' = live /\ WritesLine
  BY MigrateLineEffect DEF MigrationTypes
<1>2. /\ \A i : EdgeOfLine(i)' = EdgeOfLine(i) /\ (Joined(i)' <=> Joined(i))
      /\ Wellformed("nodes")' = Wellformed("nodes") /\ Wellformed("mappings")' = Wellformed("mappings")
  BY <1>1, FilesKept
<1>3. /\ DOMAIN old["edges"] \subseteq Nat /\ Wellformed("nodes") \subseteq Nat
      /\ Wellformed("mappings") \subseteq Nat
  BY FilesRead DEF Wellformed, FileNames, MigrationTypes
<1>4. \A file \in FileNames, i \in Nat : Passed(file, i)' <=> Passed(file, i) \/ (file = script.at /\ i = L)
  BY <1>1, PassedNext
<1>5. db.nodes \subseteq db'.nodes /\ db.edges \subseteq db'.edges /\ db.mappings \subseteq db'.mappings
  BY WrittenEffect, <1>1 DEF FileNames
<1>6. ASSUME NEW i \in Wellformed("nodes"), Passed("nodes", i)' PROVE old["nodes"][i].entity \in db'.nodes
  <2>1. CASE Passed("nodes", i) BY <1>1, <1>5, <2>1 DEF GraphThere
  <2>2. CASE script.at = "nodes" /\ i = L
    <3>1. Writable /\ Line = old["nodes"][i] BY <2>2 DEF Writable, Line, Wellformed
    <3>2. db'.nodes = db.nodes \cup {Line.entity} BY <1>1, <2>2, <3>1, WrittenEffect
    <3> QED BY <3>1, <3>2
  <2> QED BY <1>3, <1>4, <1>6, <2>1, <2>2 DEF FileNames
<1>7. ASSUME NEW i \in DOMAIN old["edges"], Joined(i), Passed("edges", i)' PROVE EdgeOfLine(i) \in db'.edges
  <2>1. CASE Passed("edges", i) BY <1>1, <1>5, <1>7, <2>1 DEF GraphThere
  <2>2. CASE script.at = "edges" /\ i = L
    <3>1. Writable /\ EdgeOfLine(i) = <<script.lookup[Line.from], Line.rel, script.lookup[Line.to]>>
      BY <1>1, <1>7, <2>2, EdgeLineWritten
    <3>2. db'.edges = db.edges \cup {<<script.lookup[Line.from], Line.rel, script.lookup[Line.to]>>}
      BY <1>1, <2>2, <3>1, WrittenEffect
    <3> HIDE DEF Line
    <3> QED BY <3>1, <3>2
  <2> QED BY <1>3, <1>4, <1>7, <2>1, <2>2 DEF FileNames
<1>8. ASSUME NEW i \in Wellformed("mappings"), Passed("mappings", i)'
      PROVE \/ <<old["mappings"][i].entity, old["mappings"][i].note>> \in db'.mappings
            \/ old["mappings"][i].note \in live.unmapped
  <2>1. CASE Passed("mappings", i) BY <1>1, <1>5, <2>1 DEF GraphThere
  <2>2. CASE script.at = "mappings" /\ i = L
    <3>1. Writable /\ Line = old["mappings"][i] BY <2>2 DEF Writable, Line, Wellformed
    <3>2. db'.mappings = db.mappings \cup {<<Line.entity, Line.note>>} BY <1>1, <2>2, <3>1, WrittenEffect
    <3> QED BY <3>1, <3>2
  <2> QED BY <1>3, <1>4, <1>8, <2>1, <2>2 DEF FileNames
<1> QED BY <1>1, <1>2, <1>6, <1>7, <1>8 DEF GraphThere

\* What the run has passed, and what it has learnt, is the same; no table changes, nor what
\* the application did: the rest follows.
LEMMA SameThere ==
  ASSUME MigrationInv, MigrationTypes', old' = old, db' = db, live' = live, script'.lookup = script.lookup,
         script'.whole => script.whole
           /\ \A file \in FileNames : \A i \in DOMAIN old[file] : Passed(file, i)' <=> Passed(file, i)
  PROVE MigrationInv'
<1>1. /\ NodeEntities' = NodeEntities /\ FileMappings' = FileMappings /\ FileEdges' = FileEdges
      /\ \A id : NodeOf(id)' = NodeOf(id) /\ (HasNode(id)' <=> HasNode(id))
      /\ \A i : EdgeOfLine(i)' = EdgeOfLine(i) /\ (Joined(i)' <=> Joined(i))
      /\ Wellformed("notes")' = Wellformed("notes") /\ Wellformed("nodes")' = Wellformed("nodes")
      /\ Wellformed("mappings")' = Wellformed("mappings")
  BY FilesKept
<1>2. /\ Wellformed("notes") \subseteq DOMAIN old["notes"] /\ Wellformed("nodes") \subseteq DOMAIN old["nodes"]
      /\ Wellformed("mappings") \subseteq DOMAIN old["mappings"]
  BY DEF Wellformed
<1>3. LookupInv' BY <1>1, <1>2 DEF MigrationInv, LookupInv, FileNames
<1>4. OnlyFromFiles' BY <1>1 DEF MigrationInv, OnlyFromFiles
<1>5. NotesThere' BY <1>1, <1>2 DEF MigrationInv, NotesThere, FileNames
<1>6. GraphThere' BY <1>1, <1>2 DEF MigrationInv, GraphThere, FileNames
<1> QED BY <1>3, <1>4, <1>5, <1>6 DEF MigrationInv

\* A run that begins, or was killed, has passed nothing.
LEMMA NothingPassed ==
  ASSUME MigrationInv, MigrationTypes', old' = old, db' = db, DOMAIN script'.lookup = {},
         live'.nodes = live.nodes, live'.edges = live.edges, live'.mappings = live.mappings, script'.at \in {"idle", "notes"}, script'.line = 1
  PROVE MigrationInv'
<1>1. NodeEntities' = NodeEntities /\ FileMappings' = FileMappings /\ FileEdges' = FileEdges BY FilesKept
<1>2. ASSUME NEW file \in FileNames, NEW i \in DOMAIN old[file] PROVE ~Passed(file, i)'
  <2>1. i >= 1 BY FilesRead DEF MigrationInv, MigrationTypes
  <2>2. script'.at \notin AfterFile[file] BY DEF AfterFile, FileNames
  <2>3. i \in Nat BY FilesRead DEF MigrationInv, MigrationTypes
  <2> QED BY <2>1, <2>2, <2>3 DEF Passed
<1>3. /\ Wellformed("notes")' \subseteq DOMAIN old["notes"] /\ Wellformed("nodes")' \subseteq DOMAIN old["nodes"]
      /\ Wellformed("mappings")' \subseteq DOMAIN old["mappings"]
  BY DEF Wellformed
<1>4. LookupInv' BY <1>2, <1>3 DEF LookupInv, FileNames
<1>5. OnlyFromFiles' BY <1>1 DEF MigrationInv, OnlyFromFiles
<1>6. NotesThere' BY <1>2, <1>3 DEF NotesThere, FileNames
<1>7. GraphThere' BY <1>2, <1>3 DEF GraphThere, FileNames
<1> QED BY <1>4, <1>5, <1>6, <1>7 DEF MigrationInv

\* The fields of a run that has not begun.
LEMMA UnrunFields ==
  ASSUME NEW at, NEW dry
  PROVE /\ [Unrun EXCEPT !.at = at, !.dry = dry] =
             [at |-> at, dry |-> dry, line |-> 1, lookup |-> <<>>, whole |-> TRUE]
        /\ Unrun = [at |-> Unrun.at, dry |-> Unrun.dry, line |-> Unrun.line, lookup |-> Unrun.lookup,
                    whole |-> Unrun.whole]
        /\ Unrun.at = "idle" /\ Unrun.line = 1 /\ Unrun.lookup = <<>>
<1> DEFINE no == FALSE
           yes == TRUE
           first == 1
           none == <<>>
<1>1. Unrun = [at |-> "idle", dry |-> no, line |-> first, lookup |-> none, whole |-> yes] BY DEF Unrun
<1> HIDE DEF no, yes, first, none
<1>2. [Unrun EXCEPT !.at = at, !.dry = dry] =
        [at |-> at, dry |-> dry, line |-> first, lookup |-> none, whole |-> yes]
  <2>1. PICK u : u = Unrun OBVIOUS
  <2>2. PICK s : s = [u EXCEPT !.at = at, !.dry = dry] OBVIOUS
  <2>3. u = [at |-> "idle", dry |-> no, line |-> first, lookup |-> none, whole |-> yes] BY <1>1, <2>1
  <2>4. s = [at |-> at, dry |-> dry, line |-> first, lookup |-> none, whole |-> yes] BY <2>2, <2>3
  <2> QED BY <2>1, <2>2, <2>4
<1>3. Unrun = [at |-> Unrun.at, dry |-> Unrun.dry, line |-> Unrun.line, lookup |-> Unrun.lookup,
               whole |-> Unrun.whole]
  BY <1>1
<1>4. Unrun.at = "idle" /\ Unrun.line = first /\ Unrun.lookup = none BY <1>1
<1> QED BY <1>2, <1>3, <1>4 DEF yes, first, none

\* A run begins.
LEMMA StartStep ==
  ASSUME MigrationInv, NEW dry \in BOOLEAN, StartMigration(dry)
  PROVE MigrationInv'
<1>1. script' = [at |-> "notes", dry |-> dry, line |-> 1, lookup |-> <<>>, whole |-> TRUE]
  BY UnrunFields DEF StartMigration
<1>2. /\ script' = [at |-> script'.at, dry |-> script'.dry, line |-> script'.line, lookup |-> script'.lookup,
                    whole |-> script'.whole]
      /\ script'.at = "notes" /\ script'.line = 1 /\ script'.lookup = <<>>
  BY <1>1
<1>3. /\ old' = old /\ db' = db /\ migrations' = migrations + 1 /\ migrations < MaxMigrations
      /\ writeErrors' = writeErrors /\ saves' = saves
  BY DEF StartMigration
<1>4. migrations' \in 0..MaxMigrations BY <1>3, MigrationBounds DEF MigrationInv, MigrationTypes
<1>7. /\ live' = [left |-> live'.left, unmapped |-> live'.unmapped, nodes |-> live'.nodes,
                  edges |-> live'.edges, mappings |-> live'.mappings]
      /\ live'.left \in [MNote -> MContent \cup {NoContent, Untouched}] /\ live'.unmapped = {}
      /\ live'.nodes = live.nodes /\ live'.edges = live.edges /\ live'.mappings = live.mappings
  <2> DEFINE left == Inactive.left
             none == {}
  <2>1. live' = [live EXCEPT !.left = left, !.unmapped = none] BY DEF StartMigration
  <2>2. left \in [MNote -> MContent \cup {NoContent, Untouched}] BY DEF Inactive
  <2>3. live = [left |-> live.left, unmapped |-> live.unmapped, nodes |-> live.nodes, edges |-> live.edges,
                mappings |-> live.mappings]
    BY DEF MigrationInv, MigrationTypes
  <2>5. none = {} OBVIOUS
  <2> HIDE DEF left, none
  <2>4. live' = [left |-> left, unmapped |-> none, nodes |-> live.nodes, edges |-> live.edges,
                 mappings |-> live.mappings]
    BY <2>1, <2>3
  <2> QED BY <2>2, <2>4, <2>5
<1>5. MigrationTypes' BY <1>2, <1>3, <1>4, <1>7 DEF MigrationInv, MigrationTypes, ScriptStages, FileNames
<1>6. DOMAIN script'.lookup = {} BY <1>2
<1> QED BY <1>2, <1>3, <1>5, <1>6, <1>7, NothingPassed

\* A run is killed.
LEMMA KillStep == MigrationInv /\ Kill => MigrationInv'
<1> SUFFICES ASSUME MigrationInv, Kill PROVE MigrationInv' OBVIOUS
<1>1. /\ script' = [at |-> script'.at, dry |-> script'.dry, line |-> script'.line, lookup |-> script'.lookup,
                    whole |-> script'.whole]
      /\ script'.at = "idle" /\ script'.line = 1 /\ script'.lookup = <<>>
  BY UnrunFields DEF Kill
<1>2. /\ old' = old /\ db' = db /\ live' = live /\ migrations' = migrations
      /\ writeErrors' = writeErrors /\ saves' = saves
  BY DEF Kill
<1>3. MigrationTypes' BY <1>1, <1>2 DEF MigrationInv, MigrationTypes, ScriptStages, FileNames
<1>4. DOMAIN script'.lookup = {} BY <1>1
<1> QED BY <1>1, <1>2, <1>3, <1>4, NothingPassed

\* A line read, written or not.
LEMMA MigrateStep == MigrationInv /\ MigrateLine => MigrationInv'
<1> SUFFICES ASSUME MigrationInv, MigrateLine PROVE MigrationInv' OBVIOUS
<1>1. OnlyFromFiles' BY LineOnly, MigrateLineEffect DEF MigrationInv
<1> QED BY <1>1, LineTypes, LineLookup, LineNotes, LineGraph DEF MigrationInv

\* A write that fails, whether its row is kept or not: the run is not whole any more.
LEMMA WriteFailsStep ==
  ASSUME MigrationInv, NEW kept \in BOOLEAN, WriteFails(kept)
  PROVE MigrationInv'
<1> DEFINE next == script.line + 1
           whole == FALSE
<1>0. script = [at |-> script.at, dry |-> script.dry, line |-> script.line, lookup |-> script.lookup,
                whole |-> script.whole]
      /\ script.line \in Nat /\ script.at \in ScriptStages
  BY DEF MigrationInv, MigrationTypes
<1>1. script' = [script EXCEPT !.line = next, !.whole = whole] BY DEF WriteFails
<1>2. next \in Nat /\ next >= 1 BY <1>0
<1> HIDE DEF next, whole
<1>3. script' = [at |-> script.at, dry |-> script.dry, line |-> next, lookup |-> script.lookup, whole |-> whole]
  BY <1>0, <1>1
<1>4. /\ script'.at = script.at /\ script'.line = next /\ script'.whole = whole
      /\ script'.lookup = script.lookup /\ script'.dry = script.dry
  BY <1>3
<1>5. /\ old' = old /\ live' = live /\ migrations' = migrations
      /\ writeErrors' = writeErrors + 1 /\ writeErrors < MaxWriteErrors /\ saves' = saves
      /\ WritesLine \/ db' = db
  BY DEF WriteFails, WritesLine, AtLine
<1>6. writeErrors' \in 0..MaxWriteErrors BY <1>5, MigrationBounds DEF MigrationInv, MigrationTypes
<1>7. script' = [at |-> script'.at, dry |-> script'.dry, line |-> script'.line, lookup |-> script'.lookup,
                 whole |-> script'.whole]
  BY <1>3, <1>4
<1>8. /\ db'.note \in [MNote -> MContent \cup {NoContent}]
      /\ db' = [note |-> db'.note, nodes |-> db'.nodes, edges |-> db'.edges, mappings |-> db'.mappings]
  <2>1. CASE WritesLine BY <2>1, NoteTypes, WrittenEffect DEF MigrationInv
  <2>2. CASE db' = db BY <2>2 DEF MigrationInv, MigrationTypes
  <2> QED BY <1>5, <2>1, <2>2
<1>9. MigrationTypes'
  <2>1. script'.at \in ScriptStages /\ script'.line \in Nat /\ script'.line >= 1 BY <1>0, <1>2, <1>4
  <2> QED BY <1>5, <1>6, <1>7, <1>8, <2>1 DEF MigrationInv, MigrationTypes
<1>10. ~script'.whole BY <1>4 DEF whole
<1>11. OnlyFromFiles'
  <2>1. CASE WritesLine BY <1>5, <2>1, LineOnly DEF MigrationInv
  <2>2. CASE db' = db BY <1>5, <2>2, FilesKept DEF MigrationInv, OnlyFromFiles
  <2> QED BY <1>5, <2>1, <2>2
<1>12. LookupInv' BY <1>4, <1>5, <1>10, FilesKept DEF MigrationInv, LookupInv
<1> QED BY <1>9, <1>10, <1>11, <1>12 DEF MigrationInv, NotesThere, GraphThere

\* On to the next file.
LEMMA EndOfFileStep == MigrationInv /\ EndOfFile => MigrationInv'
<1> SUFFICES ASSUME MigrationInv, EndOfFile PROVE MigrationInv' OBVIOUS
<1>0. /\ script = [at |-> script.at, dry |-> script.dry, line |-> script.line, lookup |-> script.lookup,
                   whole |-> script.whole]
      /\ script.line \in Nat /\ old \in OldFiles
  BY DEF MigrationInv, MigrationTypes
<1>1. script.at \in FileNames /\ script.line > Len(old[script.at]) BY <1>0, FilesRead DEF EndOfFile
<1> DEFINE next == NextFile(script.at)
           first == 1
<1>2. script' = [script EXCEPT !.at = next, !.line = first] BY DEF EndOfFile
<1>3. next \in ScriptStages BY <1>1 DEF NextFile, FileNames, ScriptStages
<1> HIDE DEF next, first
<1>4. script' = [at |-> next, dry |-> script.dry, line |-> first, lookup |-> script.lookup, whole |-> script.whole]
  BY <1>0, <1>2
<1>5. /\ script'.at = next /\ script'.line = first /\ script'.whole = script.whole
      /\ script'.lookup = script.lookup /\ script'.dry = script.dry
  BY <1>4
<1>6. /\ old' = old /\ db' = db /\ live' = live /\ migrations' = migrations
      /\ writeErrors' = writeErrors /\ saves' = saves
  BY DEF EndOfFile
<1>7. script' = [at |-> script'.at, dry |-> script'.dry, line |-> script'.line, lookup |-> script'.lookup,
                 whole |-> script'.whole]
  BY <1>4, <1>5
<1>8. MigrationTypes'
  <2>1. script'.at \in ScriptStages /\ script'.line \in Nat /\ script'.line >= 1 BY <1>3, <1>5 DEF first
  <2> QED BY <1>6, <1>7, <2>1 DEF MigrationInv, MigrationTypes
<1>9. \A file \in FileNames : \A i \in DOMAIN old[file] : Passed(file, i)' <=> Passed(file, i)
  BY <1>0, <1>1, <1>5, PassedEnd DEF next, first
<1> QED BY <1>5, <1>6, <1>8, <1>9, SameThere

\* A call of the application: what it puts there and takes away is on its account.
LEMMA LiveStep ==
  ASSUME MigrationInv, LiveCall,
         db' = [note |-> db'.note, nodes |-> db'.nodes, edges |-> db'.edges, mappings |-> db'.mappings],
         live' = [left |-> live'.left, unmapped |-> live'.unmapped, nodes |-> live'.nodes,
                  edges |-> live'.edges, mappings |-> live'.mappings],
         db'.note \in [MNote -> MContent \cup {NoContent}],
         live'.left \in [MNote -> MContent \cup {NoContent, Untouched}],
         live'.unmapped \subseteq MNote, live'.edges \subseteq LiveEdges,
         \A n \in MNote : \/ db'.note[n] = live'.left[n]
                          \/ db'.note[n] = db.note[n] /\ live'.left[n] = live.left[n],
         db.nodes \subseteq db'.nodes, db'.nodes \subseteq db.nodes \cup live'.nodes,
         db.edges \subseteq db'.edges, db'.edges \subseteq db.edges \cup live'.edges,
         db'.mappings \subseteq db.mappings \cup live'.mappings,
         \A m \in db.mappings : m \in db'.mappings \/ m[2] \in live'.unmapped,
         live.unmapped \subseteq live'.unmapped, live.nodes \subseteq live'.nodes,
         live.edges \subseteq live'.edges, live.mappings \subseteq live'.mappings,
         \A e \in db'.edges \ db.edges : e[1] \in db'.nodes /\ e[3] \in db'.nodes
  PROVE MigrationInv'
<1>1. /\ old' = old /\ script' = script /\ migrations' = migrations /\ writeErrors' = writeErrors
      /\ saves' = saves + 1 /\ saves < MaxSaves
  BY DEF LiveCall
<1>2. saves' \in 0..MaxSaves BY <1>1, MigrationBounds DEF MigrationInv, MigrationTypes
<1>3. MigrationTypes' BY <1>1, <1>2 DEF MigrationInv, MigrationTypes
<1>4. /\ NodeEntities' = NodeEntities /\ FileMappings' = FileMappings /\ FileEdges' = FileEdges
      /\ \A id : NodeOf(id)' = NodeOf(id) /\ (HasNode(id)' <=> HasNode(id))
      /\ \A i : EdgeOfLine(i)' = EdgeOfLine(i) /\ (Joined(i)' <=> Joined(i))
      /\ Wellformed("notes")' = Wellformed("notes") /\ Wellformed("nodes")' = Wellformed("nodes")
      /\ Wellformed("mappings")' = Wellformed("mappings")
  BY <1>1, FilesKept
<1>5. \A file, i : Passed(file, i)' <=> Passed(file, i) BY <1>1 DEF Passed
<1>6. LookupInv' BY <1>1, <1>4, <1>5 DEF MigrationInv, LookupInv
<1>7. OnlyFromFiles' BY <1>4 DEF MigrationInv, OnlyFromFiles
<1>8. \A i \in Wellformed("notes") : old["notes"][i].id \in MNote
  BY OldFilesRead DEF MigrationInv, MigrationTypes, Wellformed
<1>9. NotesThere' BY <1>1, <1>4, <1>5, <1>8 DEF MigrationInv, NotesThere
<1>10. GraphThere'
  <2> SUFFICES ASSUME script.whole PROVE GraphThere' BY <1>1 DEF GraphThere
  <2>1. \A i \in Wellformed("mappings") : Passed("mappings", i) =>
          \/ <<old["mappings"][i].entity, old["mappings"][i].note>> \in db'.mappings
          \/ old["mappings"][i].note \in live'.unmapped
    <3> SUFFICES ASSUME NEW i \in Wellformed("mappings"), Passed("mappings", i)
                 PROVE \/ <<old["mappings"][i].entity, old["mappings"][i].note>> \in db'.mappings
                       \/ old["mappings"][i].note \in live'.unmapped
      OBVIOUS
    <3> DEFINE m == <<old["mappings"][i].entity, old["mappings"][i].note>>
    <3>1. m \in db.mappings \/ old["mappings"][i].note \in live.unmapped BY DEF MigrationInv, GraphThere
    <3>2. m[2] = old["mappings"][i].note OBVIOUS
    <3> HIDE DEF m
    <3>3. m \in db'.mappings \/ old["mappings"][i].note \in live'.unmapped BY <3>1, <3>2
    <3> QED BY <3>3 DEF m
  <2>2. \A i \in Wellformed("nodes") : Passed("nodes", i) => old["nodes"][i].entity \in db'.nodes
    BY DEF MigrationInv, GraphThere
  <2>3. \A i \in DOMAIN old["edges"] : Joined(i) /\ Passed("edges", i) => EdgeOfLine(i) \in db'.edges
    BY DEF MigrationInv, GraphThere
  <2> QED BY <1>1, <1>4, <1>5, <2>1, <2>2, <2>3 DEF GraphThere
<1> QED BY <1>3, <1>6, <1>7, <1>9, <1>10 DEF MigrationInv

\* The records as they are, for the calls below.
LEMMA LiveRecords ==
  ASSUME MigrationInv
  PROVE /\ db = [note |-> db.note, nodes |-> db.nodes, edges |-> db.edges, mappings |-> db.mappings]
        /\ live = [left |-> live.left, unmapped |-> live.unmapped, nodes |-> live.nodes,
                   edges |-> live.edges, mappings |-> live.mappings]
        /\ db.note \in [MNote -> MContent \cup {NoContent}]
        /\ live.left \in [MNote -> MContent \cup {NoContent, Untouched}]
        /\ live.unmapped \subseteq MNote /\ live.edges \subseteq LiveEdges
BY DEF MigrationInv, MigrationTypes

\* The application writes a note or deletes it.
LEMMA SaveStep ==
  ASSUME MigrationInv, NEW n \in MNote, NEW c \in MContent \cup {NoContent}, Save(n, c)
  PROVE MigrationInv'
<1> DEFINE new == [db.note EXCEPT ![n] = c]
           left == [live.left EXCEPT ![n] = c]
<1>1. db' = [db EXCEPT !.note = new] /\ live' = [live EXCEPT !.left = left] /\ LiveCall BY DEF Save
<1>2. /\ new \in [MNote -> MContent \cup {NoContent}]
      /\ left \in [MNote -> MContent \cup {NoContent, Untouched}]
      /\ new[n] = left[n] /\ \A m \in MNote \ {n} : new[m] = db.note[m] /\ left[m] = live.left[m]
  BY LiveRecords
<1> HIDE DEF new, left
<1>3. /\ db' = [note |-> new, nodes |-> db.nodes, edges |-> db.edges, mappings |-> db.mappings]
      /\ live' = [left |-> left, unmapped |-> live.unmapped, nodes |-> live.nodes, edges |-> live.edges,
                  mappings |-> live.mappings]
  BY <1>1, LiveRecords
<1>4. /\ db'.note = new /\ db'.nodes = db.nodes /\ db'.edges = db.edges /\ db'.mappings = db.mappings
      /\ live'.left = left /\ live'.unmapped = live.unmapped /\ live'.nodes = live.nodes
      /\ live'.edges = live.edges /\ live'.mappings = live.mappings
  BY <1>3
<1>5. \A m \in MNote : \/ db'.note[m] = live'.left[m]
                       \/ db'.note[m] = db.note[m] /\ live'.left[m] = live.left[m]
  BY <1>2, <1>4
<1>6. /\ db' = [note |-> db'.note, nodes |-> db'.nodes, edges |-> db'.edges, mappings |-> db'.mappings]
      /\ live' = [left |-> live'.left, unmapped |-> live'.unmapped, nodes |-> live'.nodes,
                  edges |-> live'.edges, mappings |-> live'.mappings]
  BY <1>3, <1>4
<1> QED BY <1>1, <1>2, <1>4, <1>5, <1>6, LiveRecords, LiveStep

\* The application writes an edge and makes sure of both nodes.
LEMMA LiveEdgeStep ==
  ASSUME MigrationInv, NEW e \in LiveEdges, LiveEdge(e)
  PROVE MigrationInv'
<1> DEFINE dbNodes == db.nodes \cup {e[1], e[3]}
           dbEdges == db.edges \cup {e}
           liveNodes == live.nodes \cup {e[1], e[3]}
           liveEdges == live.edges \cup {e}
<1>1. /\ db' = [db EXCEPT !.nodes = dbNodes, !.edges = dbEdges]
      /\ live' = [live EXCEPT !.nodes = liveNodes, !.edges = liveEdges] /\ LiveCall
  BY DEF LiveEdge
<1>2. /\ e[1] \in dbNodes /\ e[3] \in dbNodes /\ db.nodes \subseteq dbNodes
      /\ dbNodes \subseteq db.nodes \cup liveNodes /\ live.nodes \subseteq liveNodes
      /\ dbEdges = db.edges \cup {e} /\ liveEdges = live.edges \cup {e}
  OBVIOUS
<1> HIDE DEF dbNodes, dbEdges, liveNodes, liveEdges
<1>3. /\ db' = [note |-> db.note, nodes |-> dbNodes, edges |-> dbEdges, mappings |-> db.mappings]
      /\ live' = [left |-> live.left, unmapped |-> live.unmapped, nodes |-> liveNodes, edges |-> liveEdges,
                  mappings |-> live.mappings]
  BY <1>1, LiveRecords
<1>4. /\ db'.note = db.note /\ db'.nodes = dbNodes /\ db'.edges = dbEdges /\ db'.mappings = db.mappings
      /\ live'.left = live.left /\ live'.unmapped = live.unmapped /\ live'.nodes = liveNodes
      /\ live'.edges = liveEdges /\ live'.mappings = live.mappings
  BY <1>3
<1>5. /\ db' = [note |-> db'.note, nodes |-> db'.nodes, edges |-> db'.edges, mappings |-> db'.mappings]
      /\ live' = [left |-> live'.left, unmapped |-> live'.unmapped, nodes |-> live'.nodes,
                  edges |-> live'.edges, mappings |-> live'.mappings]
  BY <1>3, <1>4
<1>6. \A f \in db'.edges \ db.edges : f[1] \in db'.nodes /\ f[3] \in db'.nodes BY <1>2, <1>4
<1> QED BY <1>1, <1>2, <1>4, <1>5, <1>6, LiveRecords, LiveStep

\* The application writes a mapping, or takes out all those of a note.
LEMMA LiveMappingStep ==
  ASSUME MigrationInv, NEW entity, NEW n \in MNote, LiveMapping(entity, n) \/ Unmap(n)
  PROVE MigrationInv'
<1>1. PICK new, added, gone :
        /\ db' = [db EXCEPT !.mappings = new]
        /\ live' = [live EXCEPT !.mappings = added, !.unmapped = gone] /\ LiveCall
        /\ new \subseteq db.mappings \cup added /\ live.mappings \subseteq added
        /\ live.unmapped \subseteq gone /\ gone \subseteq live.unmapped \cup {n}
        /\ \A m \in db.mappings : m \in new \/ m[2] \in gone
  <2>1. CASE LiveMapping(entity, n)
    <3> DEFINE new == db.mappings \cup {<<entity, n>>}
               added == live.mappings \cup {<<entity, n>>}
    <3>1. db' = [db EXCEPT !.mappings = new] /\ live' = [live EXCEPT !.mappings = added] /\ LiveCall
      BY <2>1 DEF LiveMapping
    <3>2. /\ new \subseteq db.mappings \cup added /\ live.mappings \subseteq added
          /\ \A m \in db.mappings : m \in new
      OBVIOUS
    <3> HIDE DEF new, added
    <3>3. live' = [live EXCEPT !.mappings = added, !.unmapped = live.unmapped] BY <3>1, LiveRecords
    <3> QED BY <3>1, <3>2, <3>3
  <2>2. CASE Unmap(n)
    <3> DEFINE new == {m \in db.mappings : m[2] # n}
               gone == live.unmapped \cup {n}
    <3>1. db' = [db EXCEPT !.mappings = new] /\ live' = [live EXCEPT !.unmapped = gone] /\ LiveCall
      BY <2>2 DEF Unmap
    <3>2. new \subseteq db.mappings /\ \A m \in db.mappings : m \in new \/ m[2] \in gone OBVIOUS
    <3>4. live.unmapped \subseteq gone /\ gone \subseteq live.unmapped \cup {n} OBVIOUS
    <3> HIDE DEF new, gone
    <3>3. live' = [live EXCEPT !.mappings = live.mappings, !.unmapped = gone] BY <3>1, LiveRecords
    <3> QED BY <3>1, <3>2, <3>3, <3>4
  <2> QED BY <2>1, <2>2
<1>2. /\ db' = [note |-> db.note, nodes |-> db.nodes, edges |-> db.edges, mappings |-> new]
      /\ live' = [left |-> live.left, unmapped |-> gone, nodes |-> live.nodes, edges |-> live.edges,
                  mappings |-> added]
  BY <1>1, LiveRecords
<1>3. /\ db'.note = db.note /\ db'.nodes = db.nodes /\ db'.edges = db.edges /\ db'.mappings = new
      /\ live'.left = live.left /\ live'.unmapped = gone /\ live'.nodes = live.nodes
      /\ live'.edges = live.edges /\ live'.mappings = added
  BY <1>2
<1>4. /\ db' = [note |-> db'.note, nodes |-> db'.nodes, edges |-> db'.edges, mappings |-> db'.mappings]
      /\ live' = [left |-> live'.left, unmapped |-> live'.unmapped, nodes |-> live'.nodes,
                  edges |-> live'.edges, mappings |-> live'.mappings]
  BY <1>2, <1>3
<1> QED BY <1>1, <1>3, <1>4, LiveRecords, LiveStep

\* The invariant of the migration holds throughout.
LEMMA MigrationInductive == MigrationSpec => []MigrationInv
<1>1. MigrationInit => MigrationInv
  <2> SUFFICES ASSUME MigrationInit PROVE MigrationInv OBVIOUS
  <2>1. /\ db = [note |-> [n \in MNote |-> NoContent], nodes |-> {}, edges |-> {}, mappings |-> {}]
        /\ script = Unrun /\ old \in OldFiles /\ live = Inactive
        /\ migrations = 0 /\ writeErrors = 0 /\ saves = 0
    BY DEF MigrationInit
  <2>2. /\ db = [note |-> db.note, nodes |-> db.nodes, edges |-> db.edges, mappings |-> db.mappings]
        /\ db.note = [n \in MNote |-> NoContent] /\ db.nodes = {} /\ db.edges = {} /\ db.mappings = {}
    BY <2>1
  <2>3. /\ script = [at |-> script.at, dry |-> script.dry, line |-> script.line, lookup |-> script.lookup,
                     whole |-> script.whole]
        /\ script.at = "idle" /\ script.line = 1 /\ script.lookup = <<>>
    BY <2>1, UnrunFields
  <2>4. migrations \in 0..MaxMigrations /\ writeErrors \in 0..MaxWriteErrors /\ saves \in 0..MaxSaves
    BY <2>1, MigrationBounds
  <2>13. /\ live = [left |-> live.left, unmapped |-> live.unmapped, nodes |-> live.nodes, edges |-> live.edges,
                    mappings |-> live.mappings]
         /\ live.left \in [MNote -> MContent \cup {NoContent, Untouched}]
         /\ live.unmapped \subseteq MNote /\ live.edges \subseteq LiveEdges
    BY <2>1 DEF Inactive
  <2>5. MigrationTypes BY <2>1, <2>2, <2>3, <2>4, <2>13 DEF MigrationTypes, ScriptStages
  <2>6. ASSUME NEW file \in FileNames, NEW i \in DOMAIN old[file] PROVE ~Passed(file, i)
    <3>1. i \in Nat /\ i >= 1 BY <2>1, FilesRead
    <3>2. script.at \notin AfterFile[file] BY <2>3 DEF AfterFile, FileNames
    <3> QED BY <2>3, <3>1, <3>2 DEF Passed, FileNames
  <2>7. /\ Wellformed("notes") \subseteq DOMAIN old["notes"] /\ Wellformed("nodes") \subseteq DOMAIN old["nodes"]
        /\ Wellformed("mappings") \subseteq DOMAIN old["mappings"]
    BY DEF Wellformed
  <2>8. DOMAIN script.lookup = {} BY <2>3
  <2>9. LookupInv BY <2>6, <2>7, <2>8 DEF LookupInv, FileNames
  <2>10. OnlyFromFiles BY <2>2 DEF OnlyFromFiles
  <2>11. NotesThere BY <2>6, <2>7 DEF NotesThere, FileNames
  <2>12. GraphThere BY <2>6, <2>7 DEF GraphThere, FileNames
  <2> QED BY <2>5, <2>9, <2>10, <2>11, <2>12 DEF MigrationInv
<1>2. MigrationInv /\ [MigrationNext]_migrationVars => MigrationInv'
  <2> SUFFICES ASSUME MigrationInv, [MigrationNext]_migrationVars PROVE MigrationInv' OBVIOUS
  <2>1. ASSUME NEW dry \in BOOLEAN, StartMigration(dry) PROVE MigrationInv' BY <2>1, StartStep
  <2>2. ASSUME NEW n \in MNote, NEW c \in MContent \cup {NoContent}, Save(n, c) PROVE MigrationInv'
    BY <2>2, SaveStep
  <2>3. CASE MigrateLine \/ EndOfFile \/ Kill BY <2>3, MigrateStep, EndOfFileStep, KillStep
  <2>5. ASSUME NEW kept \in BOOLEAN, WriteFails(kept) PROVE MigrationInv' BY <2>5, WriteFailsStep
  <2>6. ASSUME NEW e \in LiveEdges, LiveEdge(e) PROVE MigrationInv' BY <2>6, LiveEdgeStep
  <2>7. ASSUME NEW e \in LiveEdges, NEW n \in MNote, LiveMapping(e[1], n) PROVE MigrationInv'
    BY <2>7, LiveMappingStep
  <2>8. ASSUME NEW n \in MNote, Unmap(n) PROVE MigrationInv' BY <2>8, LiveMappingStep
  <2>4. CASE UNCHANGED migrationVars
    <3>1. MigrationTypes' BY <2>4 DEF migrationVars, MigrationInv, MigrationTypes
    <3>2. \A file, i : Passed(file, i)' <=> Passed(file, i) BY <2>4 DEF migrationVars, Passed
    <3> QED BY <2>4, <3>1, <3>2, SameThere DEF migrationVars
  <2> QED BY <2>1, <2>2, <2>3, <2>4, <2>5, <2>6, <2>7, <2>8 DEF MigrationNext, ScriptNext, LiveNext
<1> QED BY <1>1, <1>2, PTL DEF MigrationSpec

\* A run of the migration script that ends without an error of the database has put everything
\* readable there, whatever earlier runs left half done, but for what the application replaced,
\* deleted or unmapped meanwhile; and nothing is ever in the graph or the index but from the files
\* or the application (migrate_jsonl_to_sqlite.py:80): for any files, any number of runs and kills,
\* and any calls of the application.
THEOREM MigratedWholeCorrect == MigrationSpec => []MigratedWhole
<1>1. MigrationInv => MigratedWhole
  <2> SUFFICES ASSUME MigrationInv PROVE MigratedWhole OBVIOUS
  <2>1. ASSUME script.at = "done", script.whole
        PROVE /\ \A i \in Wellformed("notes") : LastLine(i) =>
                   db.note[old["notes"][i].id] \in {old["notes"][i].content, live.left[old["notes"][i].id]}
              /\ NodeEntities \subseteq db.nodes /\ FileEdges \subseteq db.edges
              /\ \A m \in FileMappings : m \in db.mappings \/ m[2] \in live.unmapped
    <3>1. \A file \in FileNames : \A i : Passed(file, i) BY <2>1 DEF Passed, AfterFile, FileNames
    <3>2. \A i \in Wellformed("notes") : LastLine(i) =>
            db.note[old["notes"][i].id] \in {old["notes"][i].content, live.left[old["notes"][i].id]}
      BY <2>1, <3>1 DEF MigrationInv, NotesThere, FileNames, LastLine
    <3>3. NodeEntities \subseteq db.nodes
      BY <2>1, <3>1 DEF MigrationInv, GraphThere, FileNames, NodeEntities
    <3>4. ASSUME NEW m \in FileMappings PROVE m \in db.mappings \/ m[2] \in live.unmapped
      <4>1. PICK i \in Wellformed("mappings") : m = <<old["mappings"][i].entity, old["mappings"][i].note>>
        BY DEF FileMappings
      <4>2. m[2] = old["mappings"][i].note BY <4>1
      <4> QED BY <2>1, <3>1, <4>1, <4>2 DEF MigrationInv, GraphThere, FileNames
    <3>5. \A i \in DOMAIN old["edges"] : Joined(i) => EdgeOfLine(i) \in db.edges
      BY <2>1, <3>1 DEF MigrationInv, GraphThere, FileNames
    <3>6. FileEdges \subseteq db.edges BY <3>5, FileEdgesAre
    <3> QED BY <3>2, <3>3, <3>4, <3>6
  <2> QED BY <2>1 DEF MigrationInv, OnlyFromFiles, MigratedWhole, NodeEntities
<1> QED BY <1>1, MigrationInductive, PTL

\* The tables have their types, and an edge never lacks the nodes it joins.
THEOREM MigrationTypeCorrect == MigrationSpec => []MigrationTypeOK
<1>1. MigrationInv => MigrationTypeOK
  BY DEF MigrationInv, MigrationTypes, OnlyFromFiles, MigrationTypeOK, ScriptStages, FileNames
<1> QED BY <1>1, MigrationInductive, PTL
=============================================================================
