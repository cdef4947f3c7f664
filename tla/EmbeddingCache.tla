---------------------------- MODULE EmbeddingCache ----------------------------
(***************************************************************************)
(* get_embedding: the cache is asked under its lock, a vector is computed  *)
(* without it, and before it is stored the cache is asked once more, since *)
(* fastembed, the HTTP server and the last resort give different vectors   *)
(* for one text.  SmartCache keeps an entry for Ttl and drops an oldest    *)
(* one when it has more than MaxEntries.                                   *)
(***************************************************************************)
EXTENDS Integers, FiniteSets

CONSTANTS EText, Embedder,      \* texts (the model is one per process), threads
          MaxEntries, Ttl, CleanupEvery,
          MaxInstant, MaxAsks       \* bounds of the search

ASSUME EmbeddingConstants == MaxEntries \in Nat \ {0} /\ Ttl \in Nat /\ CleanupEvery \in Nat
ASSUME EmbeddingBounds == EText # {} /\ MaxInstant \in Nat /\ MaxAsks \in Nat

VARIABLES entries,   \* _cache: one entry at most for a text
          cleaned,   \* _last_cleanup
          instant,
          asking,    \* the call of each thread
          era,       \* how often the entry of a text was dropped (history)
          asks
embeddingVars == <<entries, cleaned, instant, asking, era, asks>>

Sources == {"fastembed", "http", "mock"}
CacheEntry == [text : EText, vector : Sources, stamp : 0..MaxInstant]
Unasked == [at |-> "idle", text |-> CHOOSE x \in EText : TRUE, vector |-> "none", era |-> 0]

EmbeddingTypeOK ==
  /\ entries \subseteq CacheEntry /\ Cardinality(entries) <= MaxEntries
  /\ \A e, f \in entries : e.text = f.text => e = f
  /\ \A e \in entries : e.stamp <= instant
  /\ cleaned \in 0..instant /\ instant \in 0..MaxInstant
  /\ \A t \in Embedder : asking[t].at \in {"idle", "computing", "computed", "returned"}
  /\ era \in [EText -> Nat] /\ asks \in 0..MaxAsks

EmbeddingInit ==
  /\ entries = {} /\ cleaned = 0 /\ instant = 0
  /\ asking = [t \in Embedder |-> Unasked]
  /\ era = [x \in EText |-> 0] /\ asks = 0

-----------------------------------------------------------------------------
\* get(): first the periodic cleanup; an expired entry of the text goes.
Due == instant - cleaned > CleanupEvery
Swept == IF Due THEN {e \in entries : instant - e.stamp <= Ttl} ELSE entries
FreshFor(x) == {e \in Swept : e.text = x /\ instant - e.stamp < Ttl}
Others(x) == {e \in Swept : e.text # x}
Got(x) == IF FreshFor(x) # {} THEN Swept ELSE Others(x)

\* set(): one entry too many costs an oldest one, never the one that comes.
Oldest(c) == {e \in c : \A f \in c : e.stamp <= f.stamp}
Evictions(c) == IF Cardinality(c) < MaxEntries THEN {c} ELSE {c \ {e} : e \in Oldest(c)}

\* The cache becomes c; an entry is lost when it has expired or another text takes its place.
Lost(c) == {e.text : e \in {f \in entries \ c : instant - f.stamp >= Ttl \/ \A g \in c : g.text # f.text}}
CacheBecomes(c) ==
  /\ entries' = c
  /\ cleaned' = IF Due THEN instant ELSE cleaned
  /\ era' = [x \in EText |-> IF x \in Lost(c) THEN era[x] + 1 ELSE era[x]]

Answer(t, x, v) ==
  asking' = [asking EXCEPT ![t] = [at |-> "returned", text |-> x, vector |-> v, era |-> era'[x]]]

Ask(t, x) ==
  /\ asking[t].at \in {"idle", "returned"} /\ asks < MaxAsks
  /\ asks' = asks + 1
  /\ CacheBecomes(Got(x))
  /\ IF FreshFor(x) # {} THEN \E e \in FreshFor(x) : Answer(t, x, e.vector)
     ELSE asking' = [asking EXCEPT ![t] = [Unasked EXCEPT !.at = "computing", !.text = x]]
  /\ UNCHANGED instant

\* _compute_embedding: fastembed, or else HTTP, or else numbers from a hash of the text.
ComputeEmbedding(t) ==
  /\ asking[t].at = "computing"
  /\ \E source \in Sources : asking' = [asking EXCEPT ![t].at = "computed", ![t].vector = source]
  /\ UNCHANGED <<entries, cleaned, instant, era, asks>>

\* The vector that was computed enters the cache, and is the answer.
CacheVector(t, x) ==
  /\ \E c \in Evictions(Others(x)) :
       CacheBecomes(c \cup {[text |-> x, vector |-> asking[t].vector, stamp |-> instant]})
  /\ Answer(t, x, asking[t].vector)

\* Mutation of Keep: the cache is not asked again.
KeepUnasked(t) ==
  /\ asking[t].at = "computed"
  /\ CacheVector(t, asking[t].text)
  /\ UNCHANGED <<instant, asks>>

Keep(t) ==
  LET x == asking[t].text IN
  /\ asking[t].at = "computed"
  /\ IF FreshFor(x) # {} THEN CacheBecomes(Got(x)) /\ \E e \in FreshFor(x) : Answer(t, x, e.vector)
     ELSE CacheVector(t, x)
  /\ UNCHANGED <<instant, asks>>

Tick ==
  /\ instant < MaxInstant
  /\ instant' = instant + 1
  /\ UNCHANGED <<entries, cleaned, asking, era, asks>>

EmbeddingNext ==
  \/ \E t \in Embedder : ComputeEmbedding(t) \/ Keep(t) \/ \E x \in EText : Ask(t, x)
  \/ Tick

EmbeddingSpec == EmbeddingInit /\ [][EmbeddingNext]_embeddingVars

-----------------------------------------------------------------------------
\* Whatever source answered each of them, all threads that were given a vector for a text
\* between two losses of its entry were given the same one, so that notes and queries of that
\* time are compared in one space (vector_memory.py asks the cache again before it stores).
OneVectorPerEra ==
  \A t, u \in Embedder :
    (/\ asking[t].at = "returned" /\ asking[u].at = "returned"
     /\ asking[t].text = asking[u].text /\ asking[t].era = asking[u].era)
    => asking[t].vector = asking[u].vector
=============================================================================
