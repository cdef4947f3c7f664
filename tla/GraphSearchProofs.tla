--------------------------- MODULE GraphSearchProofs ---------------------------
(***************************************************************************)
(* The searches of the knowledge graph are exact: proofs.                  *)
(***************************************************************************)
EXTENDS GraphSearch, SequenceTheorems, FiniteSetTheorems, WellFoundedInduction, TLAPS

-----------------------------------------------------------------------------
(* Induction over numbers, with the property given as a set *)

\* A set of numbers with zero and the successor of each of its members has all of them.
LEMMA AllNumbers ==
  ASSUME NEW T, 0 \in T, \A n \in Nat : n \in T => n + 1 \in T
  PROVE Nat \subseteq T
<1> DEFINE R == OpToRel(<, Nat)
           D == Nat \ T
<1>1. SUFFICES ASSUME D # {} PROVE FALSE OBVIOUS
<1>2. IsWellFoundedOn(R, Nat) BY NatLessThanWellFounded
<1>3. PICK d \in D : \A e \in D : <<e, d>> \notin R
  <2>1. D \subseteq Nat OBVIOUS
  <2> HIDE DEF D, R
  <2> QED BY <1>1, <1>2, <2>1, WFMin
<1>4. d \in Nat /\ d # 0 /\ d - 1 \in Nat OBVIOUS
<1>5. d - 1 \notin T BY <1>4
<1>6. <<d - 1, d>> \in R BY <1>4 DEF OpToRel
<1> QED BY <1>3, <1>4, <1>5, <1>6

-----------------------------------------------------------------------------
(* Distance *)

Reached(E, S, n, f) == f = [i \in 0..n |-> IF i = 0 THEN S ELSE Step(E, f[i - 1])]

\* There is a layer for every distance.
LEMMA LayersExist ==
  ASSUME NEW E, NEW S, NEW n \in Nat
  PROVE \E f : Reached(E, S, n, f)
<1> DEFINE T == {k \in Nat : \E f : Reached(E, S, k, f)}
<1>1. 0 \in T
  <2>1. Reached(E, S, 0, [i \in 0..0 |-> S]) BY DEF Reached
  <2> QED BY <2>1
<1>2. ASSUME NEW k \in Nat, k \in T PROVE k + 1 \in T
  <2>1. PICK f : Reached(E, S, k, f) BY <1>2
  <2> DEFINE g == [i \in 0..k + 1 |-> IF i = 0 THEN S ELSE Step(E, f[i - 1])]
  <2>2. \A i \in 0..k : f[i] = IF i = 0 THEN S ELSE Step(E, f[i - 1]) BY <2>1 DEF Reached
  <2>3. \A i \in 0..k : g[i] = f[i] BY <2>2
  <2>4. \A i \in 0..k + 1 : i # 0 => i - 1 \in 0..k OBVIOUS
  <2>5. g = [i \in 0..k + 1 |-> IF i = 0 THEN S ELSE Step(E, g[i - 1])] BY <2>3, <2>4
  <2> HIDE DEF g
  <2>6. Reached(E, S, k + 1, g) BY <2>5 DEF Reached
  <2> QED BY <2>6
<1> HIDE DEF T
<1>3. Nat \subseteq T BY <1>1, <1>2, AllNumbers
<1> QED BY <1>3 DEF T

\* And one only.
LEMMA LayersAgree ==
  ASSUME NEW E, NEW S, NEW n \in Nat, NEW m \in Nat, n <= m, NEW f, NEW g,
         Reached(E, S, n, f), Reached(E, S, m, g)
  PROVE \A i \in 0..n : f[i] = g[i]
<1> DEFINE T == {k \in Nat : k <= n => f[k] = g[k]}
<1>1. \A i \in 0..n : f[i] = IF i = 0 THEN S ELSE Step(E, f[i - 1]) BY DEF Reached
<1>2. \A i \in 0..m : g[i] = IF i = 0 THEN S ELSE Step(E, g[i - 1]) BY DEF Reached
<1>3. 0 \in T BY <1>1, <1>2
<1>4. ASSUME NEW k \in Nat, k \in T PROVE k + 1 \in T BY <1>1, <1>2, <1>4
<1> HIDE DEF T
<1>5. Nat \subseteq T BY <1>3, <1>4, AllNumbers
<1> QED BY <1>5 DEF T

\* Within distance zero is the start itself, one more step adds the ends of the edges.
LEMMA WithinLayers ==
  ASSUME NEW E, NEW S, NEW n \in Nat
  PROVE /\ Within(E, S, 0) = S
        /\ Within(E, S, n + 1) = Step(E, Within(E, S, n))
<1> DEFINE L(k) == CHOOSE f : Reached(E, S, k, f)
<1>1. \A k \in Nat : Within(E, S, k) = L(k)[k] BY DEF Within, Reached
<1>2. ASSUME NEW k \in Nat PROVE Reached(E, S, k, L(k))
  <2>1. \E f : Reached(E, S, k, f) BY LayersExist
  <2> QED BY <2>1
<1> HIDE DEF L
<1>3. \A i \in 0..n : L(n)[i] = L(n + 1)[i]
  <2>1. n + 1 \in Nat /\ n <= n + 1 OBVIOUS
  <2> QED BY <1>2, <2>1, LayersAgree
<1>4. L(0)[0] = S BY <1>2 DEF Reached
<1>5. L(n + 1)[n + 1] = Step(E, L(n + 1)[n])
  <2>1. Reached(E, S, n + 1, L(n + 1)) BY <1>2
  <2>2. n + 1 \in 0..n + 1 /\ n + 1 # 0 /\ (n + 1) - 1 = n OBVIOUS
  <2> HIDE DEF L
  <2>3. L(n + 1)[n + 1] = IF n + 1 = 0 THEN S ELSE Step(E, L(n + 1)[(n + 1) - 1]) BY <2>1, <2>2 DEF Reached
  <2> QED BY <2>2, <2>3
<1>6. L(n)[n] = L(n + 1)[n] BY <1>3
<1> QED BY <1>1, <1>4, <1>5, <1>6

LEMMA WithinZero == ASSUME NEW E, NEW S PROVE Within(E, S, 0) = S
BY WithinLayers, 0 \in Nat

\* One more step.
LEMMA WithinNext ==
  ASSUME NEW E, NEW S, NEW n \in Nat
  PROVE \A v : v \in Within(E, S, n + 1) <=>
                 \/ v \in Within(E, S, n)
                 \/ \E e \in E : e[1] \in Within(E, S, n) /\ e[2] = v
BY WithinLayers DEF Step

\* More edges, more starts and more steps reach more.
LEMMA WithinMonotone ==
  ASSUME NEW E, NEW F, E \subseteq F, NEW S, NEW Q, S \subseteq Q, NEW n \in Nat
  PROVE Within(E, S, n) \subseteq Within(F, Q, n)
<1> DEFINE T == {k \in Nat : Within(E, S, k) \subseteq Within(F, Q, k)}
<1>1. 0 \in T BY WithinZero
<1>2. ASSUME NEW k \in Nat, k \in T PROVE k + 1 \in T
  <2>1. \A v \in Within(E, S, k + 1) : v \in Within(F, Q, k + 1) BY <1>2, WithinNext
  <2> QED BY <2>1
<1> HIDE DEF T
<1>3. Nat \subseteq T BY <1>1, <1>2, AllNumbers
<1> QED BY <1>3 DEF T

\* More steps reach more.
LEMMA WithinFurther ==
  ASSUME NEW E, NEW S, NEW n \in Nat, NEW m \in Nat, n <= m
  PROVE Within(E, S, n) \subseteq Within(E, S, m)
<1> DEFINE T == {k \in Nat : Within(E, S, n) \subseteq Within(E, S, n + k)}
<1>1. 0 \in T
  <2>1. n + 0 = n OBVIOUS
  <2> QED BY <2>1
<1>2. ASSUME NEW k \in Nat, k \in T PROVE k + 1 \in T
  <2>1. n + k \in Nat /\ n + (k + 1) = (n + k) + 1 OBVIOUS
  <2>2. Within(E, S, n + k) \subseteq Within(E, S, (n + k) + 1) BY <2>1, WithinNext
  <2> QED BY <1>2, <2>1, <2>2
<1> HIDE DEF T
<1>3. Nat \subseteq T BY <1>1, <1>2, AllNumbers
<1>4. m - n \in Nat /\ n + (m - n) = m OBVIOUS
<1>5. m - n \in T BY <1>3, <1>4
<1> QED BY <1>4, <1>5 DEF T

\* What several starts reach, one of them reaches.
LEMMA WithinSomeStart ==
  ASSUME NEW E, NEW S, NEW n \in Nat
  PROVE \A v \in Within(E, S, n) : \E s \in S : v \in Within(E, {s}, n)
<1> DEFINE T == {k \in Nat : \A v \in Within(E, S, k) : \E s \in S : v \in Within(E, {s}, k)}
<1>1. 0 \in T BY WithinZero
<1>2. ASSUME NEW k \in Nat, k \in T PROVE k + 1 \in T
  <2>1. ASSUME NEW v \in Within(E, S, k + 1) PROVE \E s \in S : v \in Within(E, {s}, k + 1)
    <3>1. ASSUME v \in Within(E, S, k) PROVE \E s \in S : v \in Within(E, {s}, k + 1)
      <4>1. PICK s \in S : v \in Within(E, {s}, k) BY <1>2, <3>1
      <4>2. v \in Within(E, {s}, k + 1) BY <4>1, WithinNext
      <4> QED BY <4>2
    <3>2. ASSUME NEW e \in E, e[1] \in Within(E, S, k), e[2] = v PROVE \E s \in S : v \in Within(E, {s}, k + 1)
      <4>1. PICK s \in S : e[1] \in Within(E, {s}, k) BY <1>2, <3>2
      <4>2. v \in Within(E, {s}, k + 1) BY <4>1, <3>2, WithinNext
      <4> QED BY <4>2
    <3>3. v \in Within(E, S, k) \/ \E e \in E : e[1] \in Within(E, S, k) /\ e[2] = v BY <2>1, WithinNext
    <3> QED BY <3>1, <3>2, <3>3
  <2> QED BY <2>1
<1> HIDE DEF T
<1>3. Nat \subseteq T BY <1>1, <1>2, AllNumbers
<1> QED BY <1>3 DEF T

-----------------------------------------------------------------------------
(* Sequences of a set, queues *)

\* SetToSeq lists every member of a finite set once.
LEMMA SetToSeqLists ==
  ASSUME NEW S, IsFiniteSet(S)
  PROVE /\ SetToSeq(S) \in Seq(S) /\ ToSet(SetToSeq(S)) = S
        /\ IsInjective(SetToSeq(S))
<1> DEFINE n == Cardinality(S)
           Listing == {f \in [1..n -> S] : IsInjective(f)}
<1>1. n \in Nat /\ ExistsBijection(1..n, S) BY FS_CardinalityType
<1>2. PICK b \in [1..n -> S] : IsInjective(b)
  <2>1. PICK b : b \in Bijection(1..n, S) BY <1>1 DEF ExistsBijection
  <2>2. b \in Injection(1..n, S) BY <2>1 DEF Bijection
  <2> HIDE DEF n
  <2> QED BY <2>2 DEF Injection
<1>3. SetToSeq(S) \in [1..n -> S] /\ IsInjective(SetToSeq(S))
  <2>1. \E f \in [1..n -> S] : IsInjective(f) BY <1>2
  <2> QED BY <2>1 DEF SetToSeq
<1>4. SetToSeq(S) \in Surjection(1..n, S)
  <2>1. SetToSeq(S) \in Injection(1..n, S) BY <1>3 DEF Injection
  <2>2. Cardinality(1..n) = n
    <3>1. 1 \in Int /\ n \in Int BY <1>1
    <3>2. Cardinality(1..n) = IF 1 > n THEN 0 ELSE n - 1 + 1 BY <3>1, FS_Interval
    <3> HIDE DEF n
    <3> QED BY <1>1, <3>2
  <2> QED BY <2>1, <2>2, FS_Injection
<1>5. \A y \in S : \E i \in 1..n : SetToSeq(S)[i] = y BY <1>4 DEF Surjection
<1>6. DOMAIN SetToSeq(S) = 1..n BY <1>3
<1> HIDE DEF n
<1>7. SetToSeq(S) \in Seq(S) BY <1>1, <1>3
<1> QED BY <1>3, <1>5, <1>6, <1>7 DEF ToSet

\* The entries of a sequence are those of its parts.
LEMMA ConcatEntries ==
  ASSUME NEW A, NEW s \in Seq(A), NEW t \in Seq(A)
  PROVE /\ s \o t \in Seq(A) /\ Len(s \o t) = Len(s) + Len(t) /\ DOMAIN (s \o t) = 1..Len(s) + Len(t)
        /\ \A i \in DOMAIN s : (s \o t)[i] = s[i]
        /\ \A i \in DOMAIN t : Len(s) + i \in DOMAIN (s \o t) /\ (s \o t)[Len(s) + i] = t[i]
        /\ \A i \in DOMAIN (s \o t) : i \in DOMAIN s \/ (i - Len(s) \in DOMAIN t /\ (s \o t)[i] = t[i - Len(s)])
        /\ ToSet(s \o t) = ToSet(s) \cup ToSet(t)
<1>1. Len(s) \in Nat /\ Len(t) \in Nat /\ DOMAIN s = 1..Len(s) /\ DOMAIN t = 1..Len(t) OBVIOUS
<1>2. s \o t \in Seq(A) /\ Len(s \o t) = Len(s) + Len(t) OBVIOUS
<1>3. DOMAIN (s \o t) = 1..Len(s) + Len(t) BY <1>2
<1>4. \A i \in 1..Len(s) + Len(t) : (s \o t)[i] = IF i <= Len(s) THEN s[i] ELSE t[i - Len(s)] BY <1>1
<1>5. \A i \in DOMAIN s : i \in 1..Len(s) + Len(t) /\ (s \o t)[i] = s[i] BY <1>1, <1>4
<1>6. \A i \in DOMAIN t : Len(s) + i \in DOMAIN (s \o t) /\ (s \o t)[Len(s) + i] = t[i] BY <1>1, <1>3, <1>4
<1>7. \A i \in DOMAIN (s \o t) : i \in DOMAIN s \/ (i - Len(s) \in DOMAIN t /\ (s \o t)[i] = t[i - Len(s)])
  BY <1>1, <1>3, <1>4
<1>8. ToSet(s \o t) = ToSet(s) \cup ToSet(t)
  <2> DEFINE r == s \o t
  <2>1. \A i \in DOMAIN s : i \in DOMAIN r /\ r[i] = s[i] BY <1>3, <1>5
  <2>2. \A i \in DOMAIN t : \E j \in DOMAIN r : r[j] = t[i] BY <1>6
  <2>3. \A i \in DOMAIN r : (i \in DOMAIN s /\ r[i] = s[i]) \/ \E j \in DOMAIN t : r[i] = t[j] BY <1>5, <1>7
  <2> HIDE DEF r
  <2>4. ToSet(r) = ToSet(s) \cup ToSet(t) BY <2>1, <2>2, <2>3 DEF ToSet
  <2> QED BY <2>4 DEF r
<1> QED BY <1>2, <1>3, <1>5, <1>6, <1>7, <1>8

\* And of one entry more.
LEMMA AppendEntries ==
  ASSUME NEW A, NEW s \in Seq(A), NEW x \in A
  PROVE /\ Append(s, x) \in Seq(A) /\ Len(Append(s, x)) = Len(s) + 1 /\ DOMAIN Append(s, x) = 1..Len(s) + 1
        /\ \A i \in DOMAIN s : Append(s, x)[i] = s[i]
        /\ Append(s, x)[Len(s) + 1] = x
        /\ ToSet(Append(s, x)) = ToSet(s) \cup {x}
<1>1. Append(s, x) \in Seq(A) /\ Len(Append(s, x)) = Len(s) + 1 /\ Len(s) \in Nat OBVIOUS
<1>2. DOMAIN Append(s, x) = 1..Len(s) + 1 BY <1>1
<1>3. \A i \in DOMAIN s : i \in DOMAIN Append(s, x) /\ Append(s, x)[i] = s[i] OBVIOUS
<1>4. Append(s, x)[Len(s) + 1] = x OBVIOUS
<1>5. \A i \in DOMAIN Append(s, x) : i \in DOMAIN s \/ i = Len(s) + 1 BY <1>1, <1>2
<1>6. Len(s) + 1 \in DOMAIN Append(s, x) BY <1>1, <1>2
<1> QED BY <1>1, <1>2, <1>3, <1>4, <1>5, <1>6 DEF ToSet

\* Entry i of the tail of a sequence is entry i + 1 of the sequence.
LEMMA TailEntries ==
  ASSUME NEW A, NEW s \in Seq(A), s # <<>>
  PROVE /\ Tail(s) \in Seq(A) /\ Len(Tail(s)) = Len(s) - 1 /\ Head(s) = s[1] /\ 1 \in DOMAIN s
        /\ \A i \in DOMAIN Tail(s) : i + 1 \in DOMAIN s /\ Tail(s)[i] = s[i + 1]
        /\ \A i \in DOMAIN s : i = 1 \/ (i - 1 \in DOMAIN Tail(s) /\ Tail(s)[i - 1] = s[i])
        /\ ToSet(Tail(s)) \subseteq ToSet(s)
<1>1. Tail(s) \in Seq(A) /\ Len(Tail(s)) = Len(s) - 1 /\ Len(s) \in Nat \ {0} /\ Head(s) = s[1] BY HeadTailProperties
<1>2. DOMAIN Tail(s) = 1..Len(s) - 1 /\ DOMAIN s = 1..Len(s) BY <1>1
<1>3. \A i \in 1..Len(s) - 1 : Tail(s)[i] = s[i + 1] BY <1>1
<1>4. \A i \in DOMAIN Tail(s) : i + 1 \in DOMAIN s /\ Tail(s)[i] = s[i + 1] BY <1>1, <1>2, <1>3
<1> QED BY <1>1, <1>2, <1>3, <1>4 DEF ToSet

-----------------------------------------------------------------------------
(* Breadth first search *)

\* Nodes at their depths wait in the queue in order of depth, at most one apart.
Ordered(queue) ==
  /\ \A i, j \in DOMAIN queue : i <= j => queue[i][2] <= queue[j][2]
  /\ \A i, j \in DOMAIN queue : queue[j][2] <= queue[i][2] + 1

\* Node v waits at depth d or less.
Waits(queue, v, d) == \E i \in DOMAIN queue : queue[i][1] = v /\ queue[i][2] <= d

\* A search from s under way: the edges E were there when it began, F are there now; every node
\* of V was visited at the depth that dep gives, and whatever E leads to from one of them within
\* D has been visited no deeper than one further, or waits there.
Bfs(E, F, s, D, queue, V, dep) ==
  /\ queue \in Seq(Vertex \X Nat) /\ dep \in [V -> Nat] /\ V \subseteq Vertex
  /\ Ordered(queue)
  /\ \A x \in V, i \in DOMAIN queue : dep[x] <= queue[i][2]
  /\ \A x \in V, y \in Vertex : dep[x] < D /\ <<x, y>> \in E =>
       (y \in V /\ dep[y] <= dep[x] + 1) \/ Waits(queue, y, dep[x] + 1)
  /\ (s \in V /\ dep[s] = 0) \/ Waits(queue, s, 0)
  /\ \A i \in DOMAIN queue : queue[i][1] \in Within(F, {s}, queue[i][2])
  /\ \A x \in V : x \in Within(F, {s}, dep[x])

\* The start waits at depth zero.
LEMMA BfsStarts ==
  ASSUME NEW E, NEW F, NEW D \in Nat, NEW s \in Vertex
  PROVE Bfs(E, F, s, D, <<<<s, 0>>>>, {}, [x \in {} |-> 0])
<1> DEFINE q == <<<<s, 0>>>>
<1>1. q \in Seq(Vertex \X Nat) /\ DOMAIN q = {1} /\ q[1][1] = s /\ q[1][2] = 0 OBVIOUS
<1>2. [x \in {} |-> 0] \in [{} -> Nat] OBVIOUS
<1> HIDE DEF q
<1>3. Ordered(q) BY <1>1 DEF Ordered
<1>4. Waits(q, s, 0) BY <1>1 DEF Waits
<1>5. s \in Within(F, {s}, 0) BY WithinZero
<1>6. \A i \in DOMAIN q : q[i][1] \in Within(F, {s}, q[i][2]) BY <1>1, <1>5
<1>7. Bfs(E, F, s, D, q, {}, [x \in {} |-> 0]) BY <1>1, <1>2, <1>3, <1>4, <1>6 DEF Bfs
<1> QED BY <1>7 DEF q

\* An edge that is added leads nowhere that was not reached.
LEMMA BfsGrows ==
  ASSUME NEW E, NEW F, NEW G, F \subseteq G, NEW s, NEW D, NEW queue, NEW V, NEW dep,
         Bfs(E, F, s, D, queue, V, dep)
  PROVE Bfs(E, G, s, D, queue, V, dep)
<1>1. \A n \in Nat : Within(F, {s}, n) \subseteq Within(G, {s}, n) BY WithinMonotone
<1>2. queue \in Seq(Vertex \X Nat) /\ dep \in [V -> Nat] BY DEF Bfs
<1>3. \A i \in DOMAIN queue : queue[i][2] \in Nat
  <2>1. \A i \in DOMAIN queue : queue[i] \in Vertex \X Nat BY <1>2
  <2> QED BY <2>1
<1>4. \A i \in DOMAIN queue : queue[i][1] \in Within(G, {s}, queue[i][2]) BY <1>1, <1>3 DEF Bfs
<1>5. \A x \in V : x \in Within(G, {s}, dep[x]) BY <1>1, <1>2 DEF Bfs
<1> QED BY <1>4, <1>5 DEF Bfs

\* The entries of a queue are nodes with their depths.
LEMMA QueueEntries ==
  ASSUME NEW queue \in Seq(Vertex \X Nat)
  PROVE \A i \in DOMAIN queue : queue[i][1] \in Vertex /\ queue[i][2] \in Nat
<1>1. \A i \in DOMAIN queue : queue[i] \in Vertex \X Nat OBVIOUS
<1> QED BY <1>1

\* A node that is taken from the queue and dropped had been visited, or lies too deep.
LEMMA BfsDrops ==
  ASSUME NEW E, NEW F, NEW s, NEW D \in Nat, NEW queue, NEW V, NEW dep,
         Bfs(E, F, s, D, queue, V, dep), queue # <<>>,
         queue[1][1] \in V \/ queue[1][2] > D
  PROVE Bfs(E, F, s, D, Tail(queue), V, dep)
<1> DEFINE t == Tail(queue)
<1>1. queue \in Seq(Vertex \X Nat) /\ dep \in [V -> Nat] /\ V \subseteq Vertex BY DEF Bfs
<1>2. /\ t \in Seq(Vertex \X Nat) /\ 1 \in DOMAIN queue
      /\ \A i \in DOMAIN t : i + 1 \in DOMAIN queue /\ t[i] = queue[i + 1]
      /\ \A i \in DOMAIN queue : i = 1 \/ (i - 1 \in DOMAIN t /\ t[i - 1] = queue[i])
  BY <1>1, TailEntries
<1>3. DOMAIN t \subseteq Nat /\ DOMAIN queue \subseteq Nat
  <2>1. DOMAIN t = 1..Len(t) /\ DOMAIN queue = 1..Len(queue) BY <1>1, <1>2
  <2> QED BY <2>1
<1> HIDE DEF t
<1>4. Ordered(t)
  <2>1. Ordered(queue) BY DEF Bfs
  <2>2. ASSUME NEW i \in DOMAIN t, NEW j \in DOMAIN t PROVE i <= j => t[i][2] <= t[j][2]
    <3>1. i <= j => i + 1 <= j + 1 BY <1>3
    <3> QED BY <1>2, <2>1, <3>1 DEF Ordered
  <2>3. ASSUME NEW i \in DOMAIN t, NEW j \in DOMAIN t PROVE t[j][2] <= t[i][2] + 1 BY <1>2, <2>1 DEF Ordered
  <2> QED BY <2>2, <2>3 DEF Ordered
<1>5. \A y, d : Waits(queue, y, d) => Waits(t, y, d) \/ (y = queue[1][1] /\ queue[1][2] <= d) BY <1>2 DEF Waits
<1>6. \A x \in V : dep[x] \in Nat /\ dep[x] <= queue[1][2] /\ queue[1][2] \in Nat
  BY <1>1, <1>2, QueueEntries DEF Bfs
<1>7. ASSUME NEW x \in V, NEW y \in Vertex, dep[x] < D, <<x, y>> \in E
      PROVE (y \in V /\ dep[y] <= dep[x] + 1) \/ Waits(t, y, dep[x] + 1)
  <2>1. (y \in V /\ dep[y] <= dep[x] + 1) \/ Waits(queue, y, dep[x] + 1) BY <1>7 DEF Bfs
  <2>2. ASSUME y = queue[1][1], queue[1][2] <= dep[x] + 1 PROVE y \in V /\ dep[y] <= dep[x] + 1
    <3>1. queue[1][2] <= D BY <1>6, <1>7, <2>2
    <3>2. y \in V BY <1>6, <2>2, <3>1
    <3> QED BY <1>6, <2>2, <3>2
  <2> QED BY <1>5, <2>1, <2>2
<1>8. (s \in V /\ dep[s] = 0) \/ Waits(t, s, 0)
  <2>1. (s \in V /\ dep[s] = 0) \/ Waits(queue, s, 0) BY DEF Bfs
  <2>2. ASSUME s = queue[1][1], queue[1][2] <= 0 PROVE s \in V /\ dep[s] = 0
    <3>0. queue[1][2] \in Nat BY <1>1, <1>2, QueueEntries
    <3>1. s \in V BY <2>2, <3>0
    <3>2. dep[s] \in Nat /\ dep[s] <= 0 BY <1>6, <2>2, <3>0, <3>1
    <3> QED BY <3>1, <3>2
  <2> QED BY <1>5, <2>1, <2>2
<1>9. \A x \in V, i \in DOMAIN t : dep[x] <= t[i][2] BY <1>2 DEF Bfs
<1>10. \A i \in DOMAIN t : t[i][1] \in Within(F, {s}, t[i][2]) BY <1>2 DEF Bfs
<1>11. Bfs(E, F, s, D, t, V, dep)
  <2>1. \A x \in V : x \in Within(F, {s}, dep[x]) BY DEF Bfs
  <2> QED BY <1>1, <1>2, <1>4, <1>7, <1>8, <1>9, <1>10, <2>1 DEF Bfs
<1> QED BY <1>11 DEF t

\* The node v at the head of the queue, at depth d, is visited, and r is put at the end: edges of F
\* lead from v to its entries, and every edge of E from v, below the limit, to one of them.
Visits(E, F, D, queue, V, v, d, r) ==
  /\ queue # <<>> /\ v = queue[1][1] /\ d = queue[1][2] /\ v \notin V
  /\ r \in Seq(Vertex \X Nat)
  /\ \A k \in DOMAIN r : r[k][2] = d + 1 /\ <<v, r[k][1]>> \in F
  /\ d < D => \A y \in Vertex : <<v, y>> \in E => y \in V \/ y = v \/ \E k \in DOMAIN r : r[k][1] = y

\* A node that is taken from the queue and visited leaves its neighbors, one deeper, at the end.
LEMMA BfsVisits ==
  ASSUME NEW E, NEW F, NEW s, NEW D \in Nat, NEW queue, NEW V, NEW dep, NEW v, NEW d, NEW r,
         Bfs(E, F, s, D, queue, V, dep), Visits(E, F, D, queue, V, v, d, r),
         NEW W, W = V \cup {v}, NEW dp, dp = [x \in W |-> IF x = v THEN d ELSE dep[x]]
  PROVE Bfs(E, F, s, D, Tail(queue) \o r, W, dp)
<1> DEFINE t == Tail(queue)
           q == t \o r
<1>0. /\ queue # <<>> /\ v = queue[1][1] /\ d = queue[1][2] /\ v \notin V
      /\ r \in Seq(Vertex \X Nat)
      /\ \A k \in DOMAIN r : r[k][2] = d + 1 /\ <<v, r[k][1]>> \in F
      /\ d < D => \A y \in Vertex : <<v, y>> \in E => y \in V \/ y = v \/ \E k \in DOMAIN r : r[k][1] = y
  BY DEF Visits
<1> USE <1>0
<1>1. queue \in Seq(Vertex \X Nat) /\ dep \in [V -> Nat] /\ V \subseteq Vertex BY DEF Bfs
<1>2. /\ t \in Seq(Vertex \X Nat) /\ 1 \in DOMAIN queue
      /\ \A i \in DOMAIN t : i + 1 \in DOMAIN queue /\ t[i] = queue[i + 1]
      /\ \A i \in DOMAIN queue : i = 1 \/ (i - 1 \in DOMAIN t /\ t[i - 1] = queue[i])
  BY <1>1, TailEntries
<1>3. /\ DOMAIN t = 1..Len(t) /\ DOMAIN r = 1..Len(r) /\ DOMAIN queue = 1..Len(queue)
      /\ Len(t) \in Nat /\ Len(r) \in Nat /\ Len(queue) \in Nat
  BY <1>1, <1>2
<1>4. v \in Vertex /\ d \in Nat BY <1>1, <1>2, QueueEntries
<1>5. /\ q \in Seq(Vertex \X Nat) /\ DOMAIN q = 1..Len(t) + Len(r)
      /\ \A i \in DOMAIN t : i \in DOMAIN q /\ q[i] = t[i]
      /\ \A i \in DOMAIN r : Len(t) + i \in DOMAIN q /\ q[Len(t) + i] = r[i]
      /\ \A i \in DOMAIN q : i \in DOMAIN t \/ (i - Len(t) \in DOMAIN r /\ q[i] = r[i - Len(t)])
  <2> HIDE DEF t
  <2> QED BY <1>2, <1>3, ConcatEntries
<1> HIDE DEF t, q
<1>6. /\ W \subseteq Vertex /\ v \in W /\ dp[v] = d /\ dp \in [W -> Nat]
      /\ \A x \in V : x \in W /\ x # v /\ dp[x] = dep[x]
      /\ \A x \in W : x = v \/ x \in V
  BY <1>1, <1>4
<1>7. \A i \in DOMAIN queue : queue[i][2] \in Nat /\ d <= queue[i][2] /\ queue[i][2] <= d + 1
  <2>1. Ordered(queue) BY DEF Bfs
  <2>2. \A i \in DOMAIN queue : 1 <= i BY <1>3
  <2>3. \A i \in DOMAIN queue : queue[i][2] \in Nat BY <1>1, QueueEntries
  <2> QED BY <1>2, <2>1, <2>2, <2>3 DEF Ordered
<1>8. \A i \in DOMAIN q : q[i][2] \in Nat /\ d <= q[i][2] /\ q[i][2] <= d + 1
  <2>1. \A i \in DOMAIN r : r[i][2] = d + 1 OBVIOUS
  <2>2. ASSUME NEW i \in DOMAIN q PROVE q[i][2] \in Nat /\ d <= q[i][2] /\ q[i][2] <= d + 1
    <3>1. CASE i \in DOMAIN t
      <4>1. q[i] = queue[i + 1] /\ i + 1 \in DOMAIN queue BY <1>2, <1>5, <3>1
      <4> QED BY <1>7, <4>1
    <3>2. CASE i - Len(t) \in DOMAIN r /\ q[i] = r[i - Len(t)] BY <1>4, <2>1, <3>2
    <3> QED BY <1>5, <2>2, <3>1, <3>2
  <2> QED BY <2>2
<1>9. Ordered(q)
  <2>1. Ordered(queue) BY DEF Bfs
  <2>2. ASSUME NEW i \in DOMAIN q, NEW j \in DOMAIN q, i <= j PROVE q[i][2] <= q[j][2]
    <3>1. CASE j \in DOMAIN t
      <4>1. i \in Nat /\ j \in Nat /\ i \in DOMAIN t BY <1>3, <1>5, <2>2, <3>1
      <4>2. i + 1 <= j + 1 BY <2>2, <4>1
      <4>3. q[i] = queue[i + 1] /\ q[j] = queue[j + 1] /\ i + 1 \in DOMAIN queue /\ j + 1 \in DOMAIN queue
        BY <1>2, <1>5, <3>1, <4>1
      <4> QED BY <2>1, <4>2, <4>3 DEF Ordered
    <3>2. CASE j \notin DOMAIN t
      <4>1. j - Len(t) \in DOMAIN r /\ q[j] = r[j - Len(t)] BY <1>5, <2>2, <3>2
      <4>2. q[j][2] = d + 1 BY <4>1
      <4> QED BY <1>4, <1>8, <2>2, <4>2
    <3> QED BY <3>1, <3>2
  <2>3. \A i, j \in DOMAIN q : q[j][2] <= q[i][2] + 1 BY <1>4, <1>8
  <2> QED BY <2>2, <2>3 DEF Ordered
<1>10. \A x \in V : dep[x] \in Nat /\ dep[x] <= d BY <1>1, <1>2 DEF Bfs
<1>11. \A x \in W, i \in DOMAIN q : dp[x] <= q[i][2] BY <1>4, <1>6, <1>8, <1>10
<1>12. \A y, e : Waits(queue, y, e) => Waits(q, y, e) \/ (y = v /\ d <= e)
  BY <1>2, <1>5 DEF Waits
<1>13. ASSUME NEW x \in W, NEW y \in Vertex, dp[x] < D, <<x, y>> \in E
       PROVE (y \in W /\ dp[y] <= dp[x] + 1) \/ Waits(q, y, dp[x] + 1)
  <2>1. CASE x = v
    <3>1. dp[x] = d /\ d < D BY <1>6, <1>13, <2>1
    <3>2. y \in V \/ y = v \/ \E k \in DOMAIN r : r[k][1] = y BY <1>13, <2>1, <3>1
    <3>3. CASE y \in V BY <1>4, <1>6, <1>10, <3>1, <3>3
    <3>4. CASE y = v BY <1>4, <1>6, <3>1, <3>4
    <3>5. ASSUME NEW k \in DOMAIN r, r[k][1] = y PROVE Waits(q, y, dp[x] + 1)
      <4>1. Len(t) + k \in DOMAIN q /\ q[Len(t) + k] = r[k] /\ r[k][2] = d + 1 BY <1>5, <3>5
      <4>2. q[Len(t) + k][1] = y /\ q[Len(t) + k][2] <= dp[x] + 1 BY <1>4, <3>1, <3>5, <4>1
      <4> QED BY <4>1, <4>2 DEF Waits
    <3> QED BY <3>2, <3>3, <3>4, <3>5
  <2>2. CASE x \in V
    <3>1. dp[x] = dep[x] BY <1>6, <2>2
    <3>2. (y \in V /\ dep[y] <= dep[x] + 1) \/ Waits(queue, y, dep[x] + 1) BY <1>13, <2>2, <3>1 DEF Bfs
    <3>3. y \in V => y \in W /\ dp[y] = dep[y] BY <1>6
    <3>4. Waits(queue, y, dep[x] + 1) => Waits(q, y, dep[x] + 1) \/ (y = v /\ d <= dep[x] + 1) BY <1>12
    <3>5. v \in W /\ dp[v] = d BY <1>6
    <3> QED BY <3>1, <3>2, <3>3, <3>4, <3>5
  <2> QED BY <1>6, <1>13, <2>1, <2>2
<1>14. (s \in W /\ dp[s] = 0) \/ Waits(q, s, 0)
  <2>1. (s \in V /\ dep[s] = 0) \/ Waits(queue, s, 0) BY DEF Bfs
  <2>2. d <= 0 => d = 0 BY <1>4
  <2> QED BY <1>6, <1>12, <2>1, <2>2
<1>15. v \in Within(F, {s}, d) BY <1>2 DEF Bfs
<1>16. ASSUME NEW i \in DOMAIN q PROVE q[i][1] \in Within(F, {s}, q[i][2])
  <2>1. CASE i \in DOMAIN t
    <3>1. q[i] = queue[i + 1] /\ i + 1 \in DOMAIN queue BY <1>2, <1>5, <2>1
    <3> QED BY <3>1 DEF Bfs
  <2>2. ASSUME i - Len(t) \in DOMAIN r, q[i] = r[i - Len(t)] PROVE q[i][1] \in Within(F, {s}, q[i][2])
    <3>1. q[i][2] = d + 1 /\ <<v, q[i][1]>> \in F BY <2>2
    <3>2. q[i][1] \in Within(F, {s}, d + 1)
      <4>1. <<v, q[i][1]>>[1] = v /\ <<v, q[i][1]>>[2] = q[i][1] OBVIOUS
      <4>2. \E e \in F : e[1] \in Within(F, {s}, d) /\ e[2] = q[i][1] BY <1>15, <3>1, <4>1
      <4> QED BY <1>4, <4>2, WithinNext
    <3> QED BY <3>1, <3>2
  <2> QED BY <1>5, <1>16, <2>1, <2>2
<1>17. \A x \in W : x \in Within(F, {s}, dp[x])
  <2>1. \A x \in V : x \in Within(F, {s}, dep[x]) BY DEF Bfs
  <2> QED BY <1>6, <1>15, <2>1
<1>18. Bfs(E, F, s, D, q, W, dp) BY <1>5, <1>6, <1>9, <1>11, <1>13, <1>14, <1>16, <1>17 DEF Bfs
<1> QED BY <1>18 DEF q, t

\* Whatever is nearer than all that waits has been visited, no deeper than it lies.
LEMMA BfsReaches ==
  ASSUME NEW E \in SUBSET (Vertex \X Vertex), NEW F, NEW s, NEW D \in Nat, NEW queue, NEW V, NEW dep,
         Bfs(E, F, s, D, queue, V, dep), NEW m \in Nat, m <= D,
         \A i \in DOMAIN queue : m < queue[i][2]
  PROVE \A n \in 0..m : \A v \in Within(E, {s}, n) : v \in V /\ dep[v] <= n
<1> DEFINE T == {n \in Nat : n <= m => \A v \in Within(E, {s}, n) : v \in V /\ dep[v] <= n}
<1>1. queue \in Seq(Vertex \X Nat) /\ dep \in [V -> Nat] BY DEF Bfs
<1>2. \A i \in DOMAIN queue : queue[i][2] \in Nat BY <1>1, QueueEntries
<1>3. \A y : \A n \in 0..m : ~Waits(queue, y, n) BY <1>2 DEF Waits
<1>4. 0 \in T
  <2>1. s \in V /\ dep[s] = 0
    <3>1. ~Waits(queue, s, 0) BY <1>3
    <3> QED BY <3>1 DEF Bfs
  <2>2. Within(E, {s}, 0) = {s} BY WithinZero
  <2> QED BY <2>1, <2>2, SMTT(30)
<1>5. ASSUME NEW n \in Nat, n \in T PROVE n + 1 \in T
  <2>1. SUFFICES ASSUME n + 1 <= m, NEW v \in Within(E, {s}, n + 1) PROVE v \in V /\ dep[v] <= n + 1
    OBVIOUS
  <2>2. \A u \in Within(E, {s}, n) : u \in V /\ dep[u] \in Nat /\ dep[u] <= n
    <3>1. n <= m BY <2>1
    <3>2. \A u \in Within(E, {s}, n) : u \in V /\ dep[u] <= n BY <1>5, <3>1
    <3>3. \A u \in V : dep[u] \in Nat BY <1>1
    <3> QED BY <3>2, <3>3
  <2>3. ASSUME v \in Within(E, {s}, n) PROVE v \in V /\ dep[v] <= n + 1
    <3>1. v \in V /\ dep[v] \in Nat /\ dep[v] <= n BY <2>2, <2>3
    <3> QED BY <3>1
  <2>4. ASSUME NEW e \in E, e[1] \in Within(E, {s}, n), e[2] = v PROVE v \in V /\ dep[v] <= n + 1
    <3>1. e[1] \in V /\ dep[e[1]] \in Nat /\ dep[e[1]] <= n BY <2>2, <2>4
    <3>2. e = <<e[1], v>> /\ v \in Vertex BY <2>4
    <3>3. dep[e[1]] < D /\ dep[e[1]] + 1 \in 0..m BY <2>1, <3>1
    <3>4. (v \in V /\ dep[v] <= dep[e[1]] + 1) \/ Waits(queue, v, dep[e[1]] + 1)
      <4>1. <<e[1], v>> \in E BY <3>2
      <4> QED BY <3>1, <3>2, <3>3, <4>1 DEF Bfs
    <3>5. v \in V /\ dep[v] <= dep[e[1]] + 1 BY <1>3, <3>3, <3>4
    <3>6. dep[v] \in Nat BY <1>1, <3>5
    <3> QED BY <3>1, <3>5, <3>6
  <2>5. v \in Within(E, {s}, n) \/ \E e \in E : e[1] \in Within(E, {s}, n) /\ e[2] = v BY WithinNext
  <2> QED BY <2>3, <2>4, <2>5
<1> HIDE DEF T
<1>6. Nat \subseteq T BY <1>4, <1>5, AllNumbers
<1> QED BY <1>6 DEF T

-----------------------------------------------------------------------------
(* Types, and what each action does to the fields of the search *)

SearchRecord ==
  [kind : SearchKinds \cup {"none"}, depth : Nat, starts : Seq(Vertex), turn : Nat, queue : Seq(Vertex \X Nat),
   visited : Seq(Vertex), hops : [NoteNode -> Int], found : Seq(Seq(Vertex)),
   stack : Seq([node : Vertex, todo : SUBSET Vertex]), done : BOOLEAN]

Shaped ==
  /\ edges \in SUBSET PossibleEdges /\ before \in SUBSET edges
  /\ search \in SearchRecord
  /\ search.kind = "none" => search = Ready

\* The nodes and the edges are finite sets.
LEMMA FiniteGraph ==
  /\ \A S \in SUBSET Vertex : IsFiniteSet(S)
  /\ \A S \in SUBSET PossibleEdges : IsFiniteSet(S) /\ S \in SUBSET (Vertex \X Vertex)
<1>1. IsFiniteSet(Vertex) BY SearchConstants, FS_Union DEF Vertex
<1>2. IsFiniteSet(Vertex \X Vertex) BY <1>1, FS_Product
<1>3. PossibleEdges \subseteq Vertex \X Vertex BY SearchConstants DEF Vertex
<1>4. \A S \in SUBSET Vertex : IsFiniteSet(S) BY <1>1, FS_Subset
<1>5. \A S \in SUBSET (Vertex \X Vertex) : IsFiniteSet(S) BY <1>2, FS_Subset
<1> QED BY <1>3, <1>4, <1>5

\* The entries for a set of nodes: each of them once, all at one depth.
LEMMA AtDepthLists ==
  ASSUME NEW S \in SUBSET Vertex, NEW d \in Nat
  PROVE /\ AtDepth(S, d) \in Seq(Vertex \X Nat)
        /\ \A k \in DOMAIN AtDepth(S, d) : AtDepth(S, d)[k][1] \in S /\ AtDepth(S, d)[k][2] = d
        /\ \A x \in S : \E k \in DOMAIN AtDepth(S, d) : AtDepth(S, d)[k][1] = x
<1> DEFINE P == {<<x, d>> : x \in S}
           q == SetToSeq(P)
           f == [x \in S |-> <<x, d>>]
<1>1. IsFiniteSet(P)
  <2>1. f \in Surjection(S, P) BY DEF Surjection
  <2>2. IsFiniteSet(S) BY FiniteGraph
  <2> HIDE DEF f, P
  <2> QED BY <2>1, <2>2, FS_Surjection
<1>2. q \in Seq(P) /\ ToSet(q) = P
  <2> HIDE DEF P
  <2> QED BY <1>1, SetToSeqLists
<1>3. \A k \in DOMAIN q : q[k] \in P BY <1>2 DEF ToSet
<1>4. \A x \in S : \E k \in DOMAIN q : q[k] = <<x, d>>
  <2>1. \A x \in S : <<x, d>> \in P OBVIOUS
  <2> HIDE DEF P
  <2> QED BY <1>2, <2>1 DEF ToSet
<1>5. Seq(P) \subseteq Seq(Vertex \X Nat)
  <2>1. P \subseteq Vertex \X Nat OBVIOUS
  <2> HIDE DEF P
  <2> QED BY <2>1, SeqMonotonic
<1>6. AtDepth(S, d) = q BY DEF AtDepth
<1>7. \A k \in DOMAIN q : q[k][1] \in S /\ q[k][2] = d BY <1>3
<1>8. \A x \in S : \E k \in DOMAIN q : q[k][1] = x BY <1>4
<1> HIDE DEF q
<1> QED BY <1>2, <1>5, <1>6, <1>7, <1>8

\* A pair of nodes is a walk of two.
LEMMA EdgesAreWalks == \A S \in SUBSET PossibleEdges : Seq(S) \subseteq Seq(Seq(Vertex))
<1>1. ASSUME NEW e \in PossibleEdges PROVE e \in Seq(Vertex)
  <2>1. PICK a, b \in Vertex : e = <<a, b>> BY FiniteGraph
  <2>2. <<a, b>> \in Seq(Vertex) OBVIOUS
  <2> QED BY <2>1, <2>2
<1> QED BY <1>1, SeqMonotonic

\* A state in which no search has begun.
LEMMA ReadyShaped == Ready \in SearchRecord /\ Ready.kind = "none"
<1>1. <<>> \in Seq(Vertex) /\ <<>> \in Seq(Vertex \X Nat) /\ <<>> \in Seq(Seq(Vertex))
      /\ <<>> \in Seq([node : Vertex, todo : SUBSET Vertex])
  BY EmptySeq
<1>2. [n \in NoteNode |-> NotFound] \in [NoteNode -> Int] BY DEF NotFound
<1> QED BY <1>1, <1>2 DEF Ready, SearchRecord, SearchKinds

-----------------------------------------------------------------------------

\* The successors a search reads are nodes, and edges there are.
LEMMA SuccessorsRead ==
  ASSUME Shaped
  PROVE \A v : /\ From(v) \in SUBSET Vertex
                /\ \A y : y \in From(v) <=> <<v, y>> \in edges
<1>1. \A e \in edges : e \in Vertex \X Vertex BY FiniteGraph DEF Shaped
<1>2. \A e \in edges : e = <<e[1], e[2]>> /\ e[1] \in Vertex /\ e[2] \in Vertex BY <1>1
<1>3. ASSUME NEW v, NEW y PROVE y \in From(v) <=> <<v, y>> \in edges
  <2>1. <<v, y>>[1] = v /\ <<v, y>>[2] = y OBVIOUS
  <2> QED BY <1>2, <2>1 DEF From
<1>4. ASSUME NEW v PROVE From(v) \in SUBSET Vertex BY <1>2 DEF From
<1> QED BY <1>3, <1>4

\* The other ends of the causal edges of a node are where they lead.
LEMMA CausalRead ==
  ASSUME Shaped, search.kind \in {"causal", "incoming"}
  PROVE \A v : LET S == {OtherEnd(p) : p \in CausalFrom(v)} IN
                /\ S \in SUBSET Vertex /\ CausalFrom(v) \in SUBSET edges
                /\ \A y : y \in S <=> <<v, y>> \in Along(edges)
<1>1. \A e \in edges : e \in Vertex \X Vertex BY FiniteGraph DEF Shaped
<1>2. \A e \in edges : e = <<e[1], e[2]>> /\ e[1] \in Vertex /\ e[2] \in Vertex BY <1>1
<1>3. ASSUME NEW v
      PROVE LET S == {OtherEnd(p) : p \in CausalFrom(v)} IN
            /\ S \in SUBSET Vertex /\ CausalFrom(v) \in SUBSET edges
            /\ \A y : y \in S <=> <<v, y>> \in Along(edges)
  <2> DEFINE S == {OtherEnd(p) : p \in CausalFrom(v)}
  <2>1. CASE search.kind = "causal"
    <3>1. CausalFrom(v) = {p \in edges \cap CausalPairs : p[1] = v} /\ Along(edges) = edges \cap CausalPairs
      BY <2>1 DEF CausalFrom, Along
    <3>2. \A p : OtherEnd(p) = p[2] BY <2>1 DEF OtherEnd
    <3>3. ASSUME NEW y PROVE y \in S <=> <<v, y>> \in Along(edges)
      <4>1. <<v, y>>[1] = v /\ <<v, y>>[2] = y OBVIOUS
      <4> QED BY <1>2, <3>1, <3>2, <4>1
    <3> QED BY <1>2, <3>1, <3>2, <3>3
  <2>2. CASE search.kind = "incoming"
    <3>1. /\ CausalFrom(v) = {p \in edges \cap CausalPairs : p[2] = v}
          /\ Along(edges) = {<<e[2], e[1]>> : e \in edges \cap CausalPairs}
      BY <2>2 DEF CausalFrom, Along
    <3>2. \A p : OtherEnd(p) = p[1] BY <2>2 DEF OtherEnd
    <3>3. ASSUME NEW y PROVE y \in S <=> <<v, y>> \in Along(edges)
      <4>1. y \in S => <<v, y>> \in Along(edges) BY <1>2, <3>1, <3>2
      <4>2. ASSUME <<v, y>> \in Along(edges) PROVE y \in S
        <5>1. PICK e \in edges \cap CausalPairs : <<v, y>> = <<e[2], e[1]>> BY <3>1, <4>2
        <5>2. v = e[2] /\ y = e[1] BY <5>1
        <5> QED BY <3>1, <3>2, <5>2
      <4> QED BY <4>1, <4>2
    <3> QED BY <1>2, <3>1, <3>2, <3>3
  <2> QED BY <2>1, <2>2
<1> QED BY <1>3

-----------------------------------------------------------------------------
(* What each action does to the fields of the search *)

\* traverse_kg is called.
LEMMA TraverseFields ==
  ASSUME Shaped, NEW v \in Entity, NEW d \in TraverseDepths, Traverse(v, d)
  PROVE /\ Shaped'
        /\ edges' = edges /\ before' = edges /\ search'.kind = "traverse" /\ search'.depth \in 0..2
        /\ search'.stack = <<[node |-> v, todo |-> {}]>> /\ search'.starts = <<v>>
        /\ search'.queue = <<>> /\ search'.visited = <<>> /\ search'.found = <<>> /\ search'.done = FALSE
        /\ search'.hops = Ready.hops
<1> DEFINE n == IF d > 2 THEN 2 ELSE d
<1>1. n \in 0..2 /\ v \in Vertex BY SearchConstants DEF Vertex
<1>2. <<[node |-> v, todo |-> {}]>> \in Seq([node : Vertex, todo : SUBSET Vertex]) /\ <<v>> \in Seq(Vertex) BY <1>1
<1>3. search' = [Ready EXCEPT !.kind = "traverse", !.depth = n,
                             !.stack = <<[node |-> v, todo |-> {}]>>, !.starts = <<v>>]
  BY DEF Traverse
<1>4. edges' = edges /\ before' = edges BY DEF Traverse
<1> HIDE DEF n
<1>5. /\ search'.kind = "traverse" /\ search'.depth = n
      /\ search'.stack = <<[node |-> v, todo |-> {}]>> /\ search'.starts = <<v>>
      /\ search'.queue = <<>> /\ search'.visited = <<>> /\ search'.found = <<>> /\ search'.done = FALSE
      /\ search'.hops = Ready.hops
  BY <1>3 DEF Ready
<1>6. search' \in SearchRecord
  <2>1. n \in Nat BY <1>1
  <2> QED BY <1>2, <1>3, <2>1, ReadyShaped DEF SearchRecord, SearchKinds
<1> QED BY <1>1, <1>4, <1>5, <1>6 DEF Shaped

\* retrieve_note_ids is called, with the entities of a query.
LEMMA RetrieveFields ==
  ASSUME Shaped, NEW v \in Entity, NEW w \in Entity, RetrieveNotes(<<v, w>>)
  PROVE /\ Shaped'
        /\ edges' = edges /\ before' = edges /\ search'.kind = "notes" /\ search'.starts = <<v, w>>
        /\ search'.queue = <<<<v, 0>>>> /\ search'.visited = <<>> /\ search'.turn = 1
        /\ search'.done = FALSE /\ search'.hops = Ready.hops
<1>1. v \in Vertex /\ w \in Vertex BY DEF Vertex
<1>2. <<v, w>> \in Seq(Vertex) /\ Head(<<v, w>>) = v /\ <<<<v, 0>>>> \in Seq(Vertex \X Nat) BY <1>1
<1>3. search' = [Ready EXCEPT !.kind = "notes", !.starts = <<v, w>>, !.queue = <<<<v, 0>>>>]
  BY <1>2 DEF RetrieveNotes
<1>4. edges' = edges /\ before' = edges BY DEF RetrieveNotes
<1>5. /\ search'.kind = "notes" /\ search'.starts = <<v, w>>
      /\ search'.queue = <<<<v, 0>>>> /\ search'.visited = <<>> /\ search'.turn = 1
      /\ search'.done = FALSE /\ search'.hops = Ready.hops
  BY <1>3 DEF Ready
<1>6. search' \in SearchRecord BY <1>2, <1>3, ReadyShaped DEF SearchRecord, SearchKinds
<1> QED BY <1>4, <1>5, <1>6 DEF Shaped

\* The causal search is called, either way along the edges.
LEMMA CausalFields ==
  ASSUME Shaped, NEW v \in Entity, NEW kind \in {"causal", "incoming"}, CausalSearch(v, kind)
  PROVE /\ Shaped'
        /\ edges' = edges /\ before' = edges /\ search'.kind = kind /\ search'.starts = <<v>>
        /\ search'.queue = <<<<v, 0>>>> /\ search'.visited = <<>> /\ search'.found = <<>>
        /\ search'.done = FALSE /\ search'.hops = Ready.hops
<1>1. v \in Vertex BY DEF Vertex
<1>2. <<v>> \in Seq(Vertex) /\ <<<<v, 0>>>> \in Seq(Vertex \X Nat) BY <1>1
<1>3. search' = [Ready EXCEPT !.kind = kind, !.starts = <<v>>, !.queue = <<<<v, 0>>>>] BY DEF CausalSearch
<1>4. edges' = edges /\ before' = edges BY DEF CausalSearch
<1>5. /\ search'.kind = kind /\ search'.starts = <<v>>
      /\ search'.queue = <<<<v, 0>>>> /\ search'.visited = <<>> /\ search'.found = <<>>
      /\ search'.done = FALSE /\ search'.hops = Ready.hops
  BY <1>3 DEF Ready
<1>6. search' \in SearchRecord BY <1>2, <1>3, ReadyShaped DEF SearchRecord, SearchKinds
<1> QED BY <1>4, <1>5, <1>6 DEF Shaped

\* One node is taken from the queue of the search for notes: dropped, or visited.
LEMMA DequeueFields ==
  ASSUME Shaped, Dequeue
  PROVE LET v == Head(search.queue)[1]
            d == Head(search.queue)[2]
            r == IF d >= HopLimit THEN <<>> ELSE AtDepth(Unseen(From(v), v), d + 1) IN
        /\ Shaped' /\ UNCHANGED <<edges, before>> /\ search.queue # <<>>
        /\ search.kind = "notes" /\ search'.kind = "notes"
        /\ search'.starts = search.starts /\ search'.turn = search.turn /\ search'.done = search.done
        /\ v \in Vertex /\ d \in Nat /\ r \in Seq(Vertex \X Nat)
        /\ Visited(v) => /\ search'.queue = Tail(search.queue) /\ search'.visited = search.visited
                         /\ search'.hops = search.hops
        /\ ~Visited(v) => /\ search'.queue = Tail(search.queue) \o r /\ search'.visited = Append(search.visited, v)
                          /\ search'.hops = Nearer(v, d)
<1> DEFINE v == Head(search.queue)[1]
           d == Head(search.queue)[2]
           r == IF d >= HopLimit THEN <<>> ELSE AtDepth(Unseen(From(v), v), d + 1)
           t == Tail(search.queue)
<1>1. search.kind = "notes" /\ search.queue # <<>> /\ UNCHANGED <<edges, before>> BY DEF Dequeue
<1>2. search' = IF Visited(v) THEN [search EXCEPT !.queue = t]
                ELSE [search EXCEPT !.queue = t \o r, !.visited = Append(@, v), !.hops = Nearer(v, d)]
  BY DEF Dequeue
<1>3. search \in SearchRecord BY DEF Shaped
<1>4. search.queue \in Seq(Vertex \X Nat) /\ search.visited \in Seq(Vertex) /\ search.hops \in [NoteNode -> Int]
  BY <1>3 DEF SearchRecord
<1>5. v \in Vertex /\ d \in Nat /\ t \in Seq(Vertex \X Nat)
  <2>1. t \in Seq(Vertex \X Nat) /\ Head(search.queue) = search.queue[1] /\ 1 \in DOMAIN search.queue
    BY <1>1, <1>4, TailEntries
  <2> QED BY <1>4, <2>1, QueueEntries
<1>6. r \in Seq(Vertex \X Nat)
  <2>1. Unseen(From(v), v) \in SUBSET Vertex BY SuccessorsRead DEF Unseen
  <2>2. d + 1 \in Nat BY <1>5
  <2>3. AtDepth(Unseen(From(v), v), d + 1) \in Seq(Vertex \X Nat) BY <2>1, <2>2, AtDepthLists
  <2>4. <<>> \in Seq(Vertex \X Nat) BY EmptySeq
  <2> QED BY <2>3, <2>4
<1> HIDE DEF v, d, r, t
<1>7. Nearer(v, d) \in [NoteNode -> Int] BY <1>4, <1>5 DEF Nearer
<1>8. CASE Visited(v)
  <2>1. search' = [search EXCEPT !.queue = t] BY <1>2, <1>8
  <2>2. search' \in SearchRecord BY <1>3, <1>5, <2>1 DEF SearchRecord
  <2>3. /\ search'.kind = "notes" /\ search'.starts = search.starts /\ search'.turn = search.turn
        /\ search'.done = search.done /\ search'.queue = t /\ search'.visited = search.visited
        /\ search'.hops = search.hops
    BY <1>1, <1>3, <2>1 DEF SearchRecord
  <2>4. Shaped' BY <1>1, <2>2, <2>3 DEF Shaped
  <2> QED BY <1>1, <1>5, <1>6, <1>8, <2>3, <2>4 DEF v, d, r, t
<1>9. CASE ~Visited(v)
  <2>1. search' = [search EXCEPT !.queue = t \o r, !.visited = Append(search.visited, v), !.hops = Nearer(v, d)]
    BY <1>2, <1>9
  <2>2. t \o r \in Seq(Vertex \X Nat) /\ Append(search.visited, v) \in Seq(Vertex) BY <1>4, <1>5, <1>6
  <2>3. search' \in SearchRecord BY <1>3, <1>7, <2>1, <2>2 DEF SearchRecord
  <2>4. /\ search'.kind = "notes" /\ search'.starts = search.starts /\ search'.turn = search.turn
        /\ search'.done = search.done /\ search'.queue = t \o r /\ search'.visited = Append(search.visited, v)
        /\ search'.hops = Nearer(v, d)
    BY <1>1, <1>3, <2>1 DEF SearchRecord
  <2>5. Shaped' BY <1>1, <2>3, <2>4 DEF Shaped
  <2> QED BY <1>1, <1>5, <1>6, <1>9, <2>4, <2>5 DEF v, d, r, t
<1> QED BY <1>8, <1>9

\* The search for notes is done with an entity.
LEMMA NextStartFields ==
  ASSUME Shaped, NextStart, search.turn \in 1..Len(search.starts)
  PROVE /\ Shaped' /\ UNCHANGED <<edges, before>> /\ search.queue = <<>> /\ ~search.done
        /\ search.kind = "notes" /\ search'.kind = "notes"
        /\ search'.starts = search.starts /\ search'.hops = search.hops
        /\ search.turn = Len(search.starts) =>
             /\ search'.turn = search.turn /\ search'.done = TRUE /\ search'.queue = search.queue
             /\ search'.visited = search.visited
        /\ search.turn # Len(search.starts) =>
             /\ search'.turn = search.turn + 1 /\ search'.done = FALSE
             /\ search'.queue = <<<<search.starts[search.turn + 1], 0>>>> /\ search'.visited = <<>>
<1>1. /\ search.kind = "notes" /\ search.queue = <<>> /\ ~search.done /\ UNCHANGED <<edges, before>>
      /\ search' = IF search.turn = Len(search.starts) THEN [search EXCEPT !.done = TRUE]
                   ELSE [search EXCEPT !.turn = @ + 1, !.visited = <<>>,
                                       !.queue = <<<<search.starts[search.turn + 1], 0>>>>]
  BY DEF NextStart
<1>2. search \in SearchRecord BY DEF Shaped
<1>3. search.starts \in Seq(Vertex) /\ search.turn \in Nat /\ search.done = FALSE BY <1>1, <1>2 DEF SearchRecord
<1>4. CASE search.turn = Len(search.starts)
  <2>1. search' = [search EXCEPT !.done = TRUE] BY <1>1, <1>4
  <2>2. search' \in SearchRecord BY <1>2, <2>1 DEF SearchRecord
  <2>3. /\ search'.kind = "notes" /\ search'.starts = search.starts /\ search'.hops = search.hops
        /\ search'.turn = search.turn /\ search'.done = TRUE /\ search'.queue = search.queue
        /\ search'.visited = search.visited
    BY <1>1, <1>2, <2>1 DEF SearchRecord
  <2>4. Shaped' BY <1>1, <2>2, <2>3 DEF Shaped
  <2> QED BY <1>1, <1>4, <2>3, <2>4
<1>5. CASE search.turn # Len(search.starts)
  <2> DEFINE q == <<<<search.starts[search.turn + 1], 0>>>>
             n == search.turn + 1
  <2>1. search' = [search EXCEPT !.turn = n, !.visited = <<>>, !.queue = q] BY <1>1, <1>5
  <2>2. n \in Nat /\ q \in Seq(Vertex \X Nat) /\ <<>> \in Seq(Vertex)
    <3>1. n \in 1..Len(search.starts) BY <1>3, <1>5
    <3>2. search.starts[n] \in Vertex BY <1>3, <3>1
    <3> QED BY <3>1, <3>2
  <2> HIDE DEF q, n
  <2>3. search' \in SearchRecord BY <1>2, <2>1, <2>2 DEF SearchRecord
  <2>4. /\ search'.kind = "notes" /\ search'.starts = search.starts /\ search'.hops = search.hops
        /\ search'.turn = n /\ search'.done = FALSE /\ search'.queue = q /\ search'.visited = <<>>
    BY <1>1, <1>2, <1>3, <2>1 DEF SearchRecord
  <2>5. Shaped' BY <1>1, <2>3, <2>4 DEF Shaped
  <2> QED BY <1>1, <1>5, <2>4, <2>5 DEF q, n
<1> QED BY <1>4, <1>5

\* One node is taken from the queue of the causal search: dropped, or expanded.
LEMMA ExpandFields ==
  ASSUME Shaped, Expand
  PROVE LET v == Head(search.queue)[1]
            d == Head(search.queue)[2]
            r == AtDepth(Unseen({OtherEnd(p) : p \in CausalFrom(v)}, v), d + 1)
            drop == d > CausalDepth \/ Visited(v) IN
        /\ Shaped' /\ UNCHANGED <<edges, before>> /\ search.queue # <<>> /\ ~search.done
        /\ search.kind \in {"causal", "incoming"} /\ search'.kind = search.kind
        /\ search'.starts = search.starts /\ search'.done = search.done /\ search'.hops = search.hops
        /\ v \in Vertex /\ d \in Nat /\ r \in Seq(Vertex \X Nat) /\ CausalFrom(v) \in SUBSET edges
        /\ drop => /\ search'.queue = Tail(search.queue) /\ search'.visited = search.visited
                   /\ search'.found = search.found
        /\ ~drop => /\ search'.queue = Tail(search.queue) \o r /\ search'.visited = Append(search.visited, v)
                    /\ search'.found = search.found \o SetToSeq(CausalFrom(v))
<1> DEFINE v == Head(search.queue)[1]
           d == Head(search.queue)[2]
           r == AtDepth(Unseen({OtherEnd(p) : p \in CausalFrom(v)}, v), d + 1)
           t == Tail(search.queue)
           c == SetToSeq(CausalFrom(v))
           drop == d > CausalDepth \/ Visited(v)
<1>1. search.kind \in {"causal", "incoming"} /\ ~search.done /\ search.queue # <<>> /\ UNCHANGED <<edges, before>>
  BY DEF Expand
<1>2. search' = IF drop THEN [search EXCEPT !.queue = t]
                ELSE [search EXCEPT !.queue = t \o r, !.visited = Append(@, v), !.found = @ \o c]
  BY DEF Expand
<1>3. search \in SearchRecord BY DEF Shaped
<1>4. search.queue \in Seq(Vertex \X Nat) /\ search.visited \in Seq(Vertex) /\ search.found \in Seq(Seq(Vertex))
  BY <1>3 DEF SearchRecord
<1>5. v \in Vertex /\ d \in Nat /\ t \in Seq(Vertex \X Nat)
  <2>1. t \in Seq(Vertex \X Nat) /\ Head(search.queue) = search.queue[1] /\ 1 \in DOMAIN search.queue
    BY <1>1, <1>4, TailEntries
  <2> QED BY <1>4, <2>1, QueueEntries
<1>6. r \in Seq(Vertex \X Nat)
  <2> DEFINE S == {OtherEnd(p) : p \in CausalFrom(v)}
  <2>1. S \in SUBSET Vertex BY <1>1, CausalRead
  <2> HIDE DEF S
  <2>2. Unseen(S, v) \in SUBSET Vertex BY <2>1 DEF Unseen
  <2>3. d + 1 \in Nat BY <1>5
  <2>4. AtDepth(Unseen(S, v), d + 1) \in Seq(Vertex \X Nat) BY <2>2, <2>3, AtDepthLists
  <2> QED BY <2>4 DEF S
<1>7. CausalFrom(v) \in SUBSET edges BY <1>1, CausalRead
<1>8. c \in Seq(Seq(Vertex))
  <2>1. CausalFrom(v) \in SUBSET PossibleEdges BY <1>7 DEF Shaped
  <2>2. c \in Seq(CausalFrom(v)) BY <2>1, FiniteGraph, SetToSeqLists
  <2> QED BY <2>1, <2>2, EdgesAreWalks
<1> HIDE DEF v, d, r, t, c, drop
<1>9. CASE drop
  <2>1. search' = [search EXCEPT !.queue = t] BY <1>2, <1>9
  <2>2. search' \in SearchRecord BY <1>3, <1>5, <2>1 DEF SearchRecord
  <2>3. /\ search'.kind = search.kind /\ search'.starts = search.starts /\ search'.hops = search.hops
        /\ search'.done = search.done /\ search'.queue = t /\ search'.visited = search.visited
        /\ search'.found = search.found
    BY <1>3, <2>1 DEF SearchRecord
  <2>4. Shaped' BY <1>1, <2>2, <2>3 DEF Shaped
  <2> QED BY <1>1, <1>5, <1>6, <1>7, <1>9, <2>3, <2>4 DEF v, d, r, t, drop
<1>10. CASE ~drop
  <2>1. search' = [search EXCEPT !.queue = t \o r, !.visited = Append(search.visited, v), !.found = search.found \o c]
    BY <1>2, <1>10
  <2>2. t \o r \in Seq(Vertex \X Nat) /\ Append(search.visited, v) \in Seq(Vertex)
        /\ search.found \o c \in Seq(Seq(Vertex))
    BY <1>4, <1>5, <1>6, <1>8
  <2>3. search' \in SearchRecord BY <1>3, <2>1, <2>2 DEF SearchRecord
  <2>4. /\ search'.kind = search.kind /\ search'.starts = search.starts /\ search'.hops = search.hops
        /\ search'.done = search.done /\ search'.queue = t \o r /\ search'.visited = Append(search.visited, v)
        /\ search'.found = search.found \o c
    BY <1>3, <2>1 DEF SearchRecord
  <2>5. Shaped' BY <1>1, <2>3, <2>4 DEF Shaped
  <2> QED BY <1>1, <1>5, <1>6, <1>7, <1>10, <2>4, <2>5 DEF v, d, r, t, c, drop
<1> QED BY <1>9, <1>10

\* The causal search ends.
LEMMA CausalDoneFields ==
  ASSUME Shaped, CausalDone
  PROVE /\ Shaped' /\ UNCHANGED <<edges, before>>
        /\ search.kind \in {"causal", "incoming"} /\ search'.kind = search.kind
        /\ search'.starts = search.starts /\ search'.hops = search.hops /\ search'.queue = search.queue
        /\ search'.visited = search.visited /\ search'.found = search.found
        /\ search.queue = <<>> \/ Len(search.visited) >= MaxVisited
<1>1. /\ search.kind \in {"causal", "incoming"} /\ UNCHANGED <<edges, before>>
      /\ search' = [search EXCEPT !.done = TRUE]
      /\ search.queue = <<>> \/ Len(search.visited) >= MaxVisited
  BY DEF CausalDone
<1>2. search \in SearchRecord BY DEF Shaped
<1>3. search' \in SearchRecord BY <1>1, <1>2 DEF SearchRecord
<1>4. /\ search'.kind = search.kind
      /\ search'.starts = search.starts /\ search'.hops = search.hops /\ search'.queue = search.queue
      /\ search'.visited = search.visited /\ search'.found = search.found
  BY <1>1, <1>2 DEF SearchRecord
<1> QED BY <1>1, <1>3, <1>4 DEF Shaped

\* An edge is added while a search is under way.
LEMMA GrowFields ==
  ASSUME Shaped, NEW e \in PossibleEdges, Grow(e)
  PROVE Shaped' /\ edges \subseteq edges' /\ UNCHANGED <<before, search>>
<1>1. edges' = edges \cup {e} /\ UNCHANGED <<before, search>> BY DEF Grow
<1> QED BY <1>1 DEF Shaped

-----------------------------------------------------------------------------
(* The search for notes *)

\* Every note that lay within the limit of start t is found, no further away than it lay.
Searched(t, starts, hops) ==
  \A d \in 0..HopLimit, n \in NoteNode :
    n \in Within(before, {starts[t]}, d) => hops[n] # NotFound /\ hops[n] <= d

\* The notes among the nodes visited are found, no further away than they were visited.
Noted(V, dep, hops) == \A n \in NoteNode \cap V : hops[n] # NotFound /\ hops[n] <= dep[n]

\* Where a note is said to be, it is.
Sound(starts, hops) == \A n \in NoteNode : hops[n] # NotFound => n \in Within(edges, ToSet(starts), hops[n])

NotesInv ==
  search.kind = "notes" =>
    /\ search.turn \in 1..Len(search.starts)
    /\ search.hops \in [NoteNode -> NotFound..HopLimit]
    /\ \A i \in DOMAIN search.queue : search.queue[i][2] <= HopLimit
    /\ \E dep : /\ Bfs(before, edges, search.starts[search.turn], HopLimit, search.queue, ToSet(search.visited), dep)
                /\ Noted(ToSet(search.visited), dep, search.hops)
    /\ \A t \in 1..search.turn - 1 : Searched(t, search.starts, search.hops)
    /\ Sound(search.starts, search.hops)
    /\ search.done => search.queue = <<>> /\ search.turn = Len(search.starts)

\* The search begins.
LEMMA NotesBegin ==
  ASSUME Shaped, NEW v \in Entity, NEW w \in Entity, RetrieveNotes(<<v, w>>)
  PROVE NotesInv'
<1>1. /\ edges' = edges /\ before' = edges /\ search'.starts = <<v, w>>
      /\ search'.queue = <<<<v, 0>>>> /\ search'.visited = <<>> /\ search'.turn = 1
      /\ search'.done = FALSE /\ search'.hops = [n \in NoteNode |-> NotFound]
  BY RetrieveFields DEF Ready
<1>2. v \in Vertex /\ Len(<<v, w>>) = 2 /\ <<v, w>>[1] = v /\ ToSet(<<>>) = {} BY DEF Vertex, ToSet
<1>3. search'.turn \in 1..Len(search'.starts) BY <1>1, <1>2
<1>4. search'.hops \in [NoteNode -> NotFound..HopLimit] BY <1>1, SearchConstants DEF NotFound
<1>5. \A i \in DOMAIN search'.queue : search'.queue[i][2] <= HopLimit
  <2>1. DOMAIN <<<<v, 0>>>> = {1} /\ <<<<v, 0>>>>[1][2] = 0 OBVIOUS
  <2> QED BY <1>1, <2>1, SearchConstants
<1>6. Bfs(before', edges', v, HopLimit, <<<<v, 0>>>>, {}, [x \in {} |-> 0]) BY <1>2, SearchConstants, BfsStarts
<1>7. Noted({}, [x \in {} |-> 0], search'.hops) BY DEF Noted
<1>8. \E dep : /\ Bfs(before', edges', search'.starts[search'.turn], HopLimit, search'.queue, ToSet(search'.visited), dep)
              /\ Noted(ToSet(search'.visited), dep, search'.hops)
  BY <1>1, <1>2, <1>6, <1>7
<1>9. (\A t \in 1..search.turn - 1 : Searched(t, search.starts, search.hops))' BY <1>1
<1>10. Sound(search.starts, search.hops)' BY <1>1 DEF Sound
<1>11. ~search'.done BY <1>1
<1> QED BY <1>3, <1>4, <1>5, <1>8, <1>9, <1>10, <1>11 DEF NotesInv

\* Edges are added meanwhile.
LEMMA NotesGrow ==
  ASSUME Shaped, NotesInv, NEW e \in PossibleEdges, Grow(e)
  PROVE NotesInv'
<1>1. edges \subseteq edges' /\ before' = before /\ search' = search BY GrowFields
<1> SUFFICES ASSUME search.kind = "notes" PROVE NotesInv' BY <1>1 DEF NotesInv
<1>2. PICK dep : /\ Bfs(before, edges, search.starts[search.turn], HopLimit, search.queue, ToSet(search.visited), dep)
                 /\ Noted(ToSet(search.visited), dep, search.hops)
  BY DEF NotesInv
<1>3. Bfs(before, edges', search.starts[search.turn], HopLimit, search.queue, ToSet(search.visited), dep)
  BY <1>1, <1>2, BfsGrows
<1>4. Sound(search.starts, search.hops)'
  <2>1. ASSUME NEW n \in NoteNode, search.hops[n] # NotFound
        PROVE n \in Within(edges', ToSet(search.starts), search.hops[n])
    <3>1. search.hops[n] \in Nat /\ n \in Within(edges, ToSet(search.starts), search.hops[n])
      <4>1. search.hops[n] \in NotFound..HopLimit /\ HopLimit \in Nat BY SearchConstants DEF NotesInv
      <4> QED BY <2>1, <4>1 DEF NotesInv, Sound, NotFound
    <3> QED BY <1>1, <3>1, WithinMonotone
  <2> QED BY <1>1, <2>1 DEF Sound
<1>5. \A t \in 1..search.turn - 1 : Searched(t, search.starts, search.hops)' BY <1>1 DEF NotesInv, Searched
<1>6. \E d : /\ Bfs(before', edges', search'.starts[search'.turn], HopLimit, search'.queue, ToSet(search'.visited), d)
            /\ Noted(ToSet(search'.visited), d, search'.hops)
  BY <1>1, <1>2, <1>3
<1> QED BY <1>1, <1>4, <1>5, <1>6 DEF NotesInv

\* A node is visited: what is noted of it, and of the others.
LEMMA NearerNotes ==
  ASSUME NEW v \in Vertex, NEW d \in Nat, d <= HopLimit, search.hops \in [NoteNode -> NotFound..HopLimit]
  PROVE /\ Nearer(v, d) \in [NoteNode -> NotFound..HopLimit]
        /\ \A n \in NoteNode : Nearer(v, d)[n] = search.hops[n] \/ (n = v /\ Nearer(v, d)[n] = d)
        /\ \A n \in NoteNode : search.hops[n] # NotFound =>
             Nearer(v, d)[n] # NotFound /\ Nearer(v, d)[n] <= search.hops[n]
        /\ v \in NoteNode => Nearer(v, d)[v] # NotFound /\ Nearer(v, d)[v] <= d
<1>1. d \in NotFound..HopLimit /\ d # NotFound /\ HopLimit \in Nat BY SearchConstants DEF NotFound
<1>2. \A n \in NoteNode : search.hops[n] \in NotFound..HopLimit /\ search.hops[n] \in Int BY DEF NotFound
<1>3. CASE v \in NoteNode /\ (search.hops[v] = NotFound \/ d < search.hops[v])
  <2>1. Nearer(v, d) = [search.hops EXCEPT ![v] = d] BY <1>3 DEF Nearer
  <2>2. Nearer(v, d) \in [NoteNode -> NotFound..HopLimit] BY <1>1, <2>1
  <2>3. \A n \in NoteNode : Nearer(v, d)[n] = IF n = v THEN d ELSE search.hops[n] BY <2>1
  <2> QED BY <1>1, <1>2, <1>3, <2>2, <2>3
<1>4. CASE ~(v \in NoteNode /\ (search.hops[v] = NotFound \/ d < search.hops[v]))
  <2>1. Nearer(v, d) = search.hops BY <1>4 DEF Nearer
  <2> QED BY <1>2, <1>4, <2>1
<1> QED BY <1>3, <1>4

\* A node is taken from the queue.
LEMMA NotesDequeue ==
  ASSUME Shaped, NotesInv, Dequeue
  PROVE NotesInv'
<1> DEFINE v == Head(search.queue)[1]
           d == Head(search.queue)[2]
           r == IF d >= HopLimit THEN <<>> ELSE AtDepth(Unseen(From(v), v), d + 1)
           V == ToSet(search.visited)
           s == search.starts[search.turn]
<1>1. /\ before' = before /\ edges' = edges /\ search.queue # <<>> /\ search.kind = "notes"
      /\ search'.starts = search.starts /\ search'.turn = search.turn /\ search'.done = search.done
      /\ v \in Vertex /\ d \in Nat /\ r \in Seq(Vertex \X Nat)
      /\ Visited(v) => /\ search'.queue = Tail(search.queue) /\ search'.visited = search.visited
                       /\ search'.hops = search.hops
      /\ ~Visited(v) => /\ search'.queue = Tail(search.queue) \o r /\ search'.visited = Append(search.visited, v)
                        /\ search'.hops = Nearer(v, d)
  BY DequeueFields
<1>2. search.queue \in Seq(Vertex \X Nat) /\ search.visited \in Seq(Vertex) /\ search.starts \in Seq(Vertex)
  BY DEF Shaped, SearchRecord
<1>3. /\ Tail(search.queue) \in Seq(Vertex \X Nat) /\ Head(search.queue) = search.queue[1] /\ 1 \in DOMAIN search.queue
      /\ \A i \in DOMAIN Tail(search.queue) : i + 1 \in DOMAIN search.queue /\ Tail(search.queue)[i] = search.queue[i + 1]
  BY <1>1, <1>2, TailEntries
<1>4. /\ search.turn \in 1..Len(search.starts) /\ search.hops \in [NoteNode -> NotFound..HopLimit]
      /\ \A i \in DOMAIN search.queue : search.queue[i][2] <= HopLimit
      /\ \A t \in 1..search.turn - 1 : Searched(t, search.starts, search.hops)
      /\ Sound(search.starts, search.hops) /\ ~search.done
  BY <1>1 DEF NotesInv
<1>5. PICK dep : Bfs(before, edges, s, HopLimit, search.queue, V, dep) /\ Noted(V, dep, search.hops)
  BY <1>1 DEF NotesInv
<1>6. v = search.queue[1][1] /\ d = search.queue[1][2] /\ d <= HopLimit BY <1>3, <1>4
<1>7. \/ r = <<>> /\ d >= HopLimit
      \/ /\ d < HopLimit
         /\ \A k \in DOMAIN r : r[k][1] \in From(v) /\ r[k][2] = d + 1
         /\ \A y \in From(v) : y \notin V => y = v \/ \E k \in DOMAIN r : r[k][1] = y
  <2>1. HopLimit \in Nat BY SearchConstants
  <2>2. CASE d < HopLimit
    <3> DEFINE U == Unseen(From(v), v)
    <3>1. U \in SUBSET Vertex /\ U \subseteq From(v) BY SuccessorsRead DEF Unseen
    <3>2. \A y \in From(v) : y \notin V /\ y # v => y \in U BY DEF Unseen, Visited
    <3>3. d + 1 \in Nat /\ ~(d >= HopLimit) BY <1>1, <2>1, <2>2
    <3>4. r = AtDepth(U, d + 1) BY <3>3
    <3> HIDE DEF r, U, v, d
    <3>5. /\ \A k \in DOMAIN r : r[k][1] \in U /\ r[k][2] = d + 1
          /\ \A x \in U : \E k \in DOMAIN r : r[k][1] = x
      BY <3>1, <3>3, <3>4, AtDepthLists
    <3> QED BY <2>2, <3>1, <3>2, <3>5
  <2>3. CASE ~(d < HopLimit) BY <1>1, <2>1, <2>3
  <2> QED BY <2>2, <2>3
<1>8. CASE Visited(v)
  <2>1. v \in V BY <1>8 DEF Visited
  <2>2. Bfs(before, edges, s, HopLimit, Tail(search.queue), V, dep)
    BY <1>1, <1>5, <1>6, <2>1, SearchConstants, BfsDrops
  <2>3. \E dp : Bfs(before, edges, s, HopLimit, Tail(search.queue), V, dp) /\ Noted(V, dp, search.hops)
    BY <1>5, <2>2
  <2>4. \A i \in DOMAIN Tail(search.queue) : Tail(search.queue)[i][2] <= HopLimit BY <1>3, <1>4
  <2>5. \A t \in 1..search.turn - 1 : Searched(t, search.starts, search.hops)' BY <1>1, <1>4, <1>8 DEF Searched
  <2>6. Sound(search.starts, search.hops)' BY <1>1, <1>4, <1>8 DEF Sound
  <2> HIDE DEF v, d, r
  <2> QED BY <1>1, <1>4, <1>8, <2>3, <2>4, <2>5, <2>6 DEF NotesInv
<1>9. CASE ~Visited(v)
  <2> DEFINE h == Nearer(v, d)
             q == Tail(search.queue) \o r
             W == V \cup {v}
             dp == [x \in W |-> IF x = v THEN d ELSE dep[x]]
  <2>1. v \notin V BY <1>9 DEF Visited
  <2>2. /\ h \in [NoteNode -> NotFound..HopLimit]
        /\ \A n \in NoteNode : h[n] = search.hops[n] \/ (n = v /\ h[n] = d)
        /\ \A n \in NoteNode : search.hops[n] # NotFound => h[n] # NotFound /\ h[n] <= search.hops[n]
        /\ v \in NoteNode => h[v] # NotFound /\ h[v] <= d
    <3> HIDE DEF v, d
    <3> QED BY <1>1, <1>4, <1>6, NearerNotes
  <2>3. ToSet(search'.visited) = W
    <3>1. search'.visited = Append(search.visited, v) /\ v \in Vertex BY <1>1, <1>9
    <3> HIDE DEF v
    <3>2. ToSet(Append(search.visited, v)) = V \cup {v} BY <1>2, <3>1, AppendEntries
    <3> QED BY <3>1, <3>2
  <2>4. Bfs(before, edges, s, HopLimit, q, W, dp)
    <3>1. \A k \in DOMAIN r : r[k][2] = d + 1 /\ <<v, r[k][1]>> \in edges
      <4>1. \A y \in From(v) : <<v, y>> \in edges BY SuccessorsRead
      <4>2. DOMAIN <<>> = {} OBVIOUS
      <4> HIDE DEF r, v, d
      <4> QED BY <1>7, <4>1, <4>2
    <3>2. d < HopLimit => \A y \in Vertex : <<v, y>> \in before => y \in V \/ y = v \/ \E k \in DOMAIN r : r[k][1] = y
      <4>1. HopLimit \in Nat BY SearchConstants
      <4>2. \A y \in Vertex : <<v, y>> \in before => y \in From(v) BY SuccessorsRead DEF Shaped
      <4> HIDE DEF v, d, r, V
      <4> QED BY <1>1, <1>7, <4>1, <4>2
    <3> HIDE DEF v, d, r, V, s
    <3>3. r \in Seq(Vertex \X Nat) /\ search.queue # <<>> BY <1>1
    <3>4. W = V \cup {v} /\ dp = [x \in W |-> IF x = v THEN d ELSE dep[x]] OBVIOUS
    <3>5. HopLimit \in Nat BY SearchConstants
    <3> HIDE DEF W, dp
    <3>6. Bfs(before, edges, s, HopLimit, search.queue, V, dep) BY <1>5
    <3>7. v = search.queue[1][1] /\ d = search.queue[1][2] BY <1>6
    <3>8. Visits(before, edges, HopLimit, search.queue, V, v, d, r) BY <2>1, <3>1, <3>2, <3>3, <3>7 DEF Visits
    <3> QED BY <3>4, <3>5, <3>6, <3>8, BfsVisits
  <2>5. Noted(W, dp, h)
    <3>1. ASSUME NEW n \in NoteNode \cap W PROVE h[n] # NotFound /\ h[n] <= dp[n]
      <4>1. CASE n = v BY <2>2, <4>1
      <4>2. CASE n # v
        <5>1. n \in V /\ dp[n] = dep[n] BY <4>2
        <5>2. search.hops[n] # NotFound /\ search.hops[n] <= dep[n] BY <1>5, <5>1 DEF Noted
        <5>3. h[n] # NotFound /\ h[n] <= search.hops[n] BY <2>2, <5>2
        <5>4. h[n] \in Int /\ search.hops[n] \in Int /\ dep[n] \in Int
          <6>1. dep \in [V -> Nat] BY <1>5 DEF Bfs
          <6>2. NotFound..HopLimit \subseteq Int OBVIOUS
          <6> QED BY <1>4, <2>2, <5>1, <6>1, <6>2
        <5> HIDE DEF h, dp
        <5> QED BY <5>1, <5>2, <5>3, <5>4
      <4> QED BY <4>1, <4>2
    <3> QED BY <3>1 DEF Noted
  <2>6. \A i \in DOMAIN q : q[i][2] <= HopLimit
    <3>1. ASSUME NEW i \in DOMAIN q PROVE q[i][2] <= HopLimit
      <4>0. /\ \A j \in DOMAIN Tail(search.queue) : q[j] = Tail(search.queue)[j]
            /\ i \in DOMAIN Tail(search.queue) \/
                 (i - Len(Tail(search.queue)) \in DOMAIN r /\ q[i] = r[i - Len(Tail(search.queue))])
        <5> HIDE DEF r
        <5> QED BY <1>1, <1>3, <3>1, ConcatEntries
      <4>1. CASE i \in DOMAIN Tail(search.queue) BY <1>3, <1>4, <4>0, <4>1
      <4>2. CASE i - Len(Tail(search.queue)) \in DOMAIN r /\ q[i] = r[i - Len(Tail(search.queue))]
        <5>1. DOMAIN r # {} BY <4>2
        <5>2. r # <<>> BY <5>1
        <5>3. d < HopLimit /\ q[i][2] = d + 1 /\ HopLimit \in Nat BY <1>7, <4>2, <5>2, SearchConstants
        <5> HIDE DEF q, d
        <5> QED BY <1>1, <5>3
      <4> QED BY <4>0, <4>1, <4>2
    <3> QED BY <3>1
  <2>7. ASSUME NEW t \in 1..search.turn - 1 PROVE Searched(t, search.starts, search.hops)'
    <3>1. ASSUME NEW k \in 0..HopLimit, NEW n \in NoteNode, n \in Within(before, {search.starts[t]}, k)
          PROVE h[n] # NotFound /\ h[n] <= k
      <4>1. search.hops[n] # NotFound /\ search.hops[n] <= k BY <1>4, <3>1 DEF Searched
      <4>2. h[n] # NotFound /\ h[n] <= search.hops[n] BY <2>2, <4>1
      <4>3. h[n] \in Int /\ search.hops[n] \in Int /\ k \in Int
        <5>1. NotFound..HopLimit \subseteq Int /\ 0..HopLimit \subseteq Int OBVIOUS
        <5> QED BY <1>4, <2>2, <5>1
      <4> HIDE DEF h
      <4> QED BY <4>1, <4>2, <4>3
    <3> HIDE DEF v, d, r
    <3> QED BY <1>1, <1>9, <3>1 DEF Searched
  <2>8. Sound(search.starts, search.hops)'
    <3>1. ASSUME NEW n \in NoteNode, h[n] # NotFound PROVE n \in Within(edges, ToSet(search.starts), h[n])
      <4>1. CASE h[n] = search.hops[n] BY <1>4, <3>1, <4>1 DEF Sound
      <4>2. CASE n = v /\ h[n] = d
        <5>1. v \in Within(edges, {s}, d) BY <1>3, <1>5, <1>6 DEF Bfs
        <5>2. {s} \subseteq ToSet(search.starts) BY <1>2, <1>4 DEF ToSet
        <5>3. Within(edges, {s}, d) \subseteq Within(edges, ToSet(search.starts), d) BY <1>1, <5>2, WithinMonotone
        <5> QED BY <4>2, <5>1, <5>3
      <4> QED BY <2>2, <4>1, <4>2
    <3> HIDE DEF v, d, r
    <3> QED BY <1>1, <1>9, <3>1 DEF Sound
  <2>9. search'.queue = q /\ search'.hops = h
    <3> HIDE DEF v, d, r
    <3> QED BY <1>1, <1>9
  <2> HIDE DEF v, d, r, h, q, W, dp, V
  <2>10. \E x : Bfs(before, edges, s, HopLimit, q, W, x) /\ Noted(W, x, h) BY <2>4, <2>5
  <2> QED BY <1>1, <1>4, <2>2, <2>3, <2>6, <2>7, <2>8, <2>9, <2>10 DEF NotesInv
<1> QED BY <1>8, <1>9

\* When the queue is empty, what lay within the limit of the start has been found.
LEMMA EmptyQueueSearched ==
  ASSUME Shaped, NotesInv, search.kind = "notes", search.queue = <<>>
  PROVE Searched(search.turn, search.starts, search.hops)
<1> DEFINE V == ToSet(search.visited)
           s == search.starts[search.turn]
<1>1. PICK dep : Bfs(before, edges, s, HopLimit, search.queue, V, dep) /\ Noted(V, dep, search.hops)
  BY DEF NotesInv
<1>2. before \in SUBSET (Vertex \X Vertex) BY FiniteGraph DEF Shaped
<1>3. \A n \in 0..HopLimit : \A v \in Within(before, {s}, n) : v \in V /\ dep[v] <= n
  <2>1. \A i \in DOMAIN search.queue : HopLimit < search.queue[i][2] OBVIOUS
  <2>2. HopLimit \in Nat /\ HopLimit <= HopLimit BY SearchConstants
  <2> HIDE DEF V, s
  <2> QED BY <1>1, <1>2, <2>1, <2>2, BfsReaches
<1>4. ASSUME NEW k \in 0..HopLimit, NEW n \in NoteNode, n \in Within(before, {s}, k)
      PROVE search.hops[n] # NotFound /\ search.hops[n] <= k
  <2>1. n \in V /\ dep[n] <= k BY <1>3, <1>4
  <2>2. search.hops[n] # NotFound /\ search.hops[n] <= dep[n] BY <1>1, <2>1 DEF Noted
  <2>3. dep[n] \in Int /\ search.hops[n] \in Int /\ k \in Int
    <3>1. dep \in [V -> Nat] BY <1>1 DEF Bfs
    <3>2. search.hops \in [NoteNode -> Int] BY DEF Shaped, SearchRecord
    <3>3. 0..HopLimit \subseteq Int OBVIOUS
    <3> QED BY <2>1, <3>1, <3>2, <3>3
  <2> QED BY <2>1, <2>2, <2>3
<1> QED BY <1>4 DEF Searched

\* The next entity of the query, or the end.
LEMMA NotesNextStart ==
  ASSUME Shaped, NotesInv, NextStart
  PROVE NotesInv'
<1>1. search.kind = "notes" BY DEF NextStart
<1>2. /\ search.turn \in 1..Len(search.starts) /\ search.hops \in [NoteNode -> NotFound..HopLimit]
      /\ \A i \in DOMAIN search.queue : search.queue[i][2] <= HopLimit
      /\ \A t \in 1..search.turn - 1 : Searched(t, search.starts, search.hops)
      /\ Sound(search.starts, search.hops)
  BY <1>1 DEF NotesInv
<1>3. /\ before' = before /\ edges' = edges /\ search.queue = <<>>
      /\ search'.starts = search.starts /\ search'.hops = search.hops
      /\ search.turn = Len(search.starts) =>
           /\ search'.turn = search.turn /\ search'.done = TRUE /\ search'.queue = search.queue
           /\ search'.visited = search.visited
      /\ search.turn # Len(search.starts) =>
           /\ search'.turn = search.turn + 1 /\ search'.done = FALSE
           /\ search'.queue = <<<<search.starts[search.turn + 1], 0>>>> /\ search'.visited = <<>>
  BY <1>2, NextStartFields
<1>4. search.starts \in Seq(Vertex) BY DEF Shaped, SearchRecord
<1>5. Searched(search.turn, search.starts, search.hops) BY <1>1, <1>3, EmptyQueueSearched
<1>6. Sound(search.starts, search.hops)' BY <1>2, <1>3 DEF Sound
<1>7. \A t : Searched(t, search.starts, search.hops) => Searched(t, search.starts, search.hops)'
  BY <1>3 DEF Searched
<1>8. CASE search.turn = Len(search.starts)
  <2>1. \A t \in 1..search'.turn - 1 : Searched(t, search.starts, search.hops)' BY <1>2, <1>3, <1>7, <1>8
  <2>2. \E dep : /\ Bfs(before', edges', search'.starts[search'.turn], HopLimit, search'.queue, ToSet(search'.visited), dep)
                /\ Noted(ToSet(search'.visited), dep, search'.hops)
    BY <1>1, <1>3, <1>8 DEF NotesInv
  <2> QED BY <1>2, <1>3, <1>6, <1>8, <2>1, <2>2 DEF NotesInv
<1>9. CASE search.turn # Len(search.starts)
  <2> DEFINE n == search.turn + 1
             s == search.starts[n]
             q == <<<<s, 0>>>>
  <2>1. n \in 1..Len(search.starts) BY <1>2, <1>4, <1>9
  <2>2. s \in Vertex BY <1>4, <2>1
  <2>3. DOMAIN q = {1} /\ q[1][2] = 0 OBVIOUS
  <2>4. \A i \in DOMAIN q : q[i][2] <= HopLimit BY <2>3, SearchConstants
  <2>5. Bfs(before, edges, s, HopLimit, q, {}, [x \in {} |-> 0]) BY <2>2, SearchConstants, BfsStarts
  <2>6. Noted({}, [x \in {} |-> 0], search.hops) BY DEF Noted
  <2>7. ASSUME NEW t \in 1..n - 1 PROVE Searched(t, search.starts, search.hops)'
    <3>1. t = search.turn \/ t \in 1..search.turn - 1 BY <1>2, <2>7
    <3> QED BY <1>2, <1>5, <1>7, <3>1
  <2>8. ToSet(<<>>) = {} BY DEF ToSet
  <2>9. search'.turn = n /\ search'.queue = q /\ search'.visited = <<>> /\ search'.done = FALSE BY <1>3, <1>9
  <2> HIDE DEF n, q
  <2>10. \E dep : /\ Bfs(before', edges', search'.starts[search'.turn], HopLimit, search'.queue, ToSet(search'.visited), dep)
                 /\ Noted(ToSet(search'.visited), dep, search'.hops)
    BY <1>3, <2>5, <2>6, <2>8, <2>9
  <2> QED BY <1>2, <1>3, <1>6, <2>1, <2>4, <2>7, <2>9, <2>10 DEF NotesInv
<1> QED BY <1>8, <1>9

\* What the search promises follows, once the last entity is done with.
LEMMA NotesPromise ==
  ASSUME Shaped, NotesInv
  PROVE HopsExact
<1> SUFFICES ASSUME search.kind = "notes", search.done PROVE HopsExact BY DEF HopsExact
<1> DEFINE starts == ToSet(search.starts)
           h == search.hops
<1>1. /\ search.turn \in 1..Len(search.starts) /\ search.turn = Len(search.starts)
      /\ h \in [NoteNode -> NotFound..HopLimit]
      /\ \A t \in 1..search.turn - 1 : Searched(t, search.starts, h)
      /\ Sound(search.starts, h) /\ search.queue = <<>>
  BY DEF NotesInv
<1>2. search.starts \in Seq(Vertex) /\ before \in SUBSET edges BY DEF Shaped, SearchRecord
<1>3. ASSUME NEW t \in 1..Len(search.starts) PROVE Searched(t, search.starts, h)
  <2>1. t = search.turn \/ t \in 1..search.turn - 1 BY <1>1, <1>3
  <2> QED BY <1>1, <2>1, EmptyQueueSearched
<1>4. ASSUME NEW n \in NoteNode, NEW d \in 0..HopLimit, n \in Within(before, starts, d)
      PROVE h[n] # NotFound /\ h[n] <= d
  <2>1. d \in Nat BY <1>4
  <2>2. PICK s \in starts : n \in Within(before, {s}, d) BY <1>4, <2>1, WithinSomeStart
  <2>3. PICK t \in 1..Len(search.starts) : s = search.starts[t] BY <1>2, <2>2 DEF ToSet
  <2> QED BY <1>3, <1>4, <2>2, <2>3 DEF Searched
<1>5. HopLimit \in 0..HopLimit BY SearchConstants
<1> HIDE DEF starts, h
<1>6. \A n \in NoteNode : n \in Within(before, starts, HopLimit) => h[n] # NotFound BY <1>4, <1>5
<1>7. \A n \in NoteNode : \A d \in 0..HopLimit : n \in Within(before, starts, d) /\ h[n] # NotFound => h[n] <= d
  BY <1>4
<1>8. \A n \in NoteNode : h[n] # NotFound => n \in Within(edges, starts, h[n]) BY <1>1 DEF Sound, starts, h
<1> QED BY <1>6, <1>7, <1>8 DEF HopsExact, starts, h

-----------------------------------------------------------------------------
(* The causal search *)

\* The end of a causal edge at which the search found it.
NearEnd(p) == IF search.kind = "causal" THEN p[1] ELSE p[2]

\* No edge is found twice: the edges of a node are found when it is visited, which is once.
FoundOnce ==
  /\ search.found \in Seq(edges) /\ IsInjective(search.found)
  /\ \A i \in DOMAIN search.found : NearEnd(search.found[i]) \in ToSet(search.visited)

CausalInv ==
  search.kind \in {"causal", "incoming"} =>
    /\ search.starts = <<search.starts[1]>>
    /\ \A i \in DOMAIN search.queue : search.queue[i][2] <= CausalDepth + 1
    /\ \E dep : Bfs(Along(before), Along(edges), search.starts[1], CausalDepth, search.queue,
                    ToSet(search.visited), dep)
    /\ FoundOnce
    /\ search.done => search.queue = <<>> \/ Len(search.visited) >= MaxVisited

\* Along a set of edges, either way, there are pairs of nodes.
LEMMA AlongPairs ==
  ASSUME NEW E, NEW F, E \subseteq F, F \in SUBSET PossibleEdges
  PROVE Along(E) \subseteq Along(F) /\ Along(E) \in SUBSET (Vertex \X Vertex)
<1>1. \A e \in F : e \in Vertex \X Vertex BY FiniteGraph
<1>2. \A e \in F : e[1] \in Vertex /\ e[2] \in Vertex BY <1>1
<1>3. Along(E) \subseteq Along(F) BY DEF Along
<1>4. \A p \in Along(E) : p \in Vertex \X Vertex BY <1>1, <1>2 DEF Along
<1> QED BY <1>3, <1>4

\* The search begins.
LEMMA CausalBegins ==
  ASSUME Shaped, NEW v \in Entity, NEW kind \in {"causal", "incoming"}, CausalSearch(v, kind)
  PROVE CausalInv'
<1>1. /\ edges' = edges /\ before' = edges /\ search'.starts = <<v>>
      /\ search'.queue = <<<<v, 0>>>> /\ search'.visited = <<>> /\ search'.found = <<>> /\ search'.done = FALSE
  BY CausalFields
<1>2. v \in Vertex /\ ToSet(<<>>) = {} /\ <<v>>[1] = v /\ <<v>> = <<<<v>>[1]>> BY DEF Vertex, ToSet
<1>3. \A i \in DOMAIN <<<<v, 0>>>> : <<<<v, 0>>>>[i][2] <= CausalDepth + 1
  <2>1. DOMAIN <<<<v, 0>>>> = {1} /\ <<<<v, 0>>>>[1][2] = 0 OBVIOUS
  <2> QED BY <2>1, SearchConstants
<1>4. Bfs(Along(before)', Along(edges)', v, CausalDepth, <<<<v, 0>>>>, {}, [x \in {} |-> 0])
  BY <1>2, SearchConstants, BfsStarts
<1>5. \E dep : Bfs(Along(before), Along(edges), search.starts[1], CausalDepth, search.queue,
                   ToSet(search.visited), dep)'
  BY <1>1, <1>2, <1>4
<1>6. FoundOnce'
  <2>1. <<>> \in Seq(edges') /\ IsInjective(<<>>) /\ DOMAIN <<>> = {} BY DEF IsInjective
  <2> QED BY <1>1, <2>1 DEF FoundOnce
<1> QED BY <1>1, <1>2, <1>3, <1>5, <1>6 DEF CausalInv

\* Edges are added meanwhile.
LEMMA CausalGrow ==
  ASSUME Shaped, CausalInv, NEW e \in PossibleEdges, Grow(e)
  PROVE CausalInv'
<1>1. edges \subseteq edges' /\ before' = before /\ search' = search /\ Shaped' BY GrowFields
<1> SUFFICES ASSUME search.kind \in {"causal", "incoming"} PROVE CausalInv' BY <1>1 DEF CausalInv
<1>2. PICK dep : Bfs(Along(before), Along(edges), search.starts[1], CausalDepth, search.queue,
                     ToSet(search.visited), dep)
  BY DEF CausalInv
<1>3. Along(edges) \subseteq Along(edges') /\ Along(before)' = Along(before) /\ Along(edges)' = Along(edges')
  <2>1. Along(edges) \subseteq Along(edges')
    <3>1. edges' \in SUBSET PossibleEdges BY <1>1 DEF Shaped
    <3> QED BY <1>1, <3>1, AlongPairs
  <2>2. Along(before)' = Along(before) /\ Along(edges)' = Along(edges') BY <1>1 DEF Along
  <2> QED BY <2>1, <2>2
<1>4. Bfs(Along(before), Along(edges'), search.starts[1], CausalDepth, search.queue, ToSet(search.visited), dep)
  BY <1>2, <1>3, BfsGrows
<1>5. \E d : Bfs(Along(before), Along(edges), search.starts[1], CausalDepth, search.queue,
                 ToSet(search.visited), d)'
  BY <1>1, <1>3, <1>4
<1>6. FoundOnce'
  <2>1. search.found \in Seq(edges') BY <1>1, SeqMonotonic DEF CausalInv, FoundOnce
  <2> QED BY <1>1, <2>1 DEF CausalInv, FoundOnce, NearEnd
<1> QED BY <1>1, <1>5, <1>6 DEF CausalInv

\* One list of edges after another repeats none, if the near ends of the second are new.
LEMMA FoundAppended ==
  ASSUME Shaped, search.kind \in {"causal", "incoming"}, FoundOnce, NEW v, ~Visited(v)
  PROVE LET c == SetToSeq(CausalFrom(v)) IN
        /\ search.found \o c \in Seq(edges) /\ IsInjective(search.found \o c)
        /\ \A i \in DOMAIN (search.found \o c) :
             NearEnd((search.found \o c)[i]) \in ToSet(search.visited) \cup {v}
<1> DEFINE c == SetToSeq(CausalFrom(v))
           f == search.found
           g == f \o c
           V == ToSet(search.visited)
<1>1. CausalFrom(v) \in SUBSET edges /\ IsFiniteSet(CausalFrom(v))
  <2>1. CausalFrom(v) \in SUBSET edges BY CausalRead
  <2>2. CausalFrom(v) \in SUBSET PossibleEdges BY <2>1 DEF Shaped
  <2> QED BY <2>1, <2>2, FiniteGraph
<1>2. c \in Seq(CausalFrom(v)) /\ ToSet(c) = CausalFrom(v) /\ IsInjective(c) BY <1>1, SetToSeqLists
<1>3. c \in Seq(edges) BY <1>1, <1>2, SeqMonotonic
<1>4. \A i \in DOMAIN c : NearEnd(c[i]) = v
  <2>1. \A p \in CausalFrom(v) : NearEnd(p) = v BY DEF CausalFrom, NearEnd
  <2>2. \A i \in DOMAIN c : c[i] \in CausalFrom(v) BY <1>2 DEF ToSet
  <2> QED BY <2>1, <2>2
<1>5. f \in Seq(edges) /\ IsInjective(f) /\ \A i \in DOMAIN f : NearEnd(f[i]) \in V BY DEF FoundOnce
<1>6. v \notin V BY DEF Visited
<1> HIDE DEF c, f, g, V
<1>7. /\ g \in Seq(edges)
      /\ \A i \in DOMAIN f : g[i] = f[i]
      /\ \A i \in DOMAIN g : i \in DOMAIN f \/ (i - Len(f) \in DOMAIN c /\ g[i] = c[i - Len(f)])
      /\ DOMAIN g \subseteq Nat /\ Len(f) \in Nat
  <2>1. g \in Seq(edges) BY <1>3, <1>5 DEF g
  <2>2. DOMAIN g = 1..Len(g) BY <2>1
  <2> QED BY <1>3, <1>5, <2>1, <2>2, ConcatEntries DEF g
<1>8. \A i \in DOMAIN g : NearEnd(g[i]) \in V \cup {v} BY <1>4, <1>5, <1>7
<1>9. ASSUME NEW i \in DOMAIN g, NEW j \in DOMAIN g, g[i] = g[j] PROVE i = j
  <2>1. CASE i \in DOMAIN f /\ j \in DOMAIN f BY <1>5, <1>7, <1>9, <2>1 DEF IsInjective
  <2>2. CASE i \notin DOMAIN f /\ j \notin DOMAIN f
    <3>1. i - Len(f) \in DOMAIN c /\ j - Len(f) \in DOMAIN c /\ c[i - Len(f)] = c[j - Len(f)]
      BY <1>7, <1>9, <2>2
    <3>2. i - Len(f) = j - Len(f) BY <1>2, <3>1 DEF IsInjective
    <3>3. i \in Nat /\ j \in Nat BY <1>7
    <3> QED BY <1>7, <3>2, <3>3
  <2>3. CASE i \in DOMAIN f /\ j \notin DOMAIN f
    <3>1. NearEnd(g[i]) \in V BY <1>5, <1>7, <2>3
    <3>2. NearEnd(g[j]) = v BY <1>4, <1>7, <2>3
    <3> QED BY <1>6, <1>9, <3>1, <3>2
  <2>4. CASE i \notin DOMAIN f /\ j \in DOMAIN f
    <3>1. NearEnd(g[j]) \in V BY <1>5, <1>7, <2>4
    <3>2. NearEnd(g[i]) = v BY <1>4, <1>7, <2>4
    <3> QED BY <1>6, <1>9, <3>1, <3>2
  <2> QED BY <2>1, <2>2, <2>3, <2>4
<1>10. IsInjective(g) BY <1>9 DEF IsInjective
<1> QED BY <1>7, <1>8, <1>10 DEF c, f, g, V

\* A node is taken from the queue.
LEMMA CausalExpand ==
  ASSUME Shaped, CausalInv, Expand
  PROVE CausalInv'
<1> DEFINE v == Head(search.queue)[1]
           d == Head(search.queue)[2]
           S == {OtherEnd(p) : p \in CausalFrom(v)}
           r == AtDepth(Unseen(S, v), d + 1)
           c == SetToSeq(CausalFrom(v))
           V == ToSet(search.visited)
           s == search.starts[1]
           drop == d > CausalDepth \/ Visited(v)
<1>1. /\ before' = before /\ edges' = edges /\ search.queue # <<>> /\ ~search.done
      /\ search.kind \in {"causal", "incoming"} /\ search'.kind = search.kind
      /\ search'.starts = search.starts /\ search'.done = search.done
      /\ v \in Vertex /\ d \in Nat /\ r \in Seq(Vertex \X Nat)
      /\ drop => /\ search'.queue = Tail(search.queue) /\ search'.visited = search.visited
                 /\ search'.found = search.found
      /\ ~drop => /\ search'.queue = Tail(search.queue) \o r /\ search'.visited = Append(search.visited, v)
                  /\ search'.found = search.found \o c
  BY ExpandFields
<1>2. search.queue \in Seq(Vertex \X Nat) /\ search.visited \in Seq(Vertex) BY DEF Shaped, SearchRecord
<1>3. /\ Tail(search.queue) \in Seq(Vertex \X Nat) /\ Head(search.queue) = search.queue[1] /\ 1 \in DOMAIN search.queue
      /\ \A i \in DOMAIN Tail(search.queue) : i + 1 \in DOMAIN search.queue /\ Tail(search.queue)[i] = search.queue[i + 1]
  BY <1>1, <1>2, TailEntries
<1>4. /\ search.starts = <<search.starts[1]>>
      /\ \A i \in DOMAIN search.queue : search.queue[i][2] <= CausalDepth + 1
      /\ FoundOnce
  BY <1>1 DEF CausalInv
<1>5. PICK dep : Bfs(Along(before), Along(edges), s, CausalDepth, search.queue, V, dep) BY <1>1 DEF CausalInv
<1>6. v = search.queue[1][1] /\ d = search.queue[1][2] BY <1>3
<1>7. Along(before)' = Along(before) /\ Along(edges)' = Along(edges) BY <1>1 DEF Along
<1>8. CausalDepth \in Nat BY SearchConstants
<1>9. CASE drop
  <2>1. v \in V \/ d > CausalDepth BY <1>9 DEF Visited
  <2>2. Bfs(Along(before), Along(edges), s, CausalDepth, Tail(search.queue), V, dep)
    BY <1>1, <1>5, <1>6, <1>8, <2>1, BfsDrops
  <2>3. \A i \in DOMAIN Tail(search.queue) : Tail(search.queue)[i][2] <= CausalDepth + 1 BY <1>3, <1>4
  <2>4. /\ search'.queue = Tail(search.queue) /\ search'.visited = search.visited
        /\ search'.found = search.found
    BY <1>1, <1>9
  <2>5. FoundOnce' BY <1>1, <1>4, <2>4 DEF FoundOnce, NearEnd
  <2>6. \E x : Bfs(Along(before), Along(edges), search.starts[1], CausalDepth, search.queue, ToSet(search.visited), x)'
    BY <1>1, <1>7, <2>2, <2>4
  <2> HIDE DEF v, d, r, c, V, s, drop
  <2> QED BY <1>1, <1>4, <2>3, <2>4, <2>5, <2>6 DEF CausalInv
<1>10. CASE ~drop
  <2> DEFINE q == Tail(search.queue) \o r
             W == V \cup {v}
             dp == [x \in W |-> IF x = v THEN d ELSE dep[x]]
  <2>1. v \notin V /\ ~Visited(v) /\ d <= CausalDepth BY <1>1, <1>8, <1>10 DEF Visited
  <2>2. /\ search'.queue = q /\ search'.visited = Append(search.visited, v)
        /\ search'.found = search.found \o c
    <3> HIDE DEF v, d, r, c, drop
    <3> QED BY <1>1, <1>10
  <2>3. ToSet(search'.visited) = W
    <3> HIDE DEF v
    <3>1. ToSet(Append(search.visited, v)) = V \cup {v} BY <1>1, <1>2, AppendEntries
    <3> QED BY <2>2, <3>1
  <2>4. S \in SUBSET Vertex /\ \A y : y \in S <=> <<v, y>> \in Along(edges) BY <1>1, CausalRead
  <2>5. /\ \A k \in DOMAIN r : r[k][1] \in S /\ r[k][2] = d + 1
        /\ \A y \in S : y \notin V => y = v \/ \E k \in DOMAIN r : r[k][1] = y
    <3> DEFINE U == Unseen(S, v)
    <3> HIDE DEF S
    <3>1. U \in SUBSET Vertex /\ U \subseteq S BY <2>4 DEF Unseen
    <3>2. \A y \in S : y \notin V /\ y # v => y \in U BY DEF Unseen, Visited
    <3>3. d + 1 \in Nat BY <1>1
    <3>4. r = AtDepth(U, d + 1) OBVIOUS
    <3> HIDE DEF r, U, v, d, V
    <3>5. /\ \A k \in DOMAIN r : r[k][1] \in U /\ r[k][2] = d + 1
          /\ \A x \in U : \E k \in DOMAIN r : r[k][1] = x
      BY <3>1, <3>3, <3>4, AtDepthLists
    <3> QED BY <3>1, <3>2, <3>5
  <2>6. Bfs(Along(before), Along(edges), s, CausalDepth, q, W, dp)
    <3>1. W = V \cup {v} /\ dp = [x \in W |-> IF x = v THEN d ELSE dep[x]] OBVIOUS
    <3>2. \A y \in Vertex : <<v, y>> \in Along(before) => y \in S
      <4>1. Along(before) \subseteq Along(edges) BY AlongPairs DEF Shaped
      <4> QED BY <2>4, <4>1
    <3> HIDE DEF v, d, r, V, s, S, W, dp
    <3>3. \A k \in DOMAIN r : r[k][2] = d + 1 /\ <<v, r[k][1]>> \in Along(edges) BY <2>4, <2>5
    <3>4. \A y \in Vertex : <<v, y>> \in Along(before) => y \in V \/ y = v \/ \E k \in DOMAIN r : r[k][1] = y
      BY <2>5, <3>2
    <3>5. Visits(Along(before), Along(edges), CausalDepth, search.queue, V, v, d, r)
      BY <1>1, <1>6, <2>1, <3>3, <3>4 DEF Visits
    <3> QED BY <1>5, <1>8, <3>1, <3>5, BfsVisits
  <2>7. \A i \in DOMAIN q : q[i][2] <= CausalDepth + 1
    <3>1. ASSUME NEW i \in DOMAIN q PROVE q[i][2] <= CausalDepth + 1
      <4>0. /\ \A j \in DOMAIN Tail(search.queue) : q[j] = Tail(search.queue)[j]
            /\ i \in DOMAIN Tail(search.queue) \/
                 (i - Len(Tail(search.queue)) \in DOMAIN r /\ q[i] = r[i - Len(Tail(search.queue))])
        <5> HIDE DEF r
        <5> QED BY <1>1, <1>3, <3>1, ConcatEntries
      <4>1. CASE i \in DOMAIN Tail(search.queue) BY <1>3, <1>4, <4>0, <4>1
      <4>2. CASE i - Len(Tail(search.queue)) \in DOMAIN r /\ q[i] = r[i - Len(Tail(search.queue))]
        <5>1. q[i][2] = d + 1 BY <2>5, <4>2
        <5> HIDE DEF q, d
        <5> QED BY <1>1, <1>8, <2>1, <5>1
      <4> QED BY <4>0, <4>1, <4>2
    <3> QED BY <3>1
  <2>8. FoundOnce'
    <3>1. /\ search.found \o c \in Seq(edges) /\ IsInjective(search.found \o c)
          /\ \A i \in DOMAIN (search.found \o c) : NearEnd((search.found \o c)[i]) \in V \cup {v}
      BY <1>1, <1>4, <2>1, FoundAppended
    <3>2. \A p : NearEnd(p)' = NearEnd(p') BY <1>1 DEF NearEnd
    <3>3. NearEnd(search.found[1])' = NearEnd(search'.found[1]) BY <1>1 DEF NearEnd
    <3>4. \A i \in DOMAIN search'.found : NearEnd(search.found[i])' \in ToSet(search'.visited)
      <4>1. \A i : NearEnd(search.found[i])' = NearEnd(search'.found[i]) BY <1>1 DEF NearEnd
      <4> HIDE DEF c, v
      <4> QED BY <2>2, <2>3, <3>1, <4>1
    <3> HIDE DEF c, v
    <3> QED BY <1>1, <2>2, <3>1, <3>4 DEF FoundOnce
  <2> HIDE DEF v, d, r, c, q, W, dp, V, S, drop
  <2>9. \E x : Bfs(Along(before), Along(edges), search.starts[1], CausalDepth, search.queue, ToSet(search.visited), x)'
    BY <1>1, <1>7, <2>2, <2>3, <2>6
  <2> QED BY <1>1, <1>4, <2>2, <2>7, <2>8, <2>9 DEF CausalInv
<1> QED BY <1>9, <1>10

\* The search ends.
LEMMA CausalEnds ==
  ASSUME Shaped, CausalInv, CausalDone
  PROVE CausalInv'
<1>1. /\ before' = before /\ edges' = edges
      /\ search.kind \in {"causal", "incoming"} /\ search'.kind = search.kind
      /\ search'.starts = search.starts /\ search'.queue = search.queue
      /\ search'.visited = search.visited /\ search'.found = search.found
      /\ search.queue = <<>> \/ Len(search.visited) >= MaxVisited
  BY CausalDoneFields
<1>2. Along(before)' = Along(before) /\ Along(edges)' = Along(edges) BY <1>1 DEF Along
<1>3. FoundOnce' BY <1>1 DEF CausalInv, FoundOnce, NearEnd
<1>4. \E x : Bfs(Along(before), Along(edges), search.starts[1], CausalDepth, search.queue, ToSet(search.visited), x)'
  BY <1>1, <1>2 DEF CausalInv
<1> QED BY <1>1, <1>3, <1>4 DEF CausalInv

\* What the search promises follows: what waits lies no nearer than what has been visited.
LEMMA CausalPromise ==
  ASSUME Shaped, CausalInv
  PROVE CausalNearestFirst
<1> SUFFICES ASSUME search.kind \in {"causal", "incoming"}, search.done PROVE CausalNearestFirst
  BY DEF CausalNearestFirst
<1> DEFINE V == ToSet(search.visited)
           s == search.starts[1]
           B == Along(before)
           F == Along(edges)
<1>1. PICK dep : Bfs(B, F, s, CausalDepth, search.queue, V, dep) BY DEF CausalInv
<1>2. /\ FoundOnce /\ search.starts = <<search.starts[1]>>
      /\ search.queue = <<>> \/ Len(search.visited) >= MaxVisited
  BY DEF CausalInv
<1>3. ToSet(search.starts) = {s}
  <2>1. \A x : ToSet(<<x>>) = {x} BY DEF ToSet
  <2> QED BY <1>2, <2>1
<1>4. B \in SUBSET (Vertex \X Vertex) BY AlongPairs DEF Shaped
<1>5. CausalDepth \in Nat /\ MaxVisited \in Nat BY SearchConstants
<1>6. search.queue \in Seq(Vertex \X Nat) /\ dep \in [V -> Nat] BY <1>1 DEF Bfs
<1> HIDE DEF V, s, B, F
<1>7. search.queue = <<>> => Within(B, {s}, CausalDepth) \subseteq V
  <2>1. SUFFICES ASSUME search.queue = <<>> PROVE Within(B, {s}, CausalDepth) \subseteq V OBVIOUS
  <2>2. \A i \in DOMAIN search.queue : CausalDepth < search.queue[i][2] BY <2>1
  <2>3. CausalDepth <= CausalDepth /\ CausalDepth \in 0..CausalDepth BY <1>5
  <2>4. \A n \in 0..CausalDepth : \A v \in Within(B, {s}, n) : v \in V /\ dep[v] <= n
    BY <1>1, <1>4, <1>5, <2>2, <2>3, BfsReaches
  <2> QED BY <2>3, <2>4
<1>8. ASSUME NEW n \in 0..CausalDepth, NEW x \in V, x \notin Within(F, {s}, n)
      PROVE Within(B, {s}, n) \subseteq V
  <2>1. dep[x] \in Nat /\ x \in Within(F, {s}, dep[x]) BY <1>1, <1>6 DEF Bfs
  <2>2. ~(dep[x] <= n)
    <3>1. ASSUME dep[x] <= n PROVE FALSE
      <4>1. Within(F, {s}, dep[x]) \subseteq Within(F, {s}, n) BY <2>1, <3>1, WithinFurther
      <4> QED BY <1>8, <2>1, <4>1
    <3> QED BY <3>1
  <2>3. \A i \in DOMAIN search.queue : dep[x] <= search.queue[i][2] /\ search.queue[i][2] \in Nat
    BY <1>1, <1>6, QueueEntries DEF Bfs
  <2>4. n \in Nat /\ n <= CausalDepth /\ n \in 0..n OBVIOUS
  <2>5. \A i \in DOMAIN search.queue : n < search.queue[i][2] BY <2>1, <2>2, <2>3, <2>4
  <2>6. \A k \in 0..n : \A v \in Within(B, {s}, k) : v \in V /\ dep[v] <= k
    BY <1>1, <1>4, <1>5, <2>4, <2>5, BfsReaches
  <2> QED BY <2>4, <2>6
<1>9. \A n \in 0..CausalDepth : Within(B, {s}, n) \subseteq V \/ V \subseteq Within(F, {s}, n) BY <1>8
<1>10. ToSet(search.found) \subseteq edges /\ IsInjective(search.found) BY <1>2 DEF FoundOnce, ToSet
<1>11. Len(search.visited) < MaxVisited => Within(B, {s}, CausalDepth) \subseteq V
  <2>1. Len(search.visited) \in Nat BY DEF Shaped, SearchRecord
  <2>2. Len(search.visited) < MaxVisited => ~(Len(search.visited) >= MaxVisited) BY <1>5, <2>1
  <2>3. search.queue = <<>> \/ Len(search.visited) >= MaxVisited BY <1>2
  <2> QED BY <1>7, <2>2, <2>3, Zenon
<1>12. /\ \A n \in 0..CausalDepth : \/ Within(B, ToSet(search.starts), n) \subseteq V
                                    \/ V \subseteq Within(F, ToSet(search.starts), n)
       /\ Len(search.visited) < MaxVisited => Within(B, ToSet(search.starts), CausalDepth) \subseteq V
  BY <1>3, <1>9, <1>11
<1> QED BY <1>10, <1>12, Zenon DEF CausalNearestFirst, V, B, F
-----------------------------------------------------------------------------
(* Depth first search *)

Frame == [node : Vertex, todo : SUBSET Vertex]

\* A walk from s along edges of E, of at most D steps.
IsWalk(E, s, D, w) ==
  /\ Head(w) = s /\ Len(w) - 1 \in 1..D
  /\ \A j \in 1..Len(w) - 1 : <<w[j], w[j + 1]>> \in E

\* Node z is the end of a walk that was found.
Ended(found, z) == \E k \in DOMAIN found : Last(found[k]) = z

\* A search from s under way: the edges B were there when it began, E are there now; the stack
\* is a walk, each of its nodes with edges still to follow; the edges B from a node of V lead
\* to the end of a walk that was found, or are still to follow; and of a search two deep,
\* those from s lead into V or are still to follow.
Dfs(B, E, s, D, stack, V, found) ==
  /\ stack \in Seq(Frame) /\ found \in Seq(Seq(Vertex)) /\ V \subseteq Vertex
  /\ s \in V /\ D \in 1..2 /\ Len(stack) <= D
  /\ stack # <<>> => stack[1].node = s
  /\ \A i \in 1..Len(stack) - 1 : <<stack[i].node, stack[i + 1].node>> \in E
  /\ \A i \in DOMAIN stack : \A z \in stack[i].todo : <<stack[i].node, z>> \in E
  /\ \A k \in DOMAIN found : IsWalk(E, s, D, found[k])
  /\ \A y \in V, z \in Vertex : <<y, z>> \in B =>
       Ended(found, z) \/ \E i \in DOMAIN stack : stack[i].node = y /\ z \in stack[i].todo
  /\ D = 2 => \A y \in Vertex : <<s, y>> \in B => y \in V \/ (stack # <<>> /\ y \in stack[1].todo)

\* The entries of a sequence but the last.
LEMMA FrontEntries ==
  ASSUME NEW A, NEW s \in Seq(A), s # <<>>
  PROVE /\ Front(s) \in Seq(A) /\ Len(Front(s)) = Len(s) - 1 /\ Len(s) \in Nat \ {0}
        /\ \A i \in 1..Len(s) - 1 : Front(s)[i] = s[i]
        /\ Last(s) = s[Len(s)] /\ Last(s) \in A
<1>1. Len(s) \in Nat \ {0} BY EmptySeq
<1>2. Front(s) = SubSeq(s, 1, Len(s) - 1) BY DEF Front
<1>3. /\ Front(s) \in Seq(A) /\ Len(Front(s)) = Len(s) - 1
      /\ \A i \in 1..Len(s) - 1 : Front(s)[i] = s[i]
  <2> DEFINE n == Len(s) - 1
  <2>1. n \in Int /\ n \in Nat /\ 1 \in Int BY <1>1
  <2>2. \A i \in 1..n : s[i] \in A BY <1>1
  <2> HIDE DEF n
  <2>3. /\ SubSeq(s, 1, n) \in Seq(A) /\ Len(SubSeq(s, 1, n)) = IF 1 <= n THEN n - 1 + 1 ELSE 0
        /\ \A i \in 1..n - 1 + 1 : SubSeq(s, 1, n)[i] = s[1 + i - 1]
    BY <2>1, <2>2, SubSeqProperties
  <2>4. n - 1 + 1 = n /\ (IF 1 <= n THEN n - 1 + 1 ELSE 0) = n BY <2>1
  <2>5. \A i \in 1..n : 1 + i - 1 = i BY <2>1
  <2>6. Front(s) = SubSeq(s, 1, n) BY <1>2 DEF n
  <2>7. Front(s) \in Seq(A) /\ Len(Front(s)) = n /\ \A i \in 1..n : Front(s)[i] = s[i]
    BY <2>3, <2>4, <2>5, <2>6
  <2> QED BY <2>7 DEF n
<1>4. \A i \in 1..Len(s) - 1 : Front(s)[i] = s[i] BY <1>3
<1>5. Last(s) = s[Len(s)] /\ Last(s) \in A BY <1>1 DEF Last
<1> QED BY <1>1, <1>3, <1>4, <1>5

\* The search begins at s, with the edges that lead from it.
LEMMA DfsBegins ==
  ASSUME NEW B, NEW E, B \subseteq E, NEW s \in Vertex, NEW D \in 1..2,
         NEW S \in SUBSET Vertex, \A y : y \in S <=> <<s, y>> \in E
  PROVE Dfs(B, E, s, D, <<[node |-> s, todo |-> S]>>, {s}, <<>>)
<1> DEFINE f == [node |-> s, todo |-> S]
           q == <<f>>
<1>1. f \in Frame /\ f.node = s /\ f.todo = S BY DEF Frame
<1> HIDE DEF f
<1>2. q \in Seq(Frame) /\ Len(q) = 1 /\ DOMAIN q = {1} /\ q[1] = f /\ q # <<>> BY <1>1
<1>3. <<>> \in Seq(Seq(Vertex)) /\ DOMAIN <<>> = {} BY EmptySeq
<1> HIDE DEF q
<1>4. Dfs(B, E, s, D, q, {s}, <<>>)
  <2>1. \A i \in 1..Len(q) - 1 : FALSE BY <1>2
  <2> QED BY <1>1, <1>2, <1>3, <2>1 DEF Dfs
<1> QED BY <1>4 DEF q, f

\* An edge that is added breaks no walk.
LEMMA DfsGrows ==
  ASSUME NEW B, NEW E, NEW G, E \subseteq G, NEW s, NEW D, NEW stack, NEW V, NEW found,
         Dfs(B, E, s, D, stack, V, found)
  PROVE Dfs(B, G, s, D, stack, V, found)
<1>1. \A w : IsWalk(E, s, D, w) => IsWalk(G, s, D, w) BY DEF IsWalk
<1> QED BY <1>1 DEF Dfs

\* A node none of whose edges is still to follow is left.
LEMMA DfsAscends ==
  ASSUME NEW B, NEW E, NEW s, NEW D, NEW stack, NEW V, NEW found,
         Dfs(B, E, s, D, stack, V, found), stack # <<>>, Last(stack).todo = {}
  PROVE Dfs(B, E, s, D, Front(stack), V, found) /\ (Front(stack) = <<>> <=> Len(stack) = 1)
<1> DEFINE q == Front(stack)
           n == Len(stack)
<1>1. stack \in Seq(Frame) /\ D \in 1..2 /\ n <= D BY DEF Dfs
<1>2. /\ q \in Seq(Frame) /\ Len(q) = n - 1 /\ n \in Nat \ {0}
      /\ \A i \in 1..n - 1 : q[i] = stack[i]
      /\ stack[n].todo = {}
  BY <1>1, FrontEntries
<1>3. DOMAIN stack = 1..n /\ DOMAIN q = 1..n - 1 BY <1>1, <1>2
<1>4. q = <<>> <=> n = 1
  <2>1. q = <<>> => Len(q) = 0 OBVIOUS
  <2>2. Len(q) = 0 => q = <<>> BY <1>2, EmptySeq
  <2> HIDE DEF q, n
  <2> QED BY <1>2, <2>1, <2>2
<1> HIDE DEF q, n
<1>5. \A i \in DOMAIN stack : i = n \/ (i \in DOMAIN q /\ q[i] = stack[i]) BY <1>2, <1>3
<1>6. n - 1 <= D /\ (n # 1 => 1 \in 1..n - 1) BY <1>1, <1>2
<1>7. \A i \in 1..Len(q) - 1 : <<q[i].node, q[i + 1].node>> \in E
  <2>1. ASSUME NEW i \in 1..Len(q) - 1 PROVE <<q[i].node, q[i + 1].node>> \in E
    <3>1. i \in 1..n - 1 /\ i + 1 \in 1..n - 1 BY <1>2, <2>1
    <3>2. <<stack[i].node, stack[i + 1].node>> \in E BY <3>1 DEF Dfs, n
    <3> QED BY <1>2, <3>1, <3>2
  <2> QED BY <2>1
<1>8. \A y \in V, z \in Vertex : <<y, z>> \in B =>
        Ended(found, z) \/ \E i \in DOMAIN q : q[i].node = y /\ z \in q[i].todo
  BY <1>2, <1>5 DEF Dfs
<1>9. D = 2 => \A y \in Vertex : <<s, y>> \in B => y \in V \/ (q # <<>> /\ y \in q[1].todo)
  BY <1>2, <1>4, <1>6 DEF Dfs
<1>10. \A i \in DOMAIN q : \A z \in q[i].todo : <<q[i].node, z>> \in E
  <2>1. \A i \in DOMAIN q : i \in DOMAIN stack /\ q[i] = stack[i] BY <1>2, <1>3
  <2> QED BY <2>1 DEF Dfs
<1>11. q # <<>> => q[1].node = s BY <1>2, <1>4, <1>6 DEF Dfs
<1>12. Dfs(B, E, s, D, q, V, found) BY <1>2, <1>6, <1>7, <1>8, <1>9, <1>10, <1>11 DEF Dfs
<1> QED BY <1>4, <1>12 DEF q, n

\* What is left on the stack when the edge to v has been taken from its last node.
Crossed(stack, v) == Append(Front(stack), [Last(stack) EXCEPT !.todo = @ \ {v}])

LEMMA CrossedEntries ==
  ASSUME NEW stack \in Seq(Frame), stack # <<>>, NEW v \in Vertex
  PROVE LET q == Crossed(stack, v)
            n == Len(stack) IN
        /\ q \in Seq(Frame) /\ Len(q) = n /\ n \in Nat \ {0} /\ DOMAIN q = 1..n /\ DOMAIN stack = 1..n
        /\ \A i \in 1..n : q[i].node = stack[i].node /\ q[i].todo \subseteq stack[i].todo
        /\ \A i \in 1..n : \A z \in stack[i].todo : z \in q[i].todo \/ z = v
        /\ \A i \in 1..n - 1 : q[i] = stack[i]
<1> DEFINE n == Len(stack)
           f == Front(stack)
           t == Last(stack)
           u == [t EXCEPT !.todo = @ \ {v}]
           q == Append(f, u)
<1>1. /\ f \in Seq(Frame) /\ Len(f) = n - 1 /\ n \in Nat \ {0}
      /\ \A i \in 1..n - 1 : f[i] = stack[i]
      /\ t = stack[n] /\ t \in Frame
  BY FrontEntries
<1>2. u \in Frame /\ u.node = t.node /\ u.todo = t.todo \ {v} BY <1>1 DEF Frame
<1>3. DOMAIN stack = 1..n /\ DOMAIN f = 1..n - 1 BY <1>1
<1> HIDE DEF n, f, t, u
<1>4. /\ q \in Seq(Frame) /\ Len(q) = n /\ DOMAIN q = 1..n
      /\ \A i \in 1..n - 1 : q[i] = f[i]
      /\ q[n] = u
  <2>1. (n - 1) + 1 = n BY <1>1
  <2> HIDE DEF q
  <2> QED BY <1>1, <1>2, <1>3, <2>1, AppendEntries DEF q
<1> HIDE DEF q
<1>5. \A i \in 1..n : i = n \/ i \in 1..n - 1 BY <1>1
<1>6. \A i \in 1..n : q[i].node = stack[i].node /\ q[i].todo \subseteq stack[i].todo BY <1>1, <1>2, <1>4, <1>5
<1>7. \A i \in 1..n : \A z \in stack[i].todo : z \in q[i].todo \/ z = v BY <1>1, <1>2, <1>4, <1>5
<1>8. \A i \in 1..n - 1 : q[i] = stack[i] BY <1>1, <1>4
<1>9. Crossed(stack, v) = q BY DEF Crossed, q, f, t, u
<1> QED BY <1>1, <1>3, <1>4, <1>6, <1>7, <1>8, <1>9 DEF n

\* The walk along the stack and on to v.
WalkTo(stack, v) == [i \in 1..Len(stack) |-> stack[i].node] \o <<v>>

LEMMA WalkToEntries ==
  ASSUME NEW B, NEW E, NEW s, NEW D, NEW stack, NEW V, NEW found, NEW v \in Vertex,
         Dfs(B, E, s, D, stack, V, found), stack # <<>>, v \in Last(stack).todo
  PROVE /\ WalkTo(stack, v) \in Seq(Vertex) /\ IsWalk(E, s, D, WalkTo(stack, v))
        /\ Last(WalkTo(stack, v)) = v
<1> DEFINE n == Len(stack)
           p == [i \in 1..n |-> stack[i].node]
           w == p \o <<v>>
<1>1. stack \in Seq(Frame) /\ D \in 1..2 /\ n <= D /\ stack[1].node = s BY DEF Dfs
<1>2. n \in Nat \ {0} /\ Last(stack) = stack[n] /\ DOMAIN stack = 1..n
  <2>1. n \in Nat \ {0} /\ Last(stack) = stack[n] BY <1>1, FrontEntries
  <2> QED BY <1>1, <2>1
<1>3. \A i \in 1..n : stack[i] \in Frame BY <1>1, <1>2
<1>4. p \in Seq(Vertex) /\ Len(p) = n /\ DOMAIN p = 1..n
  <2>1. \A i \in 1..n : stack[i].node \in Vertex BY <1>3 DEF Frame
  <2> HIDE DEF n
  <2>2. p \in [1..n -> Vertex] BY <2>1
  <2> QED BY <1>2, <2>2
<1>5. \A i \in 1..n : p[i] = stack[i].node OBVIOUS
<1>6. \A i \in 1..n - 1 : <<stack[i].node, stack[i + 1].node>> \in E BY DEF Dfs
<1>7. <<stack[n].node, v>> \in E
  <2>1. n \in DOMAIN stack /\ v \in stack[n].todo BY <1>2
  <2> HIDE DEF n
  <2> QED BY <2>1 DEF Dfs
<1> HIDE DEF n, p
<1>8. <<v>> \in Seq(Vertex) /\ Len(<<v>>) = 1 /\ <<v>>[1] = v OBVIOUS
<1>9. w \in Seq(Vertex) /\ Len(w) = n + 1 BY <1>4, <1>8
<1>10. (\A i \in 1..n : w[i] = p[i]) /\ w[n + 1] = v BY <1>2, <1>4, <1>8
<1> HIDE DEF w
<1>11. Head(w) = s
  <2>1. w # <<>> /\ 1 \in 1..n BY <1>2, <1>9
  <2>2. Head(w) = w[1] BY <1>9, <2>1
  <2> QED BY <1>1, <1>5, <1>10, <2>1, <2>2
<1>12. Len(w) - 1 = n /\ n \in 1..D BY <1>1, <1>2, <1>9 DEF n
<1>13. ASSUME NEW j \in 1..n PROVE <<w[j], w[j + 1]>> \in E
  <2>1. CASE j = n BY <1>5, <1>7, <1>10, <2>1
  <2>2. CASE j # n
    <3>1. j \in 1..n - 1 /\ j + 1 \in 1..n BY <1>2, <1>13, <2>2
    <3> QED BY <1>5, <1>6, <1>10, <3>1
  <2> QED BY <2>1, <2>2
<1>14. IsWalk(E, s, D, w) BY <1>11, <1>12, <1>13 DEF IsWalk
<1>15. Last(w) = v BY <1>9, <1>10 DEF Last
<1> QED BY <1>9, <1>14, <1>15 DEF WalkTo, w, p, n

\* The edge to v is followed, and v is not entered: it had been, or it lies too deep.
LEMMA DfsCrosses ==
  ASSUME NEW B, NEW E, NEW s, NEW D, NEW stack, NEW V, NEW found, NEW v \in Vertex,
         Dfs(B, E, s, D, stack, V, found), stack # <<>>, v \in Last(stack).todo,
         v \in V \/ Len(stack) + 1 > D
  PROVE Dfs(B, E, s, D, Crossed(stack, v), V, Append(found, WalkTo(stack, v)))
        /\ Crossed(stack, v) # <<>>
<1> DEFINE q == Crossed(stack, v)
           n == Len(stack)
           w == WalkTo(stack, v)
           g == Append(found, w)
           m == Len(found)
<1>1. /\ stack \in Seq(Frame) /\ found \in Seq(Seq(Vertex)) /\ D \in 1..2 /\ n <= D
  BY DEF Dfs
<1>2. /\ q \in Seq(Frame) /\ Len(q) = n /\ n \in Nat \ {0} /\ DOMAIN q = 1..n /\ DOMAIN stack = 1..n
      /\ \A i \in 1..n : q[i].node = stack[i].node /\ q[i].todo \subseteq stack[i].todo
      /\ \A i \in 1..n : \A z \in stack[i].todo : z \in q[i].todo \/ z = v
      /\ \A i \in 1..n - 1 : q[i] = stack[i]
  BY <1>1, CrossedEntries
<1>3. w \in Seq(Vertex) /\ IsWalk(E, s, D, w) /\ Last(w) = v BY WalkToEntries
<1> HIDE DEF w, q
<1>4. /\ g \in Seq(Seq(Vertex)) /\ DOMAIN g = 1..m + 1 /\ \A k \in DOMAIN found : g[k] = found[k]
      /\ g[m + 1] = w /\ m \in Nat /\ DOMAIN found = 1..m
  BY <1>1, <1>3, AppendEntries
<1> HIDE DEF g, m
<1>5. \A k \in DOMAIN g : k = m + 1 \/ k \in DOMAIN found BY <1>4
<1>6. \A k \in DOMAIN g : IsWalk(E, s, D, g[k]) BY <1>3, <1>4, <1>5 DEF Dfs
<1>7. Ended(g, v) /\ \A z : Ended(found, z) => Ended(g, z)
  <2>1. m + 1 \in DOMAIN g /\ \A k \in DOMAIN found : k \in DOMAIN g BY <1>4
  <2> QED BY <1>3, <1>4, <2>1 DEF Ended
<1>8. \A y \in V, z \in Vertex : <<y, z>> \in B =>
        Ended(g, z) \/ \E i \in DOMAIN q : q[i].node = y /\ z \in q[i].todo
  <2>1. ASSUME NEW y \in V, NEW z \in Vertex, <<y, z>> \in B, z # v, ~Ended(found, z)
        PROVE \E i \in DOMAIN q : q[i].node = y /\ z \in q[i].todo
    <3>1. PICK i \in DOMAIN stack : stack[i].node = y /\ z \in stack[i].todo BY <2>1 DEF Dfs
    <3> QED BY <1>2, <2>1, <3>1
  <2> QED BY <1>7, <2>1
<1>9. q # <<>>
  <2>1. q = <<>> => Len(q) = 0 OBVIOUS
  <2> HIDE DEF n
  <2> QED BY <1>2, <2>1
<1>10. 1 \in 1..n BY <1>2
<1>11. D = 2 => \A y \in Vertex : <<s, y>> \in B => y \in V \/ (q # <<>> /\ y \in q[1].todo)
  <2>1. ASSUME D = 2, NEW y \in Vertex, <<s, y>> \in B, y \notin V PROVE y \in q[1].todo
    <3>1. y \in stack[1].todo BY <2>1 DEF Dfs
    <3>2. CASE n = 1
      <4>1. ~(n + 1 > D) BY <2>1, <3>2
      <4>2. v \in V BY <4>1 DEF n
      <4> QED BY <1>2, <1>10, <2>1, <3>1, <4>2
    <3>3. CASE n # 1
      <4>1. 1 \in 1..n - 1 BY <1>2, <3>3
      <4> QED BY <1>2, <3>1, <4>1
    <3> QED BY <3>2, <3>3
  <2> QED BY <1>9, <2>1
<1>12. \A i \in 1..Len(q) - 1 : <<q[i].node, q[i + 1].node>> \in E
  <2>1. ASSUME NEW i \in 1..n - 1 PROVE <<q[i].node, q[i + 1].node>> \in E
    <3>1. i \in 1..n /\ i + 1 \in 1..n BY <1>2, <2>1
    <3>2. <<stack[i].node, stack[i + 1].node>> \in E BY <2>1 DEF Dfs, n
    <3> QED BY <1>2, <3>1, <3>2
  <2> QED BY <1>2, <2>1
<1>13. \A i \in DOMAIN q : \A z \in q[i].todo : <<q[i].node, z>> \in E BY <1>2 DEF Dfs
<1>14. q[1].node = s BY <1>2, <1>10 DEF Dfs
<1>15. Len(q) <= D /\ V \subseteq Vertex /\ s \in V BY <1>1, <1>2 DEF Dfs
<1> HIDE DEF n
<1>16. Dfs(B, E, s, D, q, V, g)
  BY <1>1, <1>2, <1>4, <1>6, <1>8, <1>11, <1>12, <1>13, <1>14, <1>15 DEF Dfs
<1> QED BY <1>9, <1>16 DEF q, g, w

\* What the edges E lead to from v.
Leads(E, v, S) == S \in SUBSET Vertex /\ \A y : y \in S <=> <<v, y>> \in E

\* The edge to v is followed, and v is entered with the edges that lead from it.
LEMMA DfsEnters ==
  ASSUME NEW B, NEW E, B \subseteq E, NEW s, NEW D, NEW stack, NEW V, NEW found, NEW v \in Vertex,
         Dfs(B, E, s, D, stack, V, found), stack # <<>>, v \in Last(stack).todo,
         v \notin V, Len(stack) + 1 <= D,
         NEW S, Leads(E, v, S)
  PROVE /\ Dfs(B, E, s, D, Append(Crossed(stack, v), [node |-> v, todo |-> S]), V \cup {v},
               Append(found, WalkTo(stack, v)))
        /\ Append(Crossed(stack, v), [node |-> v, todo |-> S]) # <<>>
<1> DEFINE c == Crossed(stack, v)
           u == [node |-> v, todo |-> S]
           q == Append(c, u)
           n == Len(stack)
           w == WalkTo(stack, v)
           g == Append(found, w)
           m == Len(found)
           W == V \cup {v}
<1>1. stack \in Seq(Frame) /\ found \in Seq(Seq(Vertex)) /\ D \in 1..2 /\ n <= D BY DEF Dfs
<1>2. /\ c \in Seq(Frame) /\ Len(c) = n /\ n \in Nat \ {0} /\ DOMAIN c = 1..n /\ DOMAIN stack = 1..n
      /\ \A i \in 1..n : c[i].node = stack[i].node /\ c[i].todo \subseteq stack[i].todo
      /\ \A i \in 1..n : \A z \in stack[i].todo : z \in c[i].todo \/ z = v
      /\ \A i \in 1..n - 1 : c[i] = stack[i]
  BY <1>1, CrossedEntries
<1>3. w \in Seq(Vertex) /\ IsWalk(E, s, D, w) /\ Last(w) = v
  <2> HIDE DEF c, u, q, n, g, m, W
  <2> HIDE DEF w
  <2>1. /\ WalkTo(stack, v) \in Seq(Vertex) /\ IsWalk(E, s, D, WalkTo(stack, v))
        /\ Last(WalkTo(stack, v)) = v
    BY WalkToEntries
  <2> QED BY <2>1 DEF w
<1>4. u \in Frame /\ u.node = v /\ u.todo = S BY DEF Frame, Leads
<1> HIDE DEF w, c, u
<1>5. /\ g \in Seq(Seq(Vertex)) /\ DOMAIN g = 1..m + 1 /\ \A k \in DOMAIN found : g[k] = found[k]
      /\ g[m + 1] = w /\ m \in Nat /\ DOMAIN found = 1..m
  BY <1>1, <1>3, AppendEntries
<1>6. /\ q \in Seq(Frame) /\ Len(q) = n + 1 /\ DOMAIN q = 1..n + 1
      /\ \A i \in 1..n : q[i] = c[i]
      /\ q[n + 1] = u
  BY <1>2, <1>4, AppendEntries
<1>7. n = 1 /\ D = 2 BY <1>1, <1>2 DEF n
<1> HIDE DEF g, m, q, n
<1>8. \A k \in DOMAIN g : k = m + 1 \/ k \in DOMAIN found BY <1>5
<1>9. \A k \in DOMAIN g : IsWalk(E, s, D, g[k]) BY <1>3, <1>5, <1>8 DEF Dfs
<1>10. Ended(g, v) /\ \A z : Ended(found, z) => Ended(g, z)
  <2>1. m + 1 \in DOMAIN g /\ \A k \in DOMAIN found : k \in DOMAIN g BY <1>5
  <2> QED BY <1>3, <1>5, <2>1 DEF Ended
<1>11. DOMAIN q = {1, 2} /\ DOMAIN stack = {1} /\ q[1] = c[1] /\ q[2] = u BY <1>2, <1>6, <1>7
<1>12. /\ c[1].node = stack[1].node /\ c[1].todo \subseteq stack[1].todo /\ stack[1].node = s
       /\ \A z \in stack[1].todo : z \in c[1].todo \/ z = v
       /\ Last(stack) = stack[1]
  <2>1. Last(stack) = stack[n] BY <1>1, FrontEntries DEF n
  <2> QED BY <1>2, <1>7, <2>1 DEF Dfs
<1>13. \A y \in W, z \in Vertex : <<y, z>> \in B =>
         Ended(g, z) \/ \E i \in DOMAIN q : q[i].node = y /\ z \in q[i].todo
  <2>1. ASSUME NEW y \in V, NEW z \in Vertex, <<y, z>> \in B, z # v, ~Ended(found, z)
        PROVE \E i \in DOMAIN q : q[i].node = y /\ z \in q[i].todo
    <3>1. PICK i \in DOMAIN stack : stack[i].node = y /\ z \in stack[i].todo BY <2>1 DEF Dfs
    <3> QED BY <1>11, <1>12, <2>1, <3>1
  <2>2. ASSUME NEW z \in Vertex, <<v, z>> \in B PROVE \E i \in DOMAIN q : q[i].node = v /\ z \in q[i].todo
    BY <1>4, <1>11, <2>2 DEF Leads
  <2> QED BY <1>10, <2>1, <2>2
<1>14. q # <<>>
  <2>1. q = <<>> => Len(q) = 0 OBVIOUS
  <2> QED BY <1>6, <1>7, <2>1
<1>15. D = 2 => \A y \in Vertex : <<s, y>> \in B => y \in W \/ (q # <<>> /\ y \in q[1].todo)
  <2>1. ASSUME NEW y \in Vertex, <<s, y>> \in B, y \notin W PROVE y \in q[1].todo
    <3>1. y \in stack[1].todo BY <1>7, <2>1 DEF Dfs
    <3> QED BY <1>11, <1>12, <2>1, <3>1
  <2> QED BY <1>14, <2>1
<1>16. \A i \in 1..Len(q) - 1 : <<q[i].node, q[i + 1].node>> \in E
  <2>1. \A i \in 1..Len(q) - 1 : i = 1 BY <1>6, <1>7
  <2>2. 1 \in DOMAIN stack BY <1>11
  <2>3. <<stack[1].node, v>> \in E BY <1>12, <2>2 DEF Dfs
  <2>4. q[1 + 1] = q[2] OBVIOUS
  <2> QED BY <1>4, <1>11, <1>12, <2>1, <2>3, <2>4
<1>17. \A i \in DOMAIN q : \A z \in q[i].todo : <<q[i].node, z>> \in E
  <2>1. \A z \in c[1].todo : <<c[1].node, z>> \in E
    <3>1. 1 \in DOMAIN stack BY <1>11
    <3> QED BY <1>12, <3>1 DEF Dfs
  <2> QED BY <1>4, <1>11, <2>1 DEF Leads
<1>18. q[1].node = s BY <1>11, <1>12
<1>19. Len(q) <= D /\ W \subseteq Vertex /\ s \in W BY <1>6, <1>7 DEF Dfs
<1> HIDE DEF W
<1>20. Dfs(B, E, s, D, q, W, g)
  BY <1>1, <1>5, <1>6, <1>9, <1>13, <1>15, <1>16, <1>17, <1>18, <1>19 DEF Dfs
<1> QED BY <1>14, <1>20 DEF q, g, w, W, c, u

\* When nothing is left to follow, whatever lay within the depth is the start or the end of a walk.
LEMMA DfsReaches ==
  ASSUME NEW B, B \in SUBSET (Vertex \X Vertex), NEW E, NEW s, NEW D, NEW V, NEW found,
         Dfs(B, E, s, D, <<>>, V, found)
  PROVE \A z \in Within(B, {s}, D) : z = s \/ Ended(found, z)
<1>1. D \in 1..2 /\ s \in V BY DEF Dfs
<1>2. \A y \in V, z \in Vertex : <<y, z>> \in B => Ended(found, z)
  <2>1. DOMAIN <<>> = {} OBVIOUS
  <2> QED BY <2>1 DEF Dfs
<1>3. D = 2 => \A y \in Vertex : <<s, y>> \in B => y \in V BY DEF Dfs
<1>4. \A e \in B : e = <<e[1], e[2]>> /\ e[1] \in Vertex /\ e[2] \in Vertex
  <2>1. \A e \in B : e \in Vertex \X Vertex OBVIOUS
  <2> QED BY <2>1
<1>5. \A z \in Within(B, {s}, 0) : z = s BY WithinZero
<1>6. \A z \in Within(B, {s}, 1) : z = s \/ (<<s, z>> \in B /\ z \in Vertex)
  <2>1. 0 \in Nat /\ 0 + 1 = 1 OBVIOUS
  <2>2. \A z : z \in Within(B, {s}, 0 + 1) <=>
                 z \in Within(B, {s}, 0) \/ \E e \in B : e[1] \in Within(B, {s}, 0) /\ e[2] = z
    BY <2>1, WithinNext
  <2>3. ASSUME NEW z, NEW e \in B, e[1] \in Within(B, {s}, 0), e[2] = z PROVE <<s, z>> \in B /\ z \in Vertex
    <3>1. e[1] = s /\ e = <<e[1], e[2]>> /\ e[2] \in Vertex BY <1>4, <1>5, <2>3
    <3>2. e = <<s, z>> BY <2>3, <3>1
    <3> QED BY <2>3, <3>1, <3>2
  <2> QED BY <1>5, <2>1, <2>2, <2>3
<1>7. \A z \in Within(B, {s}, 1) : z = s \/ Ended(found, z) BY <1>1, <1>2, <1>6
<1>8. CASE D = 1 BY <1>7, <1>8
<1>9. CASE D = 2
  <2>1. 1 \in Nat /\ 1 + 1 = 2 OBVIOUS
  <2>2. \A z : z \in Within(B, {s}, 1 + 1) <=>
                 z \in Within(B, {s}, 1) \/ \E e \in B : e[1] \in Within(B, {s}, 1) /\ e[2] = z
    BY <2>1, WithinNext
  <2>3. ASSUME NEW z, NEW e \in B, e[1] \in Within(B, {s}, 1), e[2] = z PROVE Ended(found, z)
    <3>1. e[1] \in V BY <1>1, <1>3, <1>6, <1>9, <2>3
    <3>2. <<e[1], z>> \in B /\ z \in Vertex BY <1>4, <2>3
    <3> QED BY <1>2, <3>1, <3>2
  <2> QED BY <1>7, <1>9, <2>1, <2>2, <2>3
<1> QED BY <1>1, <1>8, <1>9

-----------------------------------------------------------------------------
(* traverse_kg *)

WalkInv ==
  search.kind = "traverse" =>
    /\ search.starts = <<search.starts[1]>> /\ search.depth \in 0..2
    /\ search.visited = <<>> =>
         /\ search.found = <<>>
         /\ search.done => search.depth = 0
         /\ ~search.done => search.stack = <<[node |-> search.starts[1], todo |-> {}]>>
    /\ search.visited # <<>> =>
         /\ Dfs(before, edges, search.starts[1], search.depth, search.stack, ToSet(search.visited), search.found)
         /\ search.done <=> search.stack = <<>>

\* The search is called.
LEMMA WalkCalled ==
  ASSUME Shaped, NEW v \in Entity, NEW d \in TraverseDepths, Traverse(v, d)
  PROVE WalkInv'
<1>1. /\ search'.depth \in 0..2
      /\ search'.stack = <<[node |-> v, todo |-> {}]>> /\ search'.starts = <<v>>
      /\ search'.visited = <<>> /\ search'.found = <<>> /\ search'.done = FALSE
  BY TraverseFields
<1>2. search'.starts[1] = v BY <1>1
<1> QED BY <1>1, <1>2 DEF WalkInv

\* Edges are added meanwhile.
LEMMA WalkGrow ==
  ASSUME Shaped, WalkInv, NEW e \in PossibleEdges, Grow(e)
  PROVE WalkInv'
<1>1. edges \subseteq edges' /\ before' = before /\ search' = search BY GrowFields
<1>2. ASSUME Dfs(before, edges, search.starts[1], search.depth, search.stack, ToSet(search.visited), search.found)
      PROVE Dfs(before, edges', search.starts[1], search.depth, search.stack, ToSet(search.visited), search.found)
  BY <1>1, <1>2, DfsGrows
<1> QED BY <1>1, <1>2 DEF WalkInv

\* Fields of the search that no action of traverse_kg changes.
WalkFrame ==
  /\ UNCHANGED <<edges, before>>
  /\ search.kind = "traverse" /\ search'.kind = "traverse"
  /\ search'.starts = search.starts /\ search'.depth = search.depth
  /\ search'.queue = search.queue /\ search'.hops = search.hops

\* The start is entered, unless no step may be taken.
LEMMA WalkBegin ==
  ASSUME Shaped, WalkInv, Begin
  PROVE Shaped' /\ WalkInv' /\ WalkFrame
<1> DEFINE s == search.starts[1]
           q == Enter(<<>>, Top.node, 1)
           V == Mark(Top.node, 1)
<1>1. /\ search.kind = "traverse" /\ search.visited = <<>> /\ ~search.done /\ UNCHANGED <<edges, before>>
      /\ search' = [search EXCEPT !.stack = q, !.visited = V, !.done = search.depth = 0]
  BY DEF Begin
<1>2. /\ search.starts = <<s>> /\ search.depth \in 0..2 /\ search.found = <<>>
      /\ search.stack = <<[node |-> s, todo |-> {}]>>
  BY <1>1 DEF WalkInv
<1>3. search \in SearchRecord /\ edges \in SUBSET PossibleEdges /\ before \subseteq edges BY DEF Shaped
<1>4. s \in Vertex
  <2>1. search.starts \in Seq(Vertex) /\ Len(search.starts) = 1 BY <1>2, <1>3 DEF SearchRecord
  <2> QED BY <2>1
<1>5. Top.node = s
  <2>1. Len(search.stack) = 1 /\ search.stack[1].node = s BY <1>2
  <2> QED BY <2>1 DEF Top, Last
<1>6. ~Visited(s) BY <1>1 DEF Visited, ToSet
<1> HIDE DEF s
<1>7. From(s) \in SUBSET Vertex /\ \A y : y \in From(s) <=> <<s, y>> \in edges BY SuccessorsRead
<1>8. CASE search.depth = 0
  <2>1. q = <<>> /\ V = <<>> BY <1>1, <1>5, <1>8 DEF Enter, Mark
  <2> HIDE DEF q, V
  <2>2. search' = [search EXCEPT !.stack = <<>>, !.visited = <<>>, !.done = TRUE] BY <1>1, <1>8, <2>1
  <2>3. search' \in SearchRecord
    <3>1. <<>> \in Seq(Vertex) /\ <<>> \in Seq([node : Vertex, todo : SUBSET Vertex]) BY EmptySeq
    <3> QED BY <1>3, <2>2, <3>1 DEF SearchRecord
  <2>4. /\ search'.kind = "traverse" /\ search'.starts = search.starts /\ search'.depth = search.depth
        /\ search'.queue = search.queue /\ search'.hops = search.hops /\ search'.found = search.found
        /\ search'.visited = <<>> /\ search'.done = TRUE
    BY <1>1, <1>3, <2>2 DEF SearchRecord
  <2>5. WalkFrame BY <1>1, <2>4 DEF WalkFrame
  <2>6. Shaped' BY <1>1, <1>3, <2>3, <2>4 DEF Shaped
  <2>7. WalkInv' BY <1>2, <1>8, <2>4 DEF WalkInv, s
  <2> QED BY <2>5, <2>6, <2>7
<1>9. CASE search.depth # 0
  <2> DEFINE f == [node |-> s, todo |-> From(s)]
  <2>1. q = <<f>> /\ V = <<s>>
    <3>1. ~(1 > search.depth) BY <1>2, <1>9
    <3>2. Append(<<>>, f) = <<f>> /\ Append(<<>>, s) = <<s>> OBVIOUS
    <3> QED BY <1>1, <1>5, <1>6, <3>1, <3>2 DEF Enter, Mark
  <2>2. search.depth \in 1..2 BY <1>2, <1>9
  <2>3. Dfs(before, edges, s, search.depth, <<f>>, {s}, <<>>) BY <1>3, <1>4, <1>7, <2>2, DfsBegins
  <2> HIDE DEF q, V, f
  <2>4. search' = [search EXCEPT !.stack = <<f>>, !.visited = <<s>>, !.done = FALSE] BY <1>1, <1>9, <2>1
  <2>5. <<f>> \in Seq([node : Vertex, todo : SUBSET Vertex]) /\ <<s>> \in Seq(Vertex)
    BY <1>4, <2>3 DEF Dfs, Frame
  <2>6. search' \in SearchRecord BY <1>3, <2>4, <2>5 DEF SearchRecord
  <2>7. /\ search'.kind = "traverse" /\ search'.starts = search.starts /\ search'.depth = search.depth
        /\ search'.queue = search.queue /\ search'.hops = search.hops /\ search'.found = search.found
        /\ search'.visited = <<s>> /\ search'.done = FALSE /\ search'.stack = <<f>>
    BY <1>1, <1>3, <2>4 DEF SearchRecord
  <2>8. WalkFrame BY <1>1, <2>7 DEF WalkFrame
  <2>9. Shaped' BY <1>1, <1>3, <2>6, <2>7 DEF Shaped
  <2>10. ToSet(<<s>>) = {s} /\ <<s>> # <<>> /\ <<f>> # <<>> BY DEF ToSet
  <2>11. WalkInv' BY <1>1, <1>2, <2>3, <2>7, <2>10 DEF WalkInv, s
  <2> QED BY <2>8, <2>9, <2>11
<1> QED BY <1>8, <1>9

\* An edge is followed.
LEMMA WalkDescend ==
  ASSUME Shaped, WalkInv, NEW v \in Vertex, Descend(v)
  PROVE Shaped' /\ WalkInv' /\ WalkFrame
<1> DEFINE s == search.starts[1]
           D == search.depth
           stack == search.stack
           V == ToSet(search.visited)
           c == Crossed(stack, v)
           f == [node |-> v, todo |-> From(v)]
           q == Enter(c, v, Len(stack) + 1)
           u == Mark(v, Len(stack) + 1)
           g == Append(search.found, WalkTo(stack, v))
           stay == Len(stack) + 1 > D \/ Visited(v)
<1>1. /\ search.kind = "traverse" /\ search.visited # <<>> /\ ~search.done /\ UNCHANGED <<edges, before>>
      /\ v \in Last(stack).todo
      /\ search' = [search EXCEPT !.found = g, !.stack = q, !.visited = u]
  BY DEF Descend, Top, PathTo, WalkTo, Crossed
<1>2. /\ search.starts = <<s>> /\ D \in 0..2 /\ stack # <<>>
      /\ Dfs(before, edges, s, D, stack, V, search.found)
  BY <1>1 DEF WalkInv
<1>3. search \in SearchRecord /\ edges \in SUBSET PossibleEdges /\ before \subseteq edges BY DEF Shaped
<1>4. search.visited \in Seq(Vertex) BY <1>3 DEF SearchRecord
<1>5. Leads(edges, v, From(v)) BY SuccessorsRead DEF Leads
<1>6. IF stay THEN q = c /\ u = search.visited ELSE q = Append(c, f) /\ u = Append(search.visited, v)
  BY DEF Enter, Mark
<1> HIDE DEF q, u, c, f, g
<1>7. Dfs(before, edges, s, D, q, ToSet(u), g) /\ q # <<>> /\ u \in Seq(Vertex) /\ u # <<>>
  <2>1. CASE stay
    <3>1. v \in V \/ Len(stack) + 1 > D BY <2>1 DEF Visited
    <3> HIDE DEF s, D, stack, V, stay
    <3>2. Dfs(before, edges, s, D, Crossed(stack, v), V, Append(search.found, WalkTo(stack, v))) /\ Crossed(stack, v) # <<>>
      BY <1>1, <1>2, <3>1, DfsCrosses
    <3>3. Dfs(before, edges, s, D, c, V, g) /\ c # <<>> BY <3>2 DEF c, g
    <3>4. q = c /\ u = search.visited BY <1>6, <2>1
    <3> QED BY <1>1, <1>4, <3>3, <3>4 DEF V
  <2>2. CASE ~stay
    <3>1. v \notin V BY <2>2 DEF Visited
    <3>2. Len(stack) + 1 <= D
      <4>1. stack \in Seq(Frame) BY <1>2 DEF Dfs
      <4>2. Len(stack) \in Nat BY <4>1
      <4>3. ~(Len(stack) + 1 > D) /\ D \in Int BY <1>2, <2>2
      <4> HIDE DEF stack, D, stay
      <4> QED BY <4>2, <4>3
    <3> HIDE DEF s, D, stack, V, stay
    <3>3. /\ Dfs(before, edges, s, D, Append(Crossed(stack, v), [node |-> v, todo |-> From(v)]), V \cup {v},
                 Append(search.found, WalkTo(stack, v)))
          /\ Append(Crossed(stack, v), [node |-> v, todo |-> From(v)]) # <<>>
      BY <1>1, <1>2, <1>3, <1>5, <3>1, <3>2, DfsEnters
    <3>4. Dfs(before, edges, s, D, Append(c, f), V \cup {v}, g) /\ Append(c, f) # <<>> BY <3>3 DEF c, f, g
    <3>5. q = Append(c, f) /\ u = Append(search.visited, v) BY <1>6, <2>2
    <3>6. ToSet(u) = V \cup {v} /\ u \in Seq(Vertex) /\ Len(u) = Len(search.visited) + 1
      BY <1>4, <3>5, AppendEntries DEF V
    <3>7. u # <<>>
      <4>1. Len(search.visited) \in Nat BY <1>4
      <4>2. u = <<>> => Len(u) = 0 OBVIOUS
      <4> QED BY <3>6, <4>1, <4>2
    <3> QED BY <3>4, <3>5, <3>6, <3>7
  <2> QED BY <2>1, <2>2
<1>8. q \in Seq([node : Vertex, todo : SUBSET Vertex]) /\ g \in Seq(Seq(Vertex)) BY <1>7 DEF Dfs, Frame
<1> HIDE DEF stay
<1>9. search' \in SearchRecord BY <1>1, <1>3, <1>7, <1>8 DEF SearchRecord
<1>10. /\ search'.kind = "traverse" /\ search'.starts = search.starts /\ search'.depth = search.depth
       /\ search'.queue = search.queue /\ search'.hops = search.hops /\ search'.found = g
       /\ search'.visited = u /\ search'.done = search.done /\ search'.stack = q
  BY <1>1, <1>3 DEF SearchRecord
<1>11. WalkFrame BY <1>1, <1>10 DEF WalkFrame
<1>12. Shaped' BY <1>1, <1>3, <1>9, <1>10 DEF Shaped
<1>13. WalkInv' BY <1>1, <1>2, <1>7, <1>10 DEF WalkInv
<1> QED BY <1>11, <1>12, <1>13

\* A node is left.
LEMMA WalkAscend ==
  ASSUME Shaped, WalkInv, Ascend
  PROVE Shaped' /\ WalkInv' /\ WalkFrame
<1> DEFINE s == search.starts[1]
           stack == search.stack
           q == Front(stack)
<1>1. /\ search.kind = "traverse" /\ search.visited # <<>> /\ ~search.done /\ UNCHANGED <<edges, before>>
      /\ Last(stack).todo = {}
      /\ search' = [search EXCEPT !.stack = q, !.done = Len(stack) = 1]
  BY DEF Ascend, Top
<1>2. /\ search.starts = <<s>> /\ search.depth \in 0..2 /\ stack # <<>>
      /\ Dfs(before, edges, s, search.depth, stack, ToSet(search.visited), search.found)
  BY <1>1 DEF WalkInv
<1>3. search \in SearchRecord /\ edges \in SUBSET PossibleEdges /\ before \subseteq edges BY DEF Shaped
<1>4. Dfs(before, edges, s, search.depth, q, ToSet(search.visited), search.found) /\ (q = <<>> <=> Len(stack) = 1)
  <2> HIDE DEF s, stack
  <2> QED BY <1>1, <1>2, DfsAscends
<1> HIDE DEF q
<1>5. q \in Seq([node : Vertex, todo : SUBSET Vertex]) BY <1>4 DEF Dfs, Frame
<1>6. search' \in SearchRecord BY <1>1, <1>3, <1>5 DEF SearchRecord
<1>7. /\ search'.kind = "traverse" /\ search'.starts = search.starts /\ search'.depth = search.depth
      /\ search'.queue = search.queue /\ search'.hops = search.hops /\ search'.found = search.found
      /\ search'.visited = search.visited /\ search'.stack = q /\ search'.done = (q = <<>>)
  BY <1>1, <1>3, <1>4 DEF SearchRecord
<1>8. WalkFrame BY <1>1, <1>7 DEF WalkFrame
<1>9. Shaped' BY <1>1, <1>3, <1>6, <1>7 DEF Shaped
<1>10. WalkInv' BY <1>1, <1>2, <1>4, <1>7 DEF WalkInv
<1> QED BY <1>8, <1>9, <1>10

\* What the search promises follows.
LEMMA WalkPromise ==
  ASSUME Shaped, WalkInv
  PROVE WalksExact
<1> SUFFICES ASSUME search.kind = "traverse" PROVE WalksExact BY DEF WalksExact
<1> DEFINE s == search.starts[1]
           D == search.depth
           found == search.found
           Ends == {Last(w) : w \in ToSet(found)}
<1>1. search.starts = <<s>> /\ D \in 0..2 BY DEF WalkInv
<1>2. ToSet(search.starts) = {s}
  <2>1. \A x : ToSet(<<x>>) = {x} BY DEF ToSet
  <2> QED BY <1>1, <2>1
<1>3. before \in SUBSET (Vertex \X Vertex) BY FiniteGraph DEF Shaped
<1>4. CASE search.visited = <<>>
  <2>1. found = <<>> /\ DOMAIN <<>> = {} /\ (search.done => D = 0) BY <1>4 DEF WalkInv
  <2>2. Within(before, {s}, 0) = {s} BY WithinZero
  <2> HIDE DEF s
  <2>3. search.done => Within(before, ToSet(search.starts), D) \subseteq ToSet(search.starts) \cup Ends
    BY <1>2, <2>1, <2>2
  <2> QED BY <2>1, <2>3 DEF WalksExact
<1>5. CASE search.visited # <<>>
  <2>1. /\ Dfs(before, edges, s, D, search.stack, ToSet(search.visited), found)
        /\ search.done => search.stack = <<>>
    BY <1>5 DEF WalkInv
  <2>2. \A i \in DOMAIN found : IsWalk(edges, s, D, found[i]) BY <2>1 DEF Dfs
  <2> HIDE DEF s
  <2>3. search.done => \A z \in Within(before, {s}, D) : z = s \/ Ended(found, z) BY <1>3, <2>1, DfsReaches
  <2>4. \A z : Ended(found, z) => z \in Ends BY DEF Ended, ToSet
  <2>5. search.done => Within(before, ToSet(search.starts), D) \subseteq ToSet(search.starts) \cup Ends
    BY <1>2, <2>3, <2>4
  <2>6. \A i \in DOMAIN found :
          /\ Head(found[i]) = s /\ Len(found[i]) - 1 \in 1..D
          /\ \A j \in 1..Len(found[i]) - 1 : <<found[i][j], found[i][j + 1]>> \in edges
    BY <2>2 DEF IsWalk
  <2> QED BY <2>5, <2>6 DEF WalksExact, s
<1> QED BY <1>4, <1>5

-----------------------------------------------------------------------------
(* All the searches *)

\* What the other searches leave alone.
AtRest ==
  /\ search.kind # "notes" => search.hops = Ready.hops
  /\ search.kind = "traverse" => search.queue = <<>>

SearchInv == Shaped /\ AtRest /\ WalkInv /\ NotesInv /\ CausalInv

LEMMA SearchBegins == ASSUME SearchInit PROVE SearchInv
<1>1. edges \in SUBSET PossibleEdges /\ before = {} /\ search = Ready BY DEF SearchInit
<1>2. Shaped BY <1>1, ReadyShaped DEF Shaped
<1>3. search.kind = "none" BY <1>1, ReadyShaped
<1> QED BY <1>1, <1>2, <1>3 DEF SearchInv, AtRest, WalkInv, NotesInv, CausalInv

\* Every step keeps what is known of the search under way.
LEMMA SearchSteps ==
  ASSUME SearchInv, SearchNext
  PROVE SearchInv'
<1> USE DEF SearchInv
<1>1. ASSUME NEW v \in Entity, NEW d \in TraverseDepths, Traverse(v, d) PROVE SearchInv'
  <2>1. /\ Shaped' /\ search'.kind = "traverse" /\ search'.hops = Ready.hops /\ search'.queue = <<>>
    BY <1>1, TraverseFields
  <2>2. Ready' = Ready BY DEF Ready
  <2>3. AtRest' BY <2>1, <2>2 DEF AtRest
  <2>4. WalkInv' BY <1>1, WalkCalled
  <2> QED BY <2>1, <2>3, <2>4 DEF NotesInv, CausalInv
<1>2. ASSUME NEW v \in Entity, NEW kind \in {"causal", "incoming"}, CausalSearch(v, kind) PROVE SearchInv'
  <2>1. Shaped' /\ search'.kind = kind /\ search'.hops = Ready.hops BY <1>2, CausalFields
  <2>2. Ready' = Ready BY DEF Ready
  <2>3. AtRest' BY <1>2, <2>1, <2>2 DEF AtRest
  <2>4. CausalInv' BY <1>2, CausalBegins
  <2> QED BY <1>2, <2>1, <2>3, <2>4 DEF NotesInv, WalkInv
<1>3. ASSUME NEW v \in Entity, NEW w \in Entity, RetrieveNotes(<<v, w>>) PROVE SearchInv'
  <2>1. Shaped' /\ search'.kind = "notes" BY <1>3, RetrieveFields
  <2>2. NotesInv' BY <1>3, NotesBegin
  <2> QED BY <2>1, <2>2 DEF AtRest, WalkInv, CausalInv
<1>4. ASSUME WalkFrame, Shaped', WalkInv' PROVE SearchInv'
  <2>1. search.kind = "traverse" /\ search'.kind = "traverse" /\ search'.queue = search.queue /\ search'.hops = search.hops
    BY <1>4 DEF WalkFrame
  <2>2. Ready' = Ready BY DEF Ready
  <2>3. AtRest' BY <2>1, <2>2 DEF AtRest
  <2> QED BY <1>4, <2>1, <2>3 DEF NotesInv, CausalInv
<1>5. ASSUME Dequeue PROVE SearchInv'
  <2>1. Shaped' /\ search'.kind = "notes" BY <1>5, DequeueFields
  <2>2. NotesInv' BY <1>5, NotesDequeue
  <2> QED BY <2>1, <2>2 DEF AtRest, WalkInv, CausalInv
<1>6. ASSUME NextStart PROVE SearchInv'
  <2>1. search.kind = "notes" BY <1>6 DEF NextStart
  <2>2. search.turn \in 1..Len(search.starts) BY <2>1 DEF NotesInv
  <2>3. Shaped' /\ search'.kind = "notes" BY <1>6, <2>2, NextStartFields
  <2>4. NotesInv' BY <1>6, NotesNextStart
  <2> QED BY <2>3, <2>4 DEF AtRest, WalkInv, CausalInv
<1>7. ASSUME Expand PROVE SearchInv'
  <2>1. Shaped' /\ search.kind \in {"causal", "incoming"} /\ search'.kind = search.kind /\ search'.hops = search.hops
    BY <1>7, ExpandFields
  <2>2. Ready' = Ready BY DEF Ready
  <2>3. AtRest' BY <2>1, <2>2 DEF AtRest
  <2>4. CausalInv' BY <1>7, CausalExpand
  <2> QED BY <2>1, <2>3, <2>4 DEF NotesInv, WalkInv
<1>8. ASSUME CausalDone PROVE SearchInv'
  <2>1. Shaped' /\ search.kind \in {"causal", "incoming"} /\ search'.kind = search.kind /\ search'.hops = search.hops
    BY <1>8, CausalDoneFields
  <2>2. Ready' = Ready BY DEF Ready
  <2>3. AtRest' BY <2>1, <2>2 DEF AtRest
  <2>4. CausalInv' BY <1>8, CausalEnds
  <2> QED BY <2>1, <2>3, <2>4 DEF NotesInv, WalkInv
<1>9. ASSUME NEW e \in PossibleEdges, Grow(e) PROVE SearchInv'
  <2>1. Shaped' /\ search' = search BY <1>9, GrowFields
  <2>2. AtRest' BY <2>1 DEF AtRest, Ready
  <2>3. WalkInv' /\ NotesInv' /\ CausalInv' BY <1>9, WalkGrow, NotesGrow, CausalGrow
  <2> QED BY <2>1, <2>2, <2>3
<1>10. ASSUME Begin PROVE SearchInv' BY <1>4, <1>10, WalkBegin
<1>11. ASSUME Ascend PROVE SearchInv' BY <1>4, <1>11, WalkAscend
<1>12. ASSUME NEW v \in Vertex, Descend(v) PROVE SearchInv' BY <1>4, <1>12, WalkDescend
<1> QED BY <1>1, <1>2, <1>3, <1>5, <1>6, <1>7, <1>8, <1>9, <1>10, <1>11, <1>12 DEF SearchNext

\* And so does a step that leaves the searches alone.
LEMMA SearchStutters ==
  ASSUME SearchInv, UNCHANGED searchVars
  PROVE SearchInv'
<1>1. edges' = edges /\ before' = before /\ search' = search BY DEF searchVars
<1> QED BY <1>1 DEF SearchInv, Shaped, AtRest, Ready, WalkInv, NotesInv, CausalInv, Searched, Sound, FoundOnce, NearEnd, Along

\* The types of the searches' variables.
LEMMA SearchTyped == ASSUME SearchInv PROVE SearchTypeOK
<1>1. Shaped /\ AtRest /\ WalkInv /\ NotesInv /\ CausalInv BY DEF SearchInv
<1>2. edges \subseteq PossibleEdges /\ before \subseteq edges /\ search \in SearchRecord BY <1>1 DEF Shaped
<1>3. search.kind \in SearchKinds \cup {"none"} BY <1>2 DEF SearchRecord
<1>4. ToSet(search.visited) \subseteq Vertex
  <2>1. search.visited \in Seq(Vertex) BY <1>2 DEF SearchRecord
  <2> QED BY <2>1 DEF ToSet
<1>5. search.hops \in [NoteNode -> NotFound..HopLimit]
  <2>1. CASE search.kind = "notes" BY <1>1, <2>1 DEF NotesInv
  <2>2. CASE search.kind # "notes"
    <3>1. Ready.hops = [n \in NoteNode |-> NotFound] BY DEF Ready
    <3>2. NotFound \in NotFound..HopLimit BY SearchConstants DEF NotFound
    <3> QED BY <1>1, <2>2, <3>1, <3>2 DEF AtRest
  <2> QED BY <2>1, <2>2
<1>6. ASSUME NEW i \in DOMAIN search.queue
      PROVE search.queue[i] \in Vertex \X (0..IF search.kind = "notes" THEN HopLimit ELSE CausalDepth + 1)
  <2>1. search.queue \in Seq(Vertex \X Nat) BY <1>2 DEF SearchRecord
  <2>2. search.queue[i] \in Vertex \X Nat BY <1>6, <2>1
  <2>3. HopLimit \in Nat /\ CausalDepth \in Nat BY SearchConstants
  <2>4. search.queue[i][2] \in Nat BY <2>2
  <2>5. CASE search.kind = "notes"
    <3>1. search.queue[i][2] <= HopLimit BY <1>1, <1>6, <2>5 DEF NotesInv
    <3> QED BY <2>2, <2>3, <2>4, <2>5, <3>1
  <2>6. CASE search.kind \in {"causal", "incoming"}
    <3>1. search.queue[i][2] <= CausalDepth + 1 BY <1>1, <1>6, <2>6 DEF CausalInv
    <3> QED BY <2>2, <2>3, <2>4, <2>6, <3>1
  <2>7. CASE search.kind \in {"traverse", "none"}
    <3>1. search.queue = <<>> BY <1>1, <2>7 DEF AtRest, Shaped, Ready
    <3> QED BY <1>6, <3>1
  <2> QED BY <1>3, <2>5, <2>6, <2>7 DEF SearchKinds
<1>7. ASSUME NEW i \in DOMAIN search.stack
      PROVE search.stack[i].node \in Vertex /\ search.stack[i].todo \subseteq Vertex
  <2> DEFINE F == [node : Vertex, todo : SUBSET Vertex]
  <2>1. search.stack \in Seq(F) BY <1>2 DEF SearchRecord
  <2>2. \A f \in F : f.node \in Vertex /\ f.todo \subseteq Vertex OBVIOUS
  <2> HIDE DEF F
  <2>3. search.stack[i] \in F BY <1>7, <2>1
  <2> QED BY <2>2, <2>3
<1>8. ASSUME search.kind = "traverse"
      PROVE /\ search.depth \in 0..2 /\ search.queue = <<>>
            /\ search.visited # <<>> => Len(search.stack) <= search.depth
  <2>1. search.depth \in 0..2 BY <1>1, <1>8 DEF WalkInv
  <2>2. search.queue = <<>> BY <1>1, <1>8 DEF AtRest
  <2>3. search.visited # <<>> =>
          Dfs(before, edges, search.starts[1], search.depth, search.stack, ToSet(search.visited), search.found)
    BY <1>1, <1>8 DEF WalkInv
  <2>4. search.visited # <<>> => Len(search.stack) <= search.depth BY <2>3 DEF Dfs
  <2> QED BY <2>1, <2>2, <2>4
<1> QED BY <1>2, <1>3, <1>4, <1>5, <1>6, <1>7, <1>8 DEF SearchTypeOK

LEMMA SearchInvariant == SearchSpec => []SearchInv
<1>1. SearchInit => SearchInv BY SearchBegins
<1>2. SearchInv /\ [SearchNext]_searchVars => SearchInv' BY SearchSteps, SearchStutters
<1> QED BY <1>1, <1>2, PTL DEF SearchSpec

\* The searches' variables have their types: no node waits in a queue deeper than the search that
\* put it there may go, HopLimit for the search of notes and one more than CausalDepth for the
\* causal one, and no walk of traverse_kg holds more nodes on its stack than its depth.
THEOREM SearchTypeCorrect == SearchSpec => []SearchTypeOK
<1>1. SearchInv => SearchTypeOK BY SearchTyped
<1> QED BY <1>1, SearchInvariant, PTL

\* retrieve_note_ids finds every note that lay within the limit, no further away than it lay, and
\* gives no note a distance at which it does not lie, although edges arrive between its reads.
THEOREM HopsExactCorrect == SearchSpec => []HopsExact
<1>1. SearchInv => HopsExact BY NotesPromise DEF SearchInv
<1> QED BY <1>1, SearchInvariant, PTL

\* traverse_kg returns walks of the graph no longer than its depth, and to the depth that
\* traverse_graph lets through its visited set hides nothing from it.
THEOREM WalksExactCorrect == SearchSpec => []WalksExact
<1>1. SearchInv => WalksExact BY WalkPromise DEF SearchInv
<1> QED BY <1>1, SearchInvariant, PTL

\* The causal search reports no edge twice, and what it expanded when max_visited stops it is
\* what was nearest.
THEOREM CausalNearestCorrect == SearchSpec => []CausalNearestFirst
<1>1. SearchInv => CausalNearestFirst BY CausalPromise DEF SearchInv
<1> QED BY <1>1, SearchInvariant, PTL
=============================================================================
