----------------------------- MODULE NotePathProofs -----------------------------
(***************************************************************************)
(* The way of a text into the store and out again: proofs about the gate   *)
(* that admits it, the pieces and facts of a long one, the search that     *)
(* finds it and the answers that are made of it.                           *)
(***************************************************************************)
EXTENDS WriteGate, FactIngest, Recall, Synthesis, GraphSearchProofs

-----------------------------------------------------------------------------
(* Induction over lists, with the property given as a set *)

\* A set with the empty list, and with every list one longer than one of its own, has them all.
LEMMA AllLists ==
  ASSUME NEW A, NEW T, <<>> \in T, \A s \in Seq(A), x \in A : s \in T => Append(s, x) \in T
  PROVE Seq(A) \subseteq T
<1> DEFINE N == {n \in Nat : \A s \in Seq(A) : Len(s) = n => s \in T}
<1>1. 0 \in N
  <2>1. \A s \in Seq(A) : Len(s) = 0 => s = <<>> OBVIOUS
  <2> QED BY <2>1
<1>2. ASSUME NEW n \in Nat, n \in N PROVE n + 1 \in N
  <2>1. ASSUME NEW s \in Seq(A), Len(s) = n + 1 PROVE s \in T
    <3>1. s # <<>>
      <4>1. s = <<>> => Len(s) = 0 OBVIOUS
      <4> QED BY <2>1, <4>1
    <3>2. /\ Front(s) \in Seq(A) /\ Len(Front(s)) = Len(s) - 1 /\ Last(s) \in A
          /\ \A i \in 1..Len(s) - 1 : Front(s)[i] = s[i]
          /\ Last(s) = s[Len(s)]
      BY <3>1, FrontEntries
    <3> DEFINE f == Front(s)
               x == Last(s)
    <3>3. Len(f) = n /\ n + 1 - 1 = n BY <2>1, <3>2
    <3>4. f \in T BY <1>2, <3>2, <3>3
    <3> HIDE DEF f, x
    <3>5. Append(f, x) = s
      <4>1. Append(f, x) \in Seq(A) /\ Len(Append(f, x)) = n + 1 /\ s \in Seq(A) /\ f \in Seq(A)
        BY <3>2, <3>3 DEF f, x
      <4>2. \A i \in 1..n + 1 : Append(f, x)[i] = s[i]
        <5>1. \A i \in 1..n : Append(f, x)[i] = f[i] /\ f[i] = s[i] BY <2>1, <3>2, <3>3, <4>1 DEF f
        <5>2. Append(f, x)[n + 1] = x /\ x = s[n + 1] BY <2>1, <3>2, <3>3, <4>1 DEF x
        <5>3. \A i \in 1..n + 1 : i = n + 1 \/ i \in 1..n OBVIOUS
        <5> QED BY <5>1, <5>2, <5>3
      <4> QED BY <2>1, <4>1, <4>2, SeqEqual
    <3> QED BY <1>2, <3>2, <3>4, <3>5 DEF f, x
  <2> QED BY <2>1
<1> HIDE DEF N
<1>3. Nat \subseteq N BY <1>1, <1>2, AllNumbers
<1>4. \A s \in Seq(A) : Len(s) \in Nat OBVIOUS
<1> QED BY <1>3, <1>4 DEF N

-----------------------------------------------------------------------------
(* Folds *)

\* The largest member of a set of places of a list.
LEMMA LargestMember ==
  ASSUME NEW n \in Nat, NEW S \in SUBSET (1..n), S # {}
  PROVE Max(S) \in S /\ \A y \in S : Max(S) >= y
<1> DEFINE T == {k \in Nat : \A Q \in SUBSET (1..k) : Q # {} => \E m \in Q : \A y \in Q : m >= y}
<1>1. 0 \in T
  <2>1. \A Q \in SUBSET (1..0) : Q = {} OBVIOUS
  <2> QED BY <2>1
<1>2. ASSUME NEW k \in Nat, k \in T PROVE k + 1 \in T
  <2>1. ASSUME NEW Q \in SUBSET (1..k + 1), Q # {} PROVE \E m \in Q : \A y \in Q : m >= y
    <3>1. CASE k + 1 \in Q BY <3>1
    <3>2. CASE k + 1 \notin Q
      <4>1. Q \in SUBSET (1..k) BY <3>2
      <4> QED BY <1>2, <2>1, <4>1
    <3> QED BY <3>1, <3>2
  <2> QED BY <2>1
<1> HIDE DEF T
<1>3. Nat \subseteq T BY <1>1, <1>2, AllNumbers
<1>4. \E m \in S : \A y \in S : m >= y BY <1>3 DEF T
<1> QED BY <1>4 DEF Max

\* Of the first n places, the last is n, and without it the first n - 1 are left.
LEMMA LastPlace ==
  ASSUME NEW n \in Nat \ {0}
  PROVE 1..n # {} /\ Max(1..n) = n /\ (1..n) \ {n} = 1..n - 1
<1>1. 1..n # {} /\ n \in 1..n /\ 1..n \in SUBSET (1..n) /\ n \in Nat OBVIOUS
<1>2. Max(1..n) \in 1..n /\ Max(1..n) >= n BY <1>1, LargestMember
<1> QED BY <1>1, <1>2

\* A fold of a list of n entries with values in A, its step given as a function of the place and
\* the value so far: its values for every set of places, and place by place.
IsStep(step, n, A) == step \in [(1..n) \X A -> A]
Obeys(it, n, A, base, step) ==
  /\ it[{}] = base
  /\ \A S \in SUBSET (1..n) : S # {} /\ it[S \ {Max(S)}] \in A => it[S] = step[<<Max(S), it[S \ {Max(S)}]>>]
Folds(it, n, A, base, step) == it \in [SUBSET (1..n) -> A] /\ Obeys(it, n, A, base, step)
Runs(g, n, A, base, step) ==
  g \in [0..n -> A] /\ g[0] = base /\ \A i \in 1..n : g[i] = step[<<i, g[i - 1]>>]
Reaches(v, n, A, base, step) == \E g : Runs(g, n, A, base, step) /\ g[n] = v

LEMMA FoldExists ==
  ASSUME NEW A, NEW base \in A, NEW n \in Nat, NEW step, IsStep(step, n, A)
  PROVE \E it : Folds(it, n, A, base, step)
<1>0. step \in [(1..n) \X A -> A] BY DEF IsStep
<1> DEFINE Good(k, it) == \A S \in SUBSET (1..k) : it[S] = IF S = {} THEN base ELSE step[<<Max(S), it[S \ {Max(S)}]>>]
           T == {k \in Nat : k <= n => \E it \in [SUBSET (1..k) -> A] : Good(k, it)}
<1>1. 0 \in T
  <2> DEFINE it == [S \in SUBSET (1..0) |-> base]
  <2>1. it \in [SUBSET (1..0) -> A] OBVIOUS
  <2>2. \A S \in SUBSET (1..0) : S = {} OBVIOUS
  <2>3. Good(0, it) BY <2>2
  <2> HIDE DEF it
  <2> QED BY <2>1, <2>3
<1>2. ASSUME NEW k \in Nat, k \in T PROVE k + 1 \in T
  <2>1. ASSUME k + 1 <= n PROVE \E it \in [SUBSET (1..k + 1) -> A] : Good(k + 1, it)
    <3>1. PICK f \in [SUBSET (1..k) -> A] : Good(k, f)
      <4>1. k <= n BY <2>1
      <4> QED BY <1>2, <4>1
    <3> DEFINE it == [S \in SUBSET (1..k + 1) |-> IF k + 1 \in S THEN step[<<k + 1, f[S \ {k + 1}]>>] ELSE f[S]]
    <3>2. \A S \in SUBSET (1..k + 1) : S \ {k + 1} \in SUBSET (1..k) /\ (k + 1 \notin S => S \in SUBSET (1..k)) OBVIOUS
    <3>3. it \in [SUBSET (1..k + 1) -> A]
      <4>1. ASSUME NEW S \in SUBSET (1..k + 1)
            PROVE (IF k + 1 \in S THEN step[<<k + 1, f[S \ {k + 1}]>>] ELSE f[S]) \in A
        <5>1. CASE k + 1 \in S
          <6>1. f[S \ {k + 1}] \in A BY <3>1, <3>2
          <6>2. <<k + 1, f[S \ {k + 1}]>> \in (1..n) \X A BY <2>1, <6>1
          <6> QED BY <1>0, <5>1, <6>2
        <5>2. CASE k + 1 \notin S BY <3>1, <3>2, <5>2
        <5> QED BY <5>1, <5>2
      <4> QED BY <4>1
    <3>4. Good(k + 1, it)
      <4>1. ASSUME NEW S \in SUBSET (1..k + 1)
            PROVE it[S] = IF S = {} THEN base ELSE step[<<Max(S), it[S \ {Max(S)}]>>]
        <5>1. CASE k + 1 \in S
          <6>1. Max(S) \in S /\ Max(S) >= k + 1
            <7>1. k + 1 \in Nat /\ S # {} BY <5>1
            <7> QED BY <5>1, <7>1, LargestMember
          <6>2. Max(S) = k + 1
            <7>1. Max(S) \in 1..k + 1 BY <6>1
            <7> QED BY <6>1, <7>1
          <6>3. S \ {k + 1} \in SUBSET (1..k + 1) /\ k + 1 \notin S \ {k + 1} OBVIOUS
          <6>4. it[S \ {k + 1}] = f[S \ {k + 1}] BY <6>3
          <6>5. it[S] = step[<<k + 1, f[S \ {k + 1}]>>] /\ S # {} BY <5>1
          <6> HIDE DEF it
          <6> QED BY <6>2, <6>4, <6>5
        <5>2. CASE k + 1 \notin S
          <6>1. S \in SUBSET (1..k) /\ it[S] = f[S] BY <3>2, <5>2
          <6>2. CASE S = {} BY <3>1, <6>1, <6>2
          <6>3. CASE S # {}
            <7>1. S \ {Max(S)} \in SUBSET (1..k + 1) /\ k + 1 \notin S \ {Max(S)} BY <5>2
            <7>2. it[S \ {Max(S)}] = f[S \ {Max(S)}] BY <7>1
            <7>3. f[S] = step[<<Max(S), f[S \ {Max(S)}]>>] BY <3>1, <6>1, <6>3
            <7> HIDE DEF it
            <7> QED BY <6>1, <6>3, <7>2, <7>3
          <6> QED BY <6>2, <6>3
        <5> QED BY <5>1, <5>2
      <4> QED BY <4>1
    <3> HIDE DEF it
    <3> QED BY <3>3, <3>4
  <2> HIDE DEF Good
  <2>2. k + 1 \in Nat OBVIOUS
  <2> QED BY <2>1, <2>2
<1> HIDE DEF T
<1>3. Nat \subseteq T BY <1>1, <1>2, AllNumbers
<1>4. PICK it \in [SUBSET (1..n) -> A] : Good(n, it)
  <2>1. n \in T /\ n <= n BY <1>3
  <2> QED BY <2>1 DEF T
<1>5. {} \in SUBSET (1..n) OBVIOUS
<1> QED BY <1>4, <1>5 DEF Folds, Obeys

\* The values of a fold for the first places of the list.
LEMMA FoldRuns ==
  ASSUME NEW A, NEW base \in A, NEW n \in Nat, NEW step, IsStep(step, n, A), NEW c, Obeys(c, n, A, base, step)
  PROVE Reaches(c[1..n], n, A, base, step)
<1> DEFINE T == {k \in Nat : k <= n => c[1..k] \in A}
<1>1. \A i \in 1..n : c[1..i - 1] \in A => c[1..i] = step[<<i, c[1..i - 1]>>] /\ c[1..i] \in A
  <2>1. ASSUME NEW i \in 1..n, c[1..i - 1] \in A
        PROVE c[1..i] = step[<<i, c[1..i - 1]>>] /\ c[1..i] \in A
    <3>1. i \in Nat \ {0} /\ 1..i \in SUBSET (1..n) OBVIOUS
    <3>2. 1..i # {} /\ Max(1..i) = i /\ (1..i) \ {i} = 1..i - 1 BY <3>1, LastPlace
    <3>3. c[1..i] = step[<<i, c[1..i - 1]>>] BY <2>1, <3>1, <3>2 DEF Obeys
    <3>4. <<i, c[1..i - 1]>> \in (1..n) \X A BY <2>1
    <3> QED BY <3>3, <3>4 DEF IsStep
  <2> QED BY <2>1
<1>2. 1..0 = {} /\ c[1..0] = base
  <2>1. 1..0 = {} OBVIOUS
  <2> QED BY <2>1 DEF Obeys
<1>3. 0 \in T BY <1>2
<1>4. ASSUME NEW k \in Nat, k \in T PROVE k + 1 \in T
  <2>1. k + 1 <= n => k + 1 \in 1..n /\ k + 1 - 1 = k /\ k <= n OBVIOUS
  <2>2. ASSUME k + 1 <= n PROVE c[1..k + 1] \in A
    <3>1. c[1..k] \in A BY <1>4, <2>1, <2>2
    <3> DEFINE i == k + 1
    <3>2. i \in 1..n /\ i - 1 = k BY <2>1, <2>2
    <3> HIDE DEF T, i
    <3>3. c[1..i - 1] \in A BY <3>1, <3>2
    <3>4. c[1..i] \in A BY <1>1, <3>2, <3>3
    <3> QED BY <3>4 DEF i
  <2> QED BY <2>2
<1> HIDE DEF T
<1>5. Nat \subseteq T BY <1>3, <1>4, AllNumbers
<1>6. \A i \in 0..n : c[1..i] \in A BY <1>5 DEF T
<1> DEFINE g == [i \in 0..n |-> c[1..i]]
<1>7. \A i \in 1..n : i \in 0..n /\ i - 1 \in 0..n OBVIOUS
<1>8. \A i \in 1..n : g[i] = step[<<i, g[i - 1]>>] BY <1>1, <1>6, <1>7
<1>9. g \in [0..n -> A] /\ g[0] = base /\ g[n] = c[1..n] BY <1>2, <1>6
<1> HIDE DEF g
<1> QED BY <1>8, <1>9 DEF Runs, Reaches

\* What holds of the first value, and of the next one if of the value before, holds of all.
LEMMA RunsKeep ==
  ASSUME NEW A, NEW base, NEW n \in Nat, NEW step, NEW g, Runs(g, n, A, base, step),
         NEW G, base \in G, \A i \in 1..n, a \in A : a \in G => step[<<i, a>>] \in G
  PROVE \A i \in 0..n : g[i] \in G
<1> DEFINE T == {k \in Nat : k <= n => g[k] \in G}
<1>1. 0 \in T BY DEF Runs
<1>2. ASSUME NEW k \in Nat, k \in T PROVE k + 1 \in T
  <2>1. ASSUME k + 1 <= n PROVE g[k + 1] \in G
    <3>1. k + 1 \in 1..n /\ k + 1 - 1 = k /\ k \in 0..n BY <2>1
    <3>2. g[k] \in A /\ g[k] \in G BY <1>2, <3>1 DEF Runs
    <3>3. g[k + 1] = step[<<k + 1, g[k]>>] BY <3>1 DEF Runs
    <3> QED BY <3>1, <3>2, <3>3
  <2> QED BY <2>1
<1> HIDE DEF T
<1>3. Nat \subseteq T BY <1>1, <1>2, AllNumbers
<1> QED BY <1>3 DEF T

\* The filter of a list by a set, place by place.
OnlyStep(s, S, A) ==
  [p \in (1..Len(s)) \X Seq(A) |-> IF s[p[1]] \in S THEN Append(p[2], s[p[1]]) ELSE p[2]]

LEMMA OnlyRuns ==
  ASSUME NEW A, NEW s \in Seq(A), NEW S
  PROVE Reaches(Only(s, S), Len(s), Seq(A), <<>>, OnlyStep(s, S, A))
<1> DEFINE n == Len(s)
           step == OnlyStep(s, S, A)
           Iter(it) == it = [Q \in SUBSET DOMAIN s |->
                               IF Q = {} THEN <<>>
                               ELSE IF s[Max(Q)] \in S THEN Append(it[Q \ {Max(Q)}], s[Max(Q)])
                                    ELSE it[Q \ {Max(Q)}]]
           c == CHOOSE it : Iter(it)
<1>1. n \in Nat /\ DOMAIN s = 1..n /\ \A i \in 1..n : s[i] \in A OBVIOUS
<1>2. Only(s, S) = c[1..n] BY <1>1 DEF Only, FoldLeft, MapThenFoldSet
<1>3. <<>> \in Seq(A) /\ IsStep(step, n, Seq(A))
  <2>1. \A p \in (1..n) \X Seq(A) : p[1] \in 1..n /\ p[2] \in Seq(A) OBVIOUS
  <2>2. \A x \in A, q \in Seq(A) : Append(q, x) \in Seq(A) OBVIOUS
  <2>3. \A p \in (1..n) \X Seq(A) : (IF s[p[1]] \in S THEN Append(p[2], s[p[1]]) ELSE p[2]) \in Seq(A) BY <1>1, <2>1, <2>2
  <2> QED BY <2>3 DEF IsStep, OnlyStep
<1>4. \A i \in 1..n, q \in Seq(A) : step[<<i, q>>] = IF s[i] \in S THEN Append(q, s[i]) ELSE q BY DEF OnlyStep
<1> HIDE DEF step, n
<1>5. \A Q \in SUBSET (1..n) : Q # {} => Max(Q) \in 1..n BY <1>1, LargestMember
<1>6. PICK it : Folds(it, n, Seq(A), <<>>, step) BY <1>1, <1>3, FoldExists
<1>7. Iter(it)
  <2>1. it = [Q \in SUBSET (1..n) |-> it[Q]] /\ it[{}] = <<>> BY <1>6 DEF Folds, Obeys
  <2>2. ASSUME NEW Q \in SUBSET (1..n), Q # {}
        PROVE it[Q] = IF s[Max(Q)] \in S THEN Append(it[Q \ {Max(Q)}], s[Max(Q)]) ELSE it[Q \ {Max(Q)}]
    <3>1. it[Q \ {Max(Q)}] \in Seq(A) BY <1>6 DEF Folds
    <3> QED BY <1>4, <1>5, <1>6, <2>2, <3>1 DEF Folds, Obeys
  <2> QED BY <1>1, <2>1, <2>2
<1>8. Iter(c) BY <1>7
<1> HIDE DEF c
<1>9. Obeys(c, n, Seq(A), <<>>, step)
  <2>1. c[{}] = <<>> BY <1>8
  <2>2. ASSUME NEW Q \in SUBSET (1..n), Q # {}, c[Q \ {Max(Q)}] \in Seq(A)
        PROVE c[Q] = step[<<Max(Q), c[Q \ {Max(Q)}]>>]
    BY <1>1, <1>4, <1>5, <1>8, <2>2
  <2> QED BY <2>1, <2>2 DEF Obeys
<1>10. Reaches(c[1..n], n, Seq(A), <<>>, step) BY <1>1, <1>3, <1>9, FoldRuns
<1> QED BY <1>2, <1>10 DEF n, step

\* Folds with the same steps at the first n places agree there.
Same(step, other, n, A) == \A i \in 1..n, a \in A : step[<<i, a>>] = other[<<i, a>>]

LEMMA RunsAgree ==
  ASSUME NEW A, NEW base, NEW n \in Nat, NEW m \in Nat, n <= m, NEW step, NEW other, NEW g, NEW h,
         Runs(g, n, A, base, step), Runs(h, m, A, base, other),
         Same(step, other, n, A)
  PROVE \A i \in 0..n : g[i] = h[i]
<1> DEFINE T == {k \in Nat : k <= n => g[k] = h[k]}
<1>1. 0 \in T BY DEF Runs
<1>2. ASSUME NEW k \in Nat, k \in T PROVE k + 1 \in T
  <2>1. ASSUME k + 1 <= n PROVE g[k + 1] = h[k + 1]
    <3>1. k + 1 \in 1..n /\ k + 1 \in 1..m /\ k + 1 - 1 = k /\ k \in 0..n BY <2>1
    <3>2. g[k] \in A /\ g[k] = h[k] BY <1>2, <3>1 DEF Runs
    <3>3. g[k + 1] = step[<<k + 1, g[k]>>] BY <3>1 DEF Runs
    <3>4. h[k + 1] = other[<<k + 1, h[k]>>] BY <3>1 DEF Runs
    <3> HIDE DEF T
    <3> QED BY <3>1, <3>2, <3>3, <3>4 DEF Same
  <2> QED BY <2>1
<1> HIDE DEF T
<1>3. Nat \subseteq T BY <1>1, <1>2, AllNumbers
<1> QED BY <1>3 DEF T

\* The filter of a list one longer.
LEMMA OnlyAppend ==
  ASSUME NEW A, NEW s \in Seq(A), NEW x \in A, NEW S
  PROVE /\ Only(s, S) \in Seq(A)
        /\ Only(Append(s, x), S) = IF x \in S THEN Append(Only(s, S), x) ELSE Only(s, S)
<1> DEFINE n == Len(s)
           t == Append(s, x)
<1>1. /\ n \in Nat /\ t \in Seq(A) /\ Len(t) = n + 1 /\ t[n + 1] = x
      /\ \A i \in 1..n : t[i] = s[i]
  <2>1. DOMAIN s = 1..n OBVIOUS
  <2> QED BY <2>1, AppendEntries
<1> HIDE DEF t, n
<1>2. PICK g : Runs(g, n, Seq(A), <<>>, OnlyStep(s, S, A)) /\ g[n] = Only(s, S)
  BY OnlyRuns DEF Reaches, n
<1>3. PICK h : Runs(h, n + 1, Seq(A), <<>>, OnlyStep(t, S, A)) /\ h[n + 1] = Only(t, S)
  BY <1>1, OnlyRuns DEF Reaches
<1>4. Same(OnlyStep(s, S, A), OnlyStep(t, S, A), n, Seq(A))
  <2>1. \A i \in 1..n : i \in 1..Len(s) /\ i \in 1..Len(t) BY <1>1 DEF n
  <2> QED BY <1>1, <2>1 DEF Same, OnlyStep
<1>5. \A i \in 0..n : g[i] = h[i]
  <2>1. n + 1 \in Nat /\ n <= n + 1 BY <1>1
  <2> QED BY <1>1, <1>2, <1>3, <1>4, <2>1, RunsAgree
<1>6. h[n] = Only(s, S) /\ h[n] \in Seq(A)
  <2>1. n \in 0..n BY <1>1
  <2> QED BY <1>2, <1>5, <2>1 DEF Runs
<1>7. h[n + 1] = OnlyStep(t, S, A)[<<n + 1, h[n]>>]
  <2> DEFINE k == n + 1
  <2>1. k \in 1..k /\ k - 1 = n BY <1>1
  <2>2. Runs(h, k, Seq(A), <<>>, OnlyStep(t, S, A)) BY <1>3
  <2> HIDE DEF k
  <2>3. h[k] = OnlyStep(t, S, A)[<<k, h[k - 1]>>] BY <2>1, <2>2 DEF Runs
  <2> QED BY <2>1, <2>3 DEF k
<1>8. OnlyStep(t, S, A)[<<n + 1, h[n]>>] = IF x \in S THEN Append(h[n], x) ELSE h[n]
  <2>1. <<n + 1, h[n]>> \in (1..Len(t)) \X Seq(A) BY <1>1, <1>6
  <2> QED BY <1>1, <2>1 DEF OnlyStep
<1> QED BY <1>3, <1>6, <1>7, <1>8 DEF t

LEMMA OnlyEmpty == ASSUME NEW S PROVE Only(<<>>, S) = <<>>
<1>1. <<>> \in Seq({0}) /\ Len(<<>>) = 0 OBVIOUS
<1>2. PICK g : Runs(g, 0, Seq({0}), <<>>, OnlyStep(<<>>, S, {0})) /\ g[0] = Only(<<>>, S)
  BY <1>1, OnlyRuns DEF Reaches
<1> QED BY <1>2 DEF Runs

\* The places of s that are in r, in their order: those with an entry in S.
Picks(e, r, s, S) ==
  /\ e \in [1..Len(r) -> 1..Len(s)]
  /\ \A i, j \in 1..Len(r) : i < j => e[i] < e[j]
  /\ \A i \in 1..Len(r) : r[i] = s[e[i]] /\ r[i] \in S
  /\ \A k \in 1..Len(s) : s[k] \in S => \E i \in 1..Len(r) : e[i] = k

\* A filter leaves the entries in the set, all of them, in their order.
LEMMA OnlyPicks ==
  ASSUME NEW A, NEW s \in Seq(A), NEW S
  PROVE Only(s, S) \in Seq(A) /\ \E e : Picks(e, Only(s, S), s, S)
<1> DEFINE T == {q \in Seq(A) : Only(q, S) \in Seq(A) /\ \E e : Picks(e, Only(q, S), q, S)}
<1>1. <<>> \in T
  <2>1. <<>> \in Seq(A) /\ Len(<<>>) = 0 OBVIOUS
  <2>2. Picks(<<>>, <<>>, <<>>, S)
    <3>1. \A i : i \notin 1..0 OBVIOUS
    <3>2. <<>> \in [1..0 -> 1..0] OBVIOUS
    <3> QED BY <2>1, <3>1, <3>2 DEF Picks
  <2> QED BY <2>1, <2>2, OnlyEmpty
<1>2. ASSUME NEW q \in Seq(A), NEW x \in A, q \in T PROVE Append(q, x) \in T
  <2> DEFINE r == Only(q, S)
             t == Append(q, x)
             m == Len(r)
             n == Len(q)
  <2>1. PICK e : Picks(e, r, q, S) BY <1>2
  <2>2. /\ n \in Nat /\ t \in Seq(A) /\ Len(t) = n + 1 /\ t[n + 1] = x
        /\ \A i \in 1..n : t[i] = q[i]
    <3>1. DOMAIN q = 1..n OBVIOUS
    <3> QED BY <3>1, AppendEntries
  <2>3. r \in Seq(A) /\ Only(t, S) = IF x \in S THEN Append(r, x) ELSE r BY OnlyAppend
  <2>4. m \in Nat BY <2>3
  <2> HIDE DEF t, r
  <2>5. CASE x \in S
    <3> DEFINE u == Append(r, x)
               f == [i \in 1..m + 1 |-> IF i = m + 1 THEN n + 1 ELSE e[i]]
    <3>1. u \in Seq(A) /\ Len(u) = m + 1 /\ u[m + 1] = x /\ \A i \in 1..m : u[i] = r[i]
      <4>1. DOMAIN r = 1..m BY <2>3
      <4> QED BY <2>3, <4>1, AppendEntries
    <3> HIDE DEF u
    <3>2. e \in [1..m -> 1..n] /\ \A i, j \in 1..m : i < j => e[i] < e[j] BY <2>1 DEF Picks
    <3>3. \A i \in 1..m : r[i] = q[e[i]] /\ r[i] \in S BY <2>1 DEF Picks
    <3>4. \A k \in 1..n : q[k] \in S => \E i \in 1..m : e[i] = k BY <2>1 DEF Picks
    <3> HIDE DEF m, n
    <3>5. \A i \in 1..m + 1 : i = m + 1 \/ i \in 1..m BY <2>4
    <3>6. \A k \in 1..n + 1 : k = n + 1 \/ k \in 1..n BY <2>2
    <3>7. m + 1 \in 1..m + 1 /\ n + 1 \in 1..n + 1 /\ (\A i \in 1..m : i # m + 1 /\ i \in 1..m + 1)
          /\ \A k \in 1..n : k \in 1..n + 1 /\ k < n + 1
      BY <2>2, <2>4
    <3>8. f[m + 1] = n + 1 /\ \A i \in 1..m : f[i] = e[i] BY <3>7
    <3>9. f \in [1..m + 1 -> 1..n + 1] BY <3>2, <3>5, <3>7
    <3> HIDE DEF f
    <3>10. ASSUME NEW i \in 1..m + 1, NEW j \in 1..m + 1, i < j PROVE f[i] < f[j]
      <4>1. i # m + 1 BY <2>4, <3>10
      <4>2. i \in 1..m BY <3>5, <4>1
      <4> QED BY <3>2, <3>5, <3>7, <3>8, <3>10, <4>2
    <3>11. ASSUME NEW i \in 1..m + 1 PROVE u[i] = t[f[i]] /\ u[i] \in S
      <4>1. CASE i = m + 1 BY <2>2, <2>5, <3>1, <3>8, <4>1
      <4>2. CASE i \in 1..m
        <5>1. e[i] \in 1..n BY <3>2, <4>2
        <5> QED BY <2>2, <3>1, <3>3, <3>8, <4>2, <5>1
      <4> QED BY <3>5, <4>1, <4>2
    <3>12. ASSUME NEW k \in 1..n + 1, t[k] \in S PROVE \E i \in 1..m + 1 : f[i] = k
      <4>1. CASE k = n + 1 BY <3>7, <3>8, <4>1
      <4>2. CASE k \in 1..n
        <5>1. q[k] \in S BY <2>2, <3>12, <4>2
        <5>2. PICK i \in 1..m : e[i] = k BY <3>4, <4>2, <5>1
        <5> QED BY <3>7, <3>8, <5>2
      <4> QED BY <3>6, <4>1, <4>2
    <3>13. Picks(f, u, t, S) BY <2>2, <3>1, <3>9, <3>10, <3>11, <3>12 DEF Picks
    <3> QED BY <2>2, <2>3, <2>5, <3>1, <3>13 DEF t, u
  <2>6. CASE x \notin S
    <3>1. e \in [1..m -> 1..n] /\ \A i, j \in 1..m : i < j => e[i] < e[j] BY <2>1 DEF Picks
    <3>2. \A i \in 1..m : r[i] = q[e[i]] /\ r[i] \in S BY <2>1 DEF Picks
    <3>3. \A k \in 1..n : q[k] \in S => \E i \in 1..m : e[i] = k BY <2>1 DEF Picks
    <3>4. \A k \in 1..n + 1 : k = n + 1 \/ k \in 1..n BY <2>2
    <3>5. 1..n \subseteq 1..n + 1 BY <2>2
    <3>6. e \in [1..m -> 1..n + 1] BY <3>1, <3>5
    <3>7. \A i \in 1..m : r[i] = t[e[i]] BY <2>2, <3>1, <3>2
    <3>8. \A k \in 1..n + 1 : t[k] \in S => \E i \in 1..m : e[i] = k BY <2>2, <2>6, <3>3, <3>4
    <3>9. Picks(e, r, t, S) BY <2>2, <3>1, <3>2, <3>6, <3>7, <3>8 DEF Picks
    <3> QED BY <2>2, <2>3, <2>6, <3>9 DEF t
  <2> QED BY <2>5, <2>6
<1> HIDE DEF T
<1>3. Seq(A) \subseteq T BY <1>1, <1>2, AllLists
<1> QED BY <1>3 DEF T

-----------------------------------------------------------------------------
(* Sorts *)

\* Any two members of S may stand in some order, and orders compose.
Sorts(R, S) ==
  /\ \A x, y \in S : x = y \/ <<x, y>> \in R \/ <<y, x>> \in R
  /\ \A x, y, z \in S : <<x, y>> \in R /\ <<y, z>> \in R => <<x, z>> \in R

\* A finite set that is not empty has a member that may stand after every other.
LEMMA LastMember ==
  ASSUME NEW S, IsFiniteSet(S), S # {}, NEW R, Sorts(R, S)
  PROVE \E m \in S : \A y \in S : y = m \/ <<y, m>> \in R
<1> DEFINE T == {n \in Nat : \A Q \in SUBSET S : Cardinality(Q) = n + 1 =>
                               \E m \in Q : \A y \in Q : y = m \/ <<y, m>> \in R}
<1>1. 0 \in T
  <2>1. ASSUME NEW Q \in SUBSET S, Cardinality(Q) = 0 + 1 PROVE \E m \in Q : \A y \in Q : y = m \/ <<y, m>> \in R
    <3>1. IsFiniteSet(Q) BY FS_Subset
    <3>2. Cardinality(Q) = 1 BY <2>1
    <3>3. PICK m : Q = {m} BY <3>1, <3>2, FS_Singleton
    <3> QED BY <3>3
  <2> QED BY <2>1
<1>2. ASSUME NEW n \in Nat, n \in T PROVE n + 1 \in T
  <2>1. ASSUME NEW Q \in SUBSET S, Cardinality(Q) = n + 1 + 1
        PROVE \E m \in Q : \A y \in Q : y = m \/ <<y, m>> \in R
    <3>1. IsFiniteSet(Q) BY FS_Subset
    <3>2. Q # {} BY <2>1, <3>1, FS_EmptySet
    <3>3. PICK x \in Q : TRUE BY <3>2
    <3>4. Cardinality(Q \ {x}) = n + 1 /\ Q \ {x} \in SUBSET S
      <4>1. Cardinality(Q \ {x}) = Cardinality(Q) - 1 BY <3>1, <3>3, FS_RemoveElement
      <4> QED BY <2>1, <4>1
    <3>5. PICK m \in Q \ {x} : \A y \in Q \ {x} : y = m \/ <<y, m>> \in R BY <1>2, <3>4
    <3>6. CASE <<x, m>> \in R BY <3>5, <3>6
    <3>7. CASE <<m, x>> \in R
      <4>1. ASSUME NEW y \in Q PROVE y = x \/ <<y, x>> \in R
        <5>1. CASE y = m BY <3>7, <5>1
        <5>2. CASE y # m /\ y # x
          <6>1. <<y, m>> \in R BY <3>5, <5>2
          <6>2. y \in S /\ m \in S /\ x \in S BY <3>5
          <6> QED BY <3>7, <6>1, <6>2 DEF Sorts
        <5> QED BY <5>1, <5>2
      <4> QED BY <4>1
    <3>8. <<x, m>> \in R \/ <<m, x>> \in R
      <4>1. m \in S /\ x \in S /\ m # x BY <3>5
      <4> QED BY <4>1 DEF Sorts
    <3> QED BY <3>6, <3>7, <3>8
  <2> QED BY <2>1
<1> HIDE DEF T
<1>3. Nat \subseteq T BY <1>1, <1>2, AllNumbers
<1>4. Cardinality(S) \in Nat \ {0} BY FS_CardinalityType, FS_EmptySet
<1>5. Cardinality(S) - 1 \in Nat /\ Cardinality(S) = Cardinality(S) - 1 + 1 BY <1>4
<1>6. Cardinality(S) - 1 \in T BY <1>3, <1>5
<1> QED BY <1>5, <1>6 DEF T

\* p lists members of S, each once, as R allows.
InOrder(p, n, S, R) ==
  /\ p \in [1..n -> S] /\ IsInjective(p)
  /\ \A i, j \in DOMAIN p : i < j => <<p[i], p[j]>> \in R

\* The members of a finite set can be arranged.
LEMMA ArrangedLists ==
  ASSUME NEW S, IsFiniteSet(S), NEW R, Sorts(R, S)
  PROVE /\ Cardinality(S) \in Nat /\ InOrder(Arranged(S, R), Cardinality(S), S, R)
        /\ \A x \in S : \E i \in 1..Cardinality(S) : Arranged(S, R)[i] = x
<1> DEFINE T == {n \in Nat : \A Q \in SUBSET S : Cardinality(Q) = n => \E p : InOrder(p, n, Q, R)}
<1>1. 0 \in T
  <2>1. ASSUME NEW Q \in SUBSET S, Cardinality(Q) = 0 PROVE \E p : InOrder(p, 0, Q, R)
    <3>1. Q = {} BY <2>1, FS_Subset, FS_EmptySet
    <3>2. 1..0 = {} OBVIOUS
    <3>3. <<>> \in [1..0 -> Q] /\ DOMAIN <<>> = {} BY <3>2
    <3>4. InOrder(<<>>, 0, Q, R) BY <3>3 DEF InOrder, IsInjective
    <3> QED BY <3>4
  <2> QED BY <2>1
<1>2. ASSUME NEW n \in Nat, n \in T PROVE n + 1 \in T
  <2>1. ASSUME NEW Q \in SUBSET S, Cardinality(Q) = n + 1 PROVE \E p : InOrder(p, n + 1, Q, R)
    <3>1. IsFiniteSet(Q) BY FS_Subset
    <3>2. Q # {} BY <2>1, <3>1, FS_EmptySet
    <3>3. Sorts(R, Q) BY DEF Sorts
    <3>4. PICK m \in Q : \A y \in Q : y = m \/ <<y, m>> \in R BY <3>1, <3>2, <3>3, LastMember
    <3>5. Cardinality(Q \ {m}) = n /\ Q \ {m} \in SUBSET S
      <4>1. Cardinality(Q \ {m}) = Cardinality(Q) - 1 BY <3>1, <3>4, FS_RemoveElement
      <4> QED BY <2>1, <4>1
    <3>6. PICK p : InOrder(p, n, Q \ {m}, R) BY <1>2, <3>5
    <3> DEFINE q == [i \in 1..n + 1 |-> IF i = n + 1 THEN m ELSE p[i]]
    <3>7. p \in [1..n -> Q \ {m}] /\ \A i, j \in 1..n : p[i] = p[j] => i = j
      BY <3>6 DEF InOrder, IsInjective
    <3>8. \A i, j \in 1..n : i < j => <<p[i], p[j]>> \in R BY <3>6, <3>7 DEF InOrder
    <3>9. \A i \in 1..n + 1 : i = n + 1 \/ (i \in 1..n /\ i < n + 1) OBVIOUS
    <3>10. q[n + 1] = m /\ \A i \in 1..n : q[i] = p[i]
      <4>1. n + 1 \in 1..n + 1 /\ \A i \in 1..n : i # n + 1 /\ i \in 1..n + 1 OBVIOUS
      <4> QED BY <4>1
    <3>11. q \in [1..n + 1 -> Q] BY <3>7, <3>9
    <3> HIDE DEF q, T
    <3>12. ASSUME NEW i \in 1..n + 1, NEW j \in 1..n + 1, q[i] = q[j] PROVE i = j
      <4>1. CASE i = n + 1 /\ j = n + 1 BY <4>1
      <4>2. CASE i = n + 1 /\ j \in 1..n BY <3>7, <3>10, <3>12, <4>2
      <4>3. CASE i \in 1..n /\ j = n + 1 BY <3>7, <3>10, <3>12, <4>3
      <4>4. CASE i \in 1..n /\ j \in 1..n BY <3>7, <3>10, <3>12, <4>4
      <4> QED BY <3>9, <4>1, <4>2, <4>3, <4>4
    <3>13. ASSUME NEW i \in 1..n + 1, NEW j \in 1..n + 1, i < j PROVE <<q[i], q[j]>> \in R
      <4>1. i \in 1..n BY <3>13
      <4>2. CASE j = n + 1
        <5>1. p[i] \in Q \ {m} /\ q[i] = p[i] /\ q[j] = m BY <3>7, <3>10, <4>1, <4>2
        <5> QED BY <3>4, <5>1
      <4>3. CASE j \in 1..n BY <3>8, <3>10, <3>13, <4>1, <4>3
      <4> QED BY <3>9, <4>2, <4>3
    <3>14. DOMAIN q = 1..n + 1 BY <3>11
    <3>15. InOrder(q, n + 1, Q, R) BY <3>11, <3>12, <3>13, <3>14 DEF InOrder, IsInjective
    <3> QED BY <3>15
  <2> QED BY <2>1
<1> HIDE DEF T
<1>3. Nat \subseteq T BY <1>1, <1>2, AllNumbers
<1> DEFINE n == Cardinality(S)
           a == Arranged(S, R)
<1>4. n \in Nat BY FS_CardinalityType
<1>5. \E p : InOrder(p, n, S, R) BY <1>3, <1>4 DEF T
<1>6. InOrder(a, n, S, R)
  <2>1. \E p \in [1..n -> S] : IsInjective(p) /\ \A i, j \in DOMAIN p : i < j => <<p[i], p[j]>> \in R
    BY <1>5 DEF InOrder
  <2> QED BY <2>1 DEF Arranged, InOrder
<1>7. \A x \in S : \E i \in 1..n : a[i] = x
  <2>1. a \in Injection(1..n, S) BY <1>6 DEF InOrder, Injection
  <2>2. Cardinality(1..n) = n
    <3>1. 1 \in Int /\ n \in Int BY <1>4
    <3>2. Cardinality(1..n) = IF 1 > n THEN 0 ELSE n - 1 + 1 BY <3>1, FS_Interval
    <3> HIDE DEF n
    <3> QED BY <1>4, <3>2
  <2>3. a \in Surjection(1..n, S) BY <2>1, <2>2, FS_Injection
  <2> QED BY <2>3 DEF Surjection
<1> QED BY <1>4, <1>6, <1>7

\* The entries of r are those of s, in some order p.
Permutes(p, r, s) ==
  /\ p \in [1..Len(s) -> 1..Len(s)] /\ IsInjective(p)
  /\ (\A k \in 1..Len(s) : \E i \in 1..Len(s) : p[i] = k)
  /\ r = [i \in 1..Len(s) |-> s[p[i]]]

\* A sort by descending keys is a permutation of the list.
LEMMA DescendingPermutes ==
  ASSUME NEW A, NEW s \in Seq(A), NEW key, \A i \in 1..Len(s) : key[i] \in Int
  PROVE Descending(s, key) \in Seq(A) /\ \E p : Permutes(p, Descending(s, key), s)
<1> DEFINE n == Len(s)
           D == DOMAIN s
           R == {p \in D \X D : \/ key[p[1]] > key[p[2]]
                                \/ key[p[1]] = key[p[2]] /\ p[1] < p[2]}
           order == Arranged(D, R)
<1>1. n \in Nat /\ D = 1..n /\ \A i \in 1..n : s[i] \in A OBVIOUS
<1>2. IsFiniteSet(D) /\ Cardinality(D) = n
  <2>1. 1 \in Int /\ n \in Int BY <1>1
  <2>2. IsFiniteSet(1..n) /\ Cardinality(1..n) = IF 1 > n THEN 0 ELSE n - 1 + 1 BY <2>1, FS_Interval
  <2> HIDE DEF n, D
  <2> QED BY <1>1, <2>2
<1>3. Sorts(R, D)
  <2>1. \A x, y \in D : key[x] \in Int /\ key[y] \in Int /\ x \in Int /\ y \in Int BY <1>1
  <2>2. \A x, y \in D : <<x, y>> \in R <=> key[x] > key[y] \/ (key[x] = key[y] /\ x < y) OBVIOUS
  <2> HIDE DEF R, D
  <2>3. ASSUME NEW x \in D, NEW y \in D PROVE x = y \/ <<x, y>> \in R \/ <<y, x>> \in R
    <3>1. key[x] \in Int /\ key[y] \in Int /\ x \in Int /\ y \in Int BY <2>1
    <3>2. \/ key[x] > key[y] \/ (key[x] = key[y] /\ x < y)
          \/ key[y] > key[x] \/ (key[y] = key[x] /\ y < x)
          \/ x = y
      BY <3>1
    <3> QED BY <2>2, <3>2
  <2>4. ASSUME NEW x \in D, NEW y \in D, NEW z \in D, <<x, y>> \in R, <<y, z>> \in R PROVE <<x, z>> \in R
    <3>1. key[x] > key[y] \/ (key[x] = key[y] /\ x < y) BY <2>2, <2>4
    <3>2. key[y] > key[z] \/ (key[y] = key[z] /\ y < z) BY <2>2, <2>4
    <3>3. key[x] > key[z] \/ (key[x] = key[z] /\ x < z) BY <2>1, <3>1, <3>2
    <3> QED BY <2>2, <3>3
  <2> QED BY <2>3, <2>4 DEF Sorts
<1>4. Descending(s, key) = [i \in D |-> s[order[i]]] BY DEF Descending
<1> HIDE DEF R
<1>5. InOrder(order, n, D, R) /\ \A x \in D : \E i \in 1..n : order[i] = x
  <2> HIDE DEF D, order
  <2> QED BY <1>2, <1>3, ArrangedLists DEF order
<1> HIDE DEF order
<1>6. order \in [1..n -> 1..n] /\ IsInjective(order) BY <1>1, <1>5 DEF InOrder
<1>7. Permutes(order, Descending(s, key), s) BY <1>1, <1>4, <1>5, <1>6 DEF Permutes
<1>8. Descending(s, key) \in Seq(A)
  <2>1. \A i \in 1..n : s[order[i]] \in A BY <1>1, <1>6
  <2>2. [i \in 1..n |-> s[order[i]]] \in [1..n -> A] BY <2>1
  <2> HIDE DEF n
  <2> QED BY <1>1, <1>4, <2>2
<1> QED BY <1>7, <1>8

-----------------------------------------------------------------------------
(* Lists of entries that have an id *)

Distinct(list) == \A i, j \in DOMAIN list : list[i].id = list[j].id => i = j

\* Lists of members of A, each id at most once.
ListsOf(A) == {list \in Seq(A) : Distinct(list)}

LEMMA ListPlaces ==
  ASSUME NEW A, NEW s \in Seq(A)
  PROVE /\ Len(s) \in Nat /\ DOMAIN s = 1..Len(s) /\ \A i \in 1..Len(s) : s[i] \in A
        /\ IsFiniteSet(ToSet(s)) /\ ToSet(s) \subseteq A
<1>1. Len(s) \in Nat /\ DOMAIN s = 1..Len(s) /\ \A i \in 1..Len(s) : s[i] \in A OBVIOUS
<1>2. IsFiniteSet(1..Len(s))
  <2>1. 1 \in Int /\ Len(s) \in Int BY <1>1
  <2> QED BY <2>1, FS_Interval
<1>3. s \in Surjection(1..Len(s), ToSet(s))
  <2>1. s \in [1..Len(s) -> ToSet(s)] BY <1>1 DEF ToSet
  <2>2. \A y \in ToSet(s) : \E i \in 1..Len(s) : s[i] = y BY <1>1 DEF ToSet
  <2> QED BY <2>1, <2>2 DEF Surjection
<1>4. IsFiniteSet(ToSet(s)) BY <1>2, <1>3, FS_Surjection
<1> QED BY <1>1, <1>4 DEF ToSet

\* The first n of a list.
LEMMA TakeEntries ==
  ASSUME NEW A, NEW s \in Seq(A), NEW n \in Nat
  PROVE /\ Take(s, n) \in Seq(A) /\ Len(Take(s, n)) = IF n < Len(s) THEN n ELSE Len(s)
        /\ Len(Take(s, n)) \in Nat /\ Len(Take(s, n)) <= Len(s) /\ Len(Take(s, n)) <= n
        /\ \A i \in 1..Len(Take(s, n)) : Take(s, n)[i] = s[i]
<1> DEFINE m == IF n < Len(s) THEN n ELSE Len(s)
<1>1. Len(s) \in Nat /\ m \in Nat /\ m <= Len(s) /\ m <= n /\ \A i \in 1..Len(s) : s[i] \in A OBVIOUS
<1>2. Take(s, n) = SubSeq(s, 1, m) BY DEF Take
<1> HIDE DEF m
<1>3. m \in Int /\ 1 \in Int /\ \A i \in 1..m : s[i] \in A BY <1>1
<1>4. /\ SubSeq(s, 1, m) \in Seq(A) /\ Len(SubSeq(s, 1, m)) = IF 1 <= m THEN m - 1 + 1 ELSE 0
      /\ \A i \in 1..m - 1 + 1 : SubSeq(s, 1, m)[i] = s[1 + i - 1]
  BY <1>3, SubSeqProperties
<1>5. Len(SubSeq(s, 1, m)) = m BY <1>1, <1>4
<1>6. m - 1 + 1 = m /\ \A i \in 1..m : 1 + i - 1 = i BY <1>1
<1>7. \A i \in 1..m : SubSeq(s, 1, m)[i] = s[i] BY <1>4, <1>6
<1> QED BY <1>1, <1>2, <1>4, <1>5, <1>7 DEF m

\* r has only entries of s, at different places of s.
Among(r, s) ==
  \E e \in [1..Len(r) -> 1..Len(s)] :
    /\ \A i, j \in 1..Len(r) : e[i] = e[j] => i = j
    /\ \A i \in 1..Len(r) : r[i] = s[e[i]]

LEMMA AmongDistinct ==
  ASSUME NEW A, NEW s \in ListsOf(A), NEW B, NEW r \in Seq(B), Among(r, s)
  PROVE Distinct(r) /\ r \in ListsOf(A) /\ Ids(r) \subseteq Ids(s) /\ ToSet(r) \subseteq ToSet(s)
<1>1. s \in Seq(A) /\ \A i, j \in DOMAIN s : s[i].id = s[j].id => i = j BY DEF ListsOf, Distinct
<1>2. DOMAIN s = 1..Len(s) /\ \A i \in 1..Len(s) : s[i] \in A BY <1>1, ListPlaces
<1>3. DOMAIN r = 1..Len(r) /\ Len(r) \in Nat OBVIOUS
<1>4. PICK e \in [1..Len(r) -> 1..Len(s)] :
        /\ \A i, j \in 1..Len(r) : e[i] = e[j] => i = j
        /\ \A i \in 1..Len(r) : r[i] = s[e[i]]
  BY DEF Among
<1>5. Distinct(r) BY <1>1, <1>2, <1>3, <1>4 DEF Distinct
<1>6. \A i \in 1..Len(r) : r[i] \in A /\ e[i] \in DOMAIN s BY <1>2, <1>4
<1>7. r \in Seq(A) BY <1>3, <1>6
<1>8. Ids(r) \subseteq Ids(s) BY <1>2, <1>3, <1>4, <1>6 DEF Ids
<1>9. ToSet(r) \subseteq ToSet(s) BY <1>2, <1>3, <1>4, <1>6 DEF ToSet
<1> QED BY <1>5, <1>7, <1>8, <1>9 DEF ListsOf

LEMMA TakeDistinct ==
  ASSUME NEW A, NEW s \in ListsOf(A), NEW n \in Nat
  PROVE Take(s, n) \in ListsOf(A) /\ Len(Take(s, n)) <= n /\ Ids(Take(s, n)) \subseteq Ids(s)
<1>1. s \in Seq(A) BY DEF ListsOf
<1> DEFINE r == Take(s, n)
<1>2. /\ r \in Seq(A) /\ Len(r) \in Nat /\ Len(r) <= Len(s) /\ Len(r) <= n /\ Len(s) \in Nat
      /\ \A i \in 1..Len(r) : r[i] = s[i]
  BY <1>1, TakeEntries
<1> HIDE DEF r
<1>3. Among(r, s)
  <2> DEFINE e == [i \in 1..Len(r) |-> i]
  <2>1. \A i \in 1..Len(r) : i \in 1..Len(s) BY <1>2
  <2>2. e \in [1..Len(r) -> 1..Len(s)] BY <2>1
  <2> QED BY <1>2, <2>2 DEF Among
<1> QED BY <1>2, <1>3, AmongDistinct DEF r

LEMMA DescendingDistinct ==
  ASSUME NEW A, NEW s \in ListsOf(A), NEW key, \A i \in 1..Len(s) : key[i] \in Int
  PROVE Descending(s, key) \in ListsOf(A) /\ Ids(Descending(s, key)) \subseteq Ids(s)
<1> DEFINE r == Descending(s, key)
<1>1. s \in Seq(A) BY DEF ListsOf
<1>2. r \in Seq(A) /\ \E p : Permutes(p, r, s) BY <1>1, DescendingPermutes
<1> HIDE DEF r
<1>3. PICK p : Permutes(p, r, s) BY <1>2
<1>4. Len(s) \in Nat BY <1>1
<1>5. /\ p \in [1..Len(s) -> 1..Len(s)] /\ IsInjective(p)
      /\ r = [i \in 1..Len(s) |-> s[p[i]]]
  BY <1>3 DEF Permutes
<1>6. DOMAIN r = 1..Len(s) /\ DOMAIN r = 1..Len(r) /\ Len(r) \in Nat BY <1>2, <1>5
<1>7. Len(r) = Len(s) BY <1>4, <1>6
<1>8. \A i, j \in 1..Len(s) : p[i] = p[j] => i = j BY <1>5 DEF IsInjective
<1>9. Among(r, s) BY <1>5, <1>7, <1>8 DEF Among
<1> QED BY <1>2, <1>9, AmongDistinct DEF r

LEMMA OnlyDistinct ==
  ASSUME NEW A, NEW s \in ListsOf(A), NEW S
  PROVE Only(s, S) \in ListsOf(A) /\ Ids(Only(s, S)) \subseteq Ids(s) /\ ToSet(Only(s, S)) \subseteq S \cap ToSet(s)
<1> DEFINE r == Only(s, S)
<1>1. s \in Seq(A) BY DEF ListsOf
<1>2. r \in Seq(A) /\ \E e : Picks(e, r, s, S) BY <1>1, OnlyPicks
<1> HIDE DEF r
<1>3. PICK e : Picks(e, r, s, S) BY <1>2
<1>4. /\ e \in [1..Len(r) -> 1..Len(s)]
      /\ \A i, j \in 1..Len(r) : i < j => e[i] < e[j]
      /\ \A i \in 1..Len(r) : r[i] = s[e[i]] /\ r[i] \in S
  BY <1>3 DEF Picks
<1>5. Len(r) \in Nat /\ Len(s) \in Nat /\ DOMAIN r = 1..Len(r) BY <1>1, <1>2
<1>6. \A i, j \in 1..Len(r) : e[i] = e[j] => i = j
  <2>1. ASSUME NEW i \in 1..Len(r), NEW j \in 1..Len(r), e[i] = e[j] PROVE i = j
    <3>1. ~(e[i] < e[j]) /\ ~(e[j] < e[i])
      <4>1. e[i] \in Int /\ e[j] \in Int BY <1>4
      <4> QED BY <2>1, <4>1
    <3>2. ~(i < j) /\ ~(j < i) BY <1>4, <3>1
    <3> QED BY <3>2
  <2> QED BY <2>1
<1>7. Among(r, s) BY <1>4, <1>6 DEF Among
<1>8. ToSet(r) \subseteq S BY <1>4, <1>5 DEF ToSet
<1> QED BY <1>2, <1>7, <1>8, AmongDistinct DEF r

LEMMA AppendDistinct ==
  ASSUME NEW A, NEW s \in ListsOf(A), NEW x \in A, x.id \notin Ids(s)
  PROVE Append(s, x) \in ListsOf(A)
<1>1. s \in Seq(A) /\ \A i, j \in DOMAIN s : s[i].id = s[j].id => i = j BY DEF ListsOf, Distinct
<1> DEFINE t == Append(s, x)
<1>2. /\ t \in Seq(A) /\ DOMAIN t = 1..Len(s) + 1 /\ t[Len(s) + 1] = x
      /\ (\A i \in DOMAIN s : t[i] = s[i]) /\ DOMAIN s = 1..Len(s) /\ Len(s) \in Nat
  BY <1>1, AppendEntries
<1> HIDE DEF t
<1>3. \A i \in DOMAIN t : i = Len(s) + 1 \/ i \in DOMAIN s BY <1>2
<1>4. \A i \in DOMAIN s : t[i].id # x.id BY <1>2 DEF Ids
<1>5. ASSUME NEW i \in DOMAIN t, NEW j \in DOMAIN t, t[i].id = t[j].id PROVE i = j
  <2>1. CASE i = Len(s) + 1 /\ j = Len(s) + 1 BY <2>1
  <2>2. CASE i = Len(s) + 1 /\ j \in DOMAIN s BY <1>2, <1>4, <1>5, <2>2
  <2>3. CASE i \in DOMAIN s /\ j = Len(s) + 1 BY <1>2, <1>4, <1>5, <2>3
  <2>4. CASE i \in DOMAIN s /\ j \in DOMAIN s BY <1>1, <1>2, <1>5, <2>4
  <2> QED BY <1>3, <2>1, <2>2, <2>3, <2>4
<1> QED BY <1>2, <1>5 DEF ListsOf, Distinct, t

LEMMA ConcatDistinct ==
  ASSUME NEW A, NEW s \in ListsOf(A), NEW t \in ListsOf(A), Ids(s) \cap Ids(t) = {}
  PROVE s \o t \in ListsOf(A)
<1>1. s \in Seq(A) /\ t \in Seq(A) BY DEF ListsOf
<1>2. /\ \A i, j \in DOMAIN s : s[i].id = s[j].id => i = j
      /\ \A i, j \in DOMAIN t : t[i].id = t[j].id => i = j
  BY DEF ListsOf, Distinct
<1>3. \A i \in DOMAIN s, j \in DOMAIN t : s[i].id # t[j].id BY DEF Ids
<1> DEFINE u == s \o t
           k == Len(s)
<1>4. /\ u \in Seq(A) /\ k \in Nat /\ DOMAIN s = 1..k /\ Len(t) \in Nat /\ DOMAIN t = 1..Len(t)
      /\ \A i \in DOMAIN s : u[i] = s[i]
      /\ \A i \in DOMAIN u : i \in DOMAIN s \/ (i - k \in DOMAIN t /\ u[i] = t[i - k])
      /\ DOMAIN u = 1..k + Len(t)
  BY <1>1, ConcatEntries
<1> HIDE DEF u, k
<1>5. ASSUME NEW i \in DOMAIN u, NEW j \in DOMAIN u, u[i].id = u[j].id PROVE i = j
  <2>1. CASE i \in DOMAIN s /\ j \in DOMAIN s BY <1>2, <1>4, <1>5, <2>1
  <2>2. CASE i \in DOMAIN s /\ j - k \in DOMAIN t /\ u[j] = t[j - k] BY <1>3, <1>4, <1>5, <2>2
  <2>3. CASE j \in DOMAIN s /\ i - k \in DOMAIN t /\ u[i] = t[i - k] BY <1>3, <1>4, <1>5, <2>3
  <2>4. CASE i - k \in DOMAIN t /\ u[i] = t[i - k] /\ j - k \in DOMAIN t /\ u[j] = t[j - k]
    <3>1. i - k = j - k BY <1>2, <1>5, <2>4
    <3>2. i \in Int /\ j \in Int BY <1>4
    <3> QED BY <1>4, <3>1, <3>2
  <2> QED BY <1>4, <2>1, <2>2, <2>3, <2>4
<1> QED BY <1>4, <1>5 DEF ListsOf, Distinct, u

\* The same ids at the same places.
LEMMA SameIds ==
  ASSUME NEW A, NEW s \in ListsOf(A), NEW B, NEW r \in Seq(B), DOMAIN r = DOMAIN s,
         \A i \in DOMAIN s : r[i].id = s[i].id
  PROVE r \in ListsOf(B) /\ Ids(r) = Ids(s)
<1>1. \A i, j \in DOMAIN s : s[i].id = s[j].id => i = j BY DEF ListsOf, Distinct
<1>2. Distinct(r) BY <1>1 DEF Distinct
<1> QED BY <1>2 DEF ListsOf, Ids

-----------------------------------------------------------------------------
(* What a recall reads *)

ScoredEntry == [id : Note, superseded : BOOLEAN, copy : BOOLEAN, score : Int]
ReadEntry == ScoredEntry \cup [id : Note, superseded : BOOLEAN, copy : BOOLEAN]

\* Entries that, if their note was stale at the beginning, were read as superseded, and will go,
\* or are copies of a note that the table did not have, or of any note after a search in memory.
Fresh(e, mem) ==
  e.id \in recall.stale =>
    \/ e.superseded /\ options.exclude_superseded
    \/ /\ e.copy /\ e.id \in world.held /\ e.superseded = world.old[e.id].superseded
       /\ mem \/ e.id \notin present
FreshScored(mem) == {e \in ScoredEntry : Fresh(e, mem)}
FreshEntries(mem) == {e \in ReadEntry : Fresh(e, mem)}

\* Of the notes that were stale at the beginning, those still there are marked as superseded.
Reading ==
  /\ world \in World /\ present \subseteq Note
  /\ \A n \in present : n \in recall.stale => n \in superseded /\ options.exclude_superseded

LEMMA WorldFields ==
  ASSUME world \in World
  PROVE /\ world.sim \in [Note -> 0..6] /\ world.related \in [Note -> Seq(Note)]
        /\ world.graph \in Seq(Note \X (0..2)) /\ world.causal \in Seq(Note) /\ world.indexed \in Seq(Note)
        /\ world.weights \in (0..10) \X (0..10)
        /\ world.rows \subseteq Note /\ world.held \subseteq Note
        /\ world.old \in [Note -> [superseded : BOOLEAN, related : Seq(Note)]]
BY DEF World

LEMMA ScoredFresh ==
  ASSUME NEW mem, NEW r \in FreshEntries(mem), NEW s \in Int
  PROVE Scored(r, s) \in FreshScored(mem) /\ Scored(r, s).id = r.id /\ Scored(r, s).score = s
<1> DEFINE e == [id |-> r.id, superseded |-> r.superseded, copy |-> r.copy, score |-> s]
<1>1. Scored(r, s) = e BY DEF Scored
<1>2. r \in ReadEntry /\ Fresh(r, mem) BY DEF FreshEntries
<1>3. r.id \in Note /\ r.superseded \in BOOLEAN /\ r.copy \in BOOLEAN BY <1>2 DEF ReadEntry, ScoredEntry
<1>4. e \in ScoredEntry BY <1>3 DEF ScoredEntry
<1>5. e.id = r.id /\ e.score = s /\ e.superseded = r.superseded /\ e.copy = r.copy OBVIOUS
<1> HIDE DEF e
<1>6. Fresh(e, mem) BY <1>2, <1>5 DEF Fresh
<1> QED BY <1>1, <1>4, <1>5, <1>6 DEF FreshScored

LEMMA EntryFresh ==
  ASSUME Reading, NEW mem, NEW n \in present
  PROVE Entry(n) \in FreshEntries(mem) /\ Entry(n).id = n
<1> DEFINE e == [id |-> n, superseded |-> n \in superseded, copy |-> FALSE]
<1>1. Entry(n) = e BY DEF Entry
<1>2. n \in Note /\ (n \in recall.stale => n \in superseded /\ options.exclude_superseded) BY DEF Reading
<1>3. e \in ReadEntry BY <1>2 DEF ReadEntry
<1>4. e.id = n /\ e.superseded = (n \in superseded) OBVIOUS
<1> HIDE DEF e
<1>5. Fresh(e, mem) BY <1>2, <1>4 DEF Fresh
<1> QED BY <1>1, <1>3, <1>4, <1>5 DEF FreshEntries

LEMMA CopyFresh ==
  ASSUME Reading, NEW mem, NEW n \in world.held, mem \/ n \notin present
  PROVE Copy(n) \in FreshEntries(mem) /\ Copy(n).id = n
<1> DEFINE o == world.old[n].superseded
           e == [id |-> n, superseded |-> o, copy |-> TRUE]
<1>1. Copy(n) = e BY DEF Copy
<1>2. n \in Note /\ o \in BOOLEAN BY WorldFields DEF Reading
<1> HIDE DEF o
<1>3. e \in ReadEntry BY <1>2 DEF ReadEntry
<1>4. e.id = n /\ e.superseded = o /\ e.copy OBVIOUS
<1> HIDE DEF e
<1>5. Fresh(e, mem) BY <1>4 DEF Fresh, o
<1> QED BY <1>1, <1>3, <1>4, <1>5 DEF FreshEntries

LEMMA ReadFresh ==
  ASSUME Reading, NEW mem, NEW n \in Findable
  PROVE NoteRead(n) \in FreshEntries(mem) /\ NoteRead(n).id = n
<1>1. CASE n \in present BY <1>1, EntryFresh DEF NoteRead
<1>2. CASE n \notin present
  <2>1. n \in world.held BY <1>2 DEF Findable
  <2> QED BY <1>2, <2>1, CopyFresh DEF NoteRead
<1> QED BY <1>1, <1>2

LEMMA ScoredAreEntries ==
  ASSUME NEW mem
  PROVE FreshScored(mem) \subseteq FreshEntries(mem) /\ \A e \in FreshEntries(mem) : e.id \in Note
BY DEF FreshScored, FreshEntries, ReadEntry, ScoredEntry

LEMMA WiderLists == ASSUME NEW A, NEW B, A \subseteq B PROVE ListsOf(A) \subseteq ListsOf(B)
<1>1. ASSUME NEW s \in Seq(A) PROVE s \in Seq(B)
  <2>1. Len(s) \in Nat /\ \A i \in 1..Len(s) : s[i] \in B BY <1>1
  <2>2. s \in [1..Len(s) -> B] BY <1>1, <2>1
  <2> QED BY <2>1, <2>2
<1> QED BY <1>1 DEF ListsOf

LEMMA ByScoreFresh ==
  ASSUME NEW mem, NEW s \in ListsOf(FreshScored(mem))
  PROVE ByScore(s) \in ListsOf(FreshScored(mem)) /\ Ids(ByScore(s)) \subseteq Ids(s)
<1> DEFINE key == [i \in DOMAIN s |-> s[i].score]
<1>1. s \in Seq(FreshScored(mem)) BY DEF ListsOf
<1>2. DOMAIN s = 1..Len(s) /\ \A i \in 1..Len(s) : s[i] \in FreshScored(mem) BY <1>1, ListPlaces
<1>3. \A i \in 1..Len(s) : key[i] \in Int BY <1>2 DEF FreshScored, ScoredEntry
<1>4. ByScore(s) = Descending(s, key) BY DEF ByScore
<1> HIDE DEF key
<1> QED BY <1>3, <1>4, DescendingDistinct

\* Notes that were read, with their similarity.
LEMMA ReadsFresh ==
  ASSUME NEW mem, NEW S \in SUBSET Note, NEW got, NEW sim \in [Note -> Int],
         \A n \in S : got[n] \in FreshEntries(mem) /\ got[n].id = n,
         NEW list, list = [i \in DOMAIN SetToSeq(S) |-> Scored(got[SetToSeq(S)[i]], sim[SetToSeq(S)[i]])]
  PROVE list \in ListsOf(FreshScored(mem))
<1> DEFINE rows == SetToSeq(S)
<1>1. IsFiniteSet(S) BY FS_Subset, RecallConstants
<1>2. rows \in Seq(S) /\ IsInjective(rows) BY <1>1, SetToSeqLists
<1>3. list = [i \in DOMAIN rows |-> Scored(got[rows[i]], sim[rows[i]])] OBVIOUS
<1> HIDE DEF rows
<1>4. Len(rows) \in Nat /\ DOMAIN rows = 1..Len(rows) /\ \A i \in 1..Len(rows) : rows[i] \in S BY <1>2
<1>5. ASSUME NEW i \in 1..Len(rows) PROVE list[i] \in FreshScored(mem) /\ list[i].id = rows[i]
  <2>1. got[rows[i]] \in FreshEntries(mem) /\ got[rows[i]].id = rows[i] /\ sim[rows[i]] \in Int BY <1>4
  <2>2. list[i] = Scored(got[rows[i]], sim[rows[i]]) BY <1>3, <1>4
  <2> QED BY <2>1, <2>2, ScoredFresh
<1>6. DOMAIN list = 1..Len(rows) /\ list = [i \in 1..Len(rows) |-> list[i]] BY <1>3, <1>4
<1>7. list \in [1..Len(rows) -> FreshScored(mem)] BY <1>5, <1>6
<1>8. list \in Seq(FreshScored(mem)) BY <1>4, <1>7
<1>9. Distinct(list) BY <1>2, <1>4, <1>5, <1>6 DEF Distinct, IsInjective
<1> QED BY <1>8, <1>9 DEF ListsOf

\* The rows of the tables that are near the query.
LEMMA HitsFresh == ASSUME Reading, NEW mem PROVE Hits \in ListsOf(FreshScored(mem))
<1> DEFINE S == world.rows \cap Findable
           rows == SetToSeq(S)
           list == [i \in DOMAIN rows |-> Scored(NoteRead(rows[i]), 4 * world.sim[rows[i]])]
           got == [n \in Note |-> NoteRead(n)]
           sim == [n \in Note |-> 4 * world.sim[n]]
<1>1. S \in SUBSET Note /\ \A n \in S : n \in Findable BY WorldFields DEF Reading
<1>2. Hits = Take(ByScore(list), K) BY DEF Hits
<1>3. sim \in [Note -> Int]
  <2>1. \A n \in Note : world.sim[n] \in 0..6 BY WorldFields DEF Reading
  <2>2. \A s \in 0..6 : 4 * s \in Int OBVIOUS
  <2> QED BY <2>1, <2>2
<1>4. \A n \in S : got[n] \in FreshEntries(mem) /\ got[n].id = n BY <1>1, ReadFresh
<1>5. list = [i \in DOMAIN SetToSeq(S) |-> Scored(got[SetToSeq(S)[i]], sim[SetToSeq(S)[i]])]
  <2>1. IsFiniteSet(S) BY <1>1, FS_Subset, RecallConstants
  <2>2. \A i \in DOMAIN rows : rows[i] \in Note
    <3> HIDE DEF S
    <3>1. rows \in Seq(S) BY <2>1, SetToSeqLists
    <3> HIDE DEF rows
    <3> QED BY <1>1, <3>1
  <2> QED BY <2>2
<1> HIDE DEF S, got, sim, list
<1>6. list \in ListsOf(FreshScored(mem)) BY <1>1, <1>3, <1>4, <1>5, ReadsFresh
<1>7. ByScore(list) \in ListsOf(FreshScored(mem)) BY <1>6, ByScoreFresh
<1>8. K \in Nat BY RecallConstants
<1> QED BY <1>2, <1>7, <1>8, TakeDistinct

\* The copies that are near the query.
LEMMA NearFresh ==
  ASSUME Reading, NEW mem, \A n \in world.held : Copy(n) \in FreshEntries(mem) /\ Copy(n).id = n
  PROVE LET near == SetToSeq({n \in world.held : world.sim[n] > 0}) IN
        [i \in DOMAIN near |-> Scored(Copy(near[i]), 4 * world.sim[near[i]])] \in ListsOf(FreshScored(mem))
<1> DEFINE S == {n \in world.held : world.sim[n] > 0}
           rows == SetToSeq(S)
           list == [i \in DOMAIN rows |-> Scored(Copy(rows[i]), 4 * world.sim[rows[i]])]
           got == [n \in Note |-> Copy(n)]
           sim == [n \in Note |-> 4 * world.sim[n]]
<1>1. S \in SUBSET Note /\ \A n \in S : n \in world.held BY WorldFields DEF Reading
<1>3. sim \in [Note -> Int]
  <2>1. \A n \in Note : world.sim[n] \in 0..6 BY WorldFields DEF Reading
  <2>2. \A s \in 0..6 : 4 * s \in Int OBVIOUS
  <2> QED BY <2>1, <2>2
<1>4. \A n \in S : got[n] \in FreshEntries(mem) /\ got[n].id = n BY <1>1
<1>5. list = [i \in DOMAIN SetToSeq(S) |-> Scored(got[SetToSeq(S)[i]], sim[SetToSeq(S)[i]])]
  <2>1. IsFiniteSet(S)
    <3> HIDE DEF S
    <3> QED BY <1>1, FS_Subset, RecallConstants
  <2>2. \A i \in DOMAIN rows : rows[i] \in Note
    <3> HIDE DEF S
    <3>1. rows \in Seq(S) BY <2>1, SetToSeqLists
    <3> HIDE DEF rows
    <3> QED BY <1>1, <3>1
  <2> QED BY <2>2
<1> HIDE DEF S, got, sim, list
<1>6. list \in ListsOf(FreshScored(mem)) BY <1>1, <1>3, <1>4, <1>5, ReadsFresh
<1> QED BY <1>6 DEF list, S

LEMMA BoostFresh ==
  ASSUME NEW mem, NEW s \in ListsOf(FreshScored(mem))
  PROVE Boosted(s) \in ListsOf(FreshScored(mem))
<1> DEFINE r == [i \in DOMAIN s |-> Boost(s[i])]
<1>1. s \in Seq(FreshScored(mem)) BY DEF ListsOf
<1>2. Len(s) \in Nat /\ DOMAIN s = 1..Len(s) /\ \A i \in 1..Len(s) : s[i] \in FreshScored(mem) BY <1>1, ListPlaces
<1>3. ASSUME NEW e \in FreshScored(mem) PROVE Boost(e) \in FreshScored(mem) /\ Boost(e).id = e.id
  <2>1. e \in ScoredEntry /\ Fresh(e, mem) BY DEF FreshScored
  <2>2. 3 * e.score \in Int BY <2>1 DEF ScoredEntry
  <2>3. [e EXCEPT !.score = 3 * @] \in ScoredEntry BY <2>1, <2>2 DEF ScoredEntry
  <2>4. [e EXCEPT !.score = 3 * @].id = e.id /\ [e EXCEPT !.score = 3 * @].superseded = e.superseded
        /\ [e EXCEPT !.score = 3 * @].copy = e.copy
    BY <2>1 DEF ScoredEntry
  <2> QED BY <2>1, <2>3, <2>4 DEF Boost, FreshScored, Fresh
<1>4. \A i \in DOMAIN s : r[i] \in FreshScored(mem) /\ r[i].id = s[i].id BY <1>2, <1>3
<1>5. r \in [1..Len(s) -> FreshScored(mem)] BY <1>2, <1>4
<1> HIDE DEF r
<1>6. r \in Seq(FreshScored(mem)) /\ DOMAIN r = DOMAIN s BY <1>2, <1>5
<1>7. r \in ListsOf(FreshScored(mem)) BY <1>4, <1>6, SameIds
<1> QED BY <1>7 DEF r, Boosted

-----------------------------------------------------------------------------
(* The stages of a recall *)

\* What a fold reaches is one of its values.
LEMMA ReachesIn ==
  ASSUME NEW A, NEW n \in Nat, NEW base, NEW step, NEW v, Reaches(v, n, A, base, step)
  PROVE v \in A
<1>1. n \in 0..n OBVIOUS
<1> QED BY <1>1 DEF Reaches, Runs

\* The links of one hit.
LEMMA Expand1Fresh ==
  ASSUME Reading, NEW mem, NEW expanded \in ListsOf(FreshScored(mem)), NEW hit \in FreshScored(mem)
  PROVE Expand1(expanded, hit) \in ListsOf(FreshScored(mem))
<1> DEFINE A == ListsOf(FreshScored(mem))
           base == expanded
           list == Links(hit)
           n == Len(list)
           Op(acc, x) == IF Len(acc) >= 2 * K \/ x \notin Findable \/ x \in Ids(acc) THEN acc
                         ELSE Append(acc, Scored(NoteRead(x), hit.score \div 2))
           step == [p \in (1..n) \X A |-> Op(p[2], list[p[1]])]
           Iter(it) == it = [Q \in SUBSET DOMAIN list |->
                               IF Q = {} THEN base ELSE Op(it[Q \ {Max(Q)}], list[Max(Q)])]
           c == CHOOSE it : Iter(it)
<1>1. n \in Nat /\ DOMAIN list = 1..n /\ base \in A
  <2>1. hit.id \in Note BY DEF FreshScored, ScoredEntry
  <2>2. list \in Seq(Note)
    <3>1. world.related[hit.id] \in Seq(Note) /\ world.old[hit.id].related \in Seq(Note)
      BY <2>1, WorldFields DEF Reading
    <3> QED BY <3>1 DEF Links
  <2> HIDE DEF list
  <2> QED BY <2>2
<1>2. Expand1(expanded, hit) = c[1..n] BY <1>1 DEF Expand1, FoldLeft, MapThenFoldSet
<1>3. ASSUME NEW i \in 1..n, NEW acc \in A PROVE Op(acc, list[i]) \in A
  <2> DEFINE x == list[i]
             e == Scored(NoteRead(x), hit.score \div 2)
  <2>1. hit.score \div 2 \in Int BY DEF FreshScored, ScoredEntry
  <2> HIDE DEF list, n, x
  <2>2. CASE x \in Findable /\ x \notin Ids(acc)
    <3>0. NoteRead(x) \in FreshEntries(mem) /\ NoteRead(x).id = x BY <2>2, ReadFresh
    <3>1. e \in FreshScored(mem) /\ e.id = x BY <2>1, <3>0, ScoredFresh
    <3>2. Append(acc, e) \in A BY <2>2, <3>1, AppendDistinct
    <3> QED BY <3>2 DEF x
  <2> QED BY <2>2 DEF x
<1> HIDE DEF A, list, base
<1>4. IsStep(step, n, A)
  <2>1. \A p \in (1..n) \X A : p[1] \in 1..n /\ p[2] \in A OBVIOUS
  <2> HIDE DEF Op, n
  <2> QED BY <1>1, <1>3, <2>1 DEF IsStep
<1>5. \A i \in 1..n, a \in A : step[<<i, a>>] = Op(a, list[i]) OBVIOUS
<1> HIDE DEF step, Op, n
<1>6. \A Q \in SUBSET (1..n) : Q # {} => Max(Q) \in 1..n BY <1>1, LargestMember
<1>7. PICK it : Folds(it, n, A, base, step) BY <1>1, <1>4, FoldExists
<1>8. Iter(it)
  <2>1. it = [Q \in SUBSET (1..n) |-> it[Q]] /\ it[{}] = base BY <1>7 DEF Folds, Obeys
  <2>2. ASSUME NEW Q \in SUBSET (1..n), Q # {} PROVE it[Q] = Op(it[Q \ {Max(Q)}], list[Max(Q)])
    <3>1. it[Q \ {Max(Q)}] \in A BY <1>7 DEF Folds
    <3> QED BY <1>5, <1>6, <1>7, <2>2, <3>1 DEF Folds, Obeys
  <2> QED BY <1>1, <2>1, <2>2
<1>9. Iter(c) BY <1>8
<1> HIDE DEF c
<1>10. Obeys(c, n, A, base, step)
  <2>1. c[{}] = base BY <1>9
  <2>2. ASSUME NEW Q \in SUBSET (1..n), Q # {}, c[Q \ {Max(Q)}] \in A
        PROVE c[Q] = step[<<Max(Q), c[Q \ {Max(Q)}]>>]
    BY <1>1, <1>5, <1>6, <1>9, <2>2
  <2> QED BY <2>1, <2>2 DEF Obeys
<1>11. Reaches(c[1..n], n, A, base, step) BY <1>1, <1>4, <1>10, FoldRuns
<1> QED BY <1>1, <1>2, <1>11, ReachesIn DEF A

LEMMA ExpandViaLinksFresh ==
  ASSUME Reading, NEW mem, NEW hits \in ListsOf(FreshScored(mem))
  PROVE ExpandViaLinks(hits) \in ListsOf(FreshScored(mem))
<1> DEFINE A == ListsOf(FreshScored(mem))
           base == hits
           list == hits
           n == Len(list)
           Op(acc, x) == Expand1(acc, x)
           step == [p \in (1..n) \X A |-> Op(p[2], list[p[1]])]
           Iter(it) == it = [Q \in SUBSET DOMAIN list |->
                               IF Q = {} THEN base ELSE Op(it[Q \ {Max(Q)}], list[Max(Q)])]
           c == CHOOSE it : Iter(it)
<1>1. n \in Nat /\ DOMAIN list = 1..n /\ base \in A /\ \A i \in 1..n : list[i] \in FreshScored(mem)
  <2>1. hits \in Seq(FreshScored(mem)) BY DEF ListsOf
  <2> QED BY <2>1
<1>2. ExpandViaLinks(hits) = c[1..n] BY <1>1 DEF ExpandViaLinks, FoldLeft, MapThenFoldSet
<1>3. \A i \in 1..n, acc \in A : Op(acc, list[i]) \in A BY <1>1, Expand1Fresh
<1> HIDE DEF A, list, base
<1>4. IsStep(step, n, A)
  <2>1. \A p \in (1..n) \X A : p[1] \in 1..n /\ p[2] \in A OBVIOUS
  <2> HIDE DEF Op, n
  <2> QED BY <1>1, <1>3, <2>1 DEF IsStep
<1>5. \A i \in 1..n, a \in A : step[<<i, a>>] = Op(a, list[i]) OBVIOUS
<1> HIDE DEF step, Op, n
<1>6. \A Q \in SUBSET (1..n) : Q # {} => Max(Q) \in 1..n BY <1>1, LargestMember
<1>7. PICK it : Folds(it, n, A, base, step) BY <1>1, <1>4, FoldExists
<1>8. Iter(it)
  <2>1. it = [Q \in SUBSET (1..n) |-> it[Q]] /\ it[{}] = base BY <1>7 DEF Folds, Obeys
  <2>2. ASSUME NEW Q \in SUBSET (1..n), Q # {} PROVE it[Q] = Op(it[Q \ {Max(Q)}], list[Max(Q)])
    <3>1. it[Q \ {Max(Q)}] \in A BY <1>7 DEF Folds
    <3> QED BY <1>5, <1>6, <1>7, <2>2, <3>1 DEF Folds, Obeys
  <2> QED BY <1>1, <2>1, <2>2
<1>9. Iter(c) BY <1>8
<1> HIDE DEF c
<1>10. Obeys(c, n, A, base, step)
  <2>1. c[{}] = base BY <1>9
  <2>2. ASSUME NEW Q \in SUBSET (1..n), Q # {}, c[Q \ {Max(Q)}] \in A
        PROVE c[Q] = step[<<Max(Q), c[Q \ {Max(Q)}]>>]
    BY <1>1, <1>5, <1>6, <1>9, <2>2
  <2> QED BY <2>1, <2>2 DEF Obeys
<1>11. Reaches(c[1..n], n, A, base, step) BY <1>1, <1>4, <1>10, FoldRuns
<1> QED BY <1>1, <1>2, <1>11, ReachesIn DEF A

LEMMA VectorFresh == ASSUME Reading, NEW mem PROVE VectorSearch \in ListsOf(FreshScored(mem))
<1> DEFINE boosted == Boosted(Hits)
<1>1. boosted \in ListsOf(FreshScored(mem)) BY HitsFresh, BoostFresh
<1>2. VectorSearch = ExpandViaLinks(ByScore(boosted)) BY DEF VectorSearch
<1> HIDE DEF boosted
<1> QED BY <1>1, <1>2, ByScoreFresh, ExpandViaLinksFresh

LEMMA InMemoryFresh == ASSUME Reading, NEW mem, mem = TRUE PROVE InMemorySearch \in ListsOf(FreshScored(mem))
<1> DEFINE near == SetToSeq({n \in world.held : world.sim[n] > 0})
           list == [i \in DOMAIN near |-> Scored(Copy(near[i]), 4 * world.sim[near[i]])]
           first == Take(ByScore(Boosted(list)), K)
<1>1. InMemorySearch = ExpandViaLinks(first) BY DEF InMemorySearch
<1>2. list \in ListsOf(FreshScored(mem)) BY CopyFresh, NearFresh
<1> HIDE DEF list
<1>3. ByScore(Boosted(list)) \in ListsOf(FreshScored(mem)) BY <1>2, BoostFresh, ByScoreFresh
<1>4. K \in Nat BY RecallConstants
<1>5. first \in ListsOf(FreshScored(mem)) BY <1>3, <1>4, TakeDistinct
<1> HIDE DEF first
<1> QED BY <1>1, <1>5, ExpandViaLinksFresh

LEMMA DatedFresh ==
  ASSUME NEW mem, NEW found \in ListsOf(FreshScored(mem))
  PROVE DatedFirst(found) \in ListsOf(FreshScored(mem))
<1> DEFINE first == {e \in ToSet(found) : e.id \in world.dated}
           rest == ToSet(found) \ first
           a == Only(found, first)
           b == Only(found, rest)
<1>2. DatedFirst(found) = a \o b BY DEF DatedFirst
<1>3. a \in ListsOf(FreshScored(mem)) /\ ToSet(a) \subseteq first BY OnlyDistinct
<1>4. b \in ListsOf(FreshScored(mem)) /\ ToSet(b) \subseteq rest BY OnlyDistinct
<1>5. Ids(a) \cap Ids(b) = {}
  <2>1. ASSUME NEW i \in DOMAIN a, NEW j \in DOMAIN b, a[i].id = b[j].id PROVE FALSE
    <3>1. a[i] \in first /\ b[j] \in rest BY <1>3, <1>4 DEF ToSet
    <3> QED BY <2>1, <3>1
  <2> HIDE DEF a, b
  <2> QED BY <2>1 DEF Ids
<1> HIDE DEF a, b
<1> QED BY <1>2, <1>3, <1>4, <1>5, ConcatDistinct

\* A finite set of numbers has a least and a greatest one.
LEMMA LeastGreatest ==
  ASSUME NEW S \in SUBSET Int, IsFiniteSet(S), S # {}
  PROVE /\ Min(S) \in S /\ \A y \in S : Min(S) <= y
        /\ Max(S) \in S /\ \A y \in S : Max(S) >= y
<1>1. \E m \in S : \A y \in S : m >= y
  <2> DEFINE R == {p \in S \X S : p[1] <= p[2]}
  <2>1. \A x, y \in S : <<x, y>> \in R <=> x <= y OBVIOUS
  <2> HIDE DEF R
  <2>2. \A x, y \in S : x = y \/ <<x, y>> \in R \/ <<y, x>> \in R
    <3>1. \A x, y \in S : x <= y \/ y <= x OBVIOUS
    <3> QED BY <2>1, <3>1
  <2>3. \A x, y, z \in S : <<x, y>> \in R /\ <<y, z>> \in R => <<x, z>> \in R
    <3>1. \A x, y, z \in S : x <= y /\ y <= z => x <= z OBVIOUS
    <3> QED BY <2>1, <3>1
  <2>4. PICK m \in S : \A y \in S : y = m \/ <<y, m>> \in R
    <3>1. Sorts(R, S) BY <2>2, <2>3 DEF Sorts
    <3> QED BY <3>1, LastMember
  <2>5. \A y \in S : y <= y OBVIOUS
  <2>6. m \in S /\ \A y \in S : m >= y BY <2>1, <2>4, <2>5
  <2> QED BY <2>6
<1>2. \E m \in S : \A y \in S : m <= y
  <2> DEFINE R == {p \in S \X S : p[1] >= p[2]}
  <2>1. \A x, y \in S : <<x, y>> \in R <=> x >= y OBVIOUS
  <2> HIDE DEF R
  <2>2. \A x, y \in S : x = y \/ <<x, y>> \in R \/ <<y, x>> \in R
    <3>1. \A x, y \in S : x >= y \/ y >= x OBVIOUS
    <3> QED BY <2>1, <3>1
  <2>3. \A x, y, z \in S : <<x, y>> \in R /\ <<y, z>> \in R => <<x, z>> \in R
    <3>1. \A x, y, z \in S : x >= y /\ y >= z => x >= z OBVIOUS
    <3> QED BY <2>1, <3>1
  <2>4. PICK m \in S : \A y \in S : y = m \/ <<y, m>> \in R
    <3>1. Sorts(R, S) BY <2>2, <2>3 DEF Sorts
    <3> QED BY <3>1, LastMember
  <2>5. \A y \in S : y >= y OBVIOUS
  <2>6. m \in S /\ \A y \in S : m <= y BY <2>1, <2>4, <2>5
  <2> QED BY <2>6
<1> QED BY <1>1, <1>2 DEF Min, Max

\* Normalisation gives integers.
LEMMA NormalIsInt ==
  ASSUME NEW scores \in Seq(Int), NEW i \in 1..Len(scores)
  PROVE Normal(scores, scores[i]) \in Int
<1> DEFINE S == ToSet(scores)
           lo == Min(S)
           hi == Max(S)
           s == scores[i]
<1>1. S \in SUBSET Int /\ IsFiniteSet(S) /\ s \in S
  <2>1. DOMAIN scores = 1..Len(scores) /\ IsFiniteSet(S) /\ S \subseteq Int BY ListPlaces
  <2> QED BY <2>1 DEF ToSet
<1>2. Normal(scores, s) = IF hi = lo THEN Unit \div 2 ELSE ((s - lo) * Unit) \div (hi - lo) BY DEF Normal
<1> HIDE DEF S
<1>3. lo \in Int /\ hi \in Int /\ lo <= hi /\ s \in Int BY <1>1, LeastGreatest
<1> HIDE DEF lo, hi, s
<1>4. Unit = 27720 BY DEF Unit
<1>5. ASSUME hi = lo PROVE Normal(scores, s) \in Int
  <2>1. Unit \div 2 \in Int BY <1>4
  <2> QED BY <1>2, <1>5, <2>1
<1>6. ASSUME hi # lo PROVE Normal(scores, s) \in Int
  <2> DEFINE a == (s - lo) * Unit
             b == hi - lo
  <2>1. a \in Int /\ b \in Int /\ b > 0 BY <1>3, <1>4, <1>6
  <2>2. Normal(scores, s) = a \div b BY <1>2, <1>6
  <2> HIDE DEF a, b
  <2> QED BY <2>1, <2>2
<1>7. Normal(scores, s) \in Int BY <1>5, <1>6
<1> QED BY <1>7 DEF s

\* Another score in the place of an entry's.
LEMMA Rescored ==
  ASSUME NEW mem, NEW e \in FreshScored(mem), NEW s \in Int
  PROVE [e EXCEPT !.score = s] \in FreshScored(mem) /\ [e EXCEPT !.score = s].id = e.id
<1> DEFINE f == [e EXCEPT !.score = s]
<1>1. e \in ScoredEntry /\ Fresh(e, mem) BY DEF FreshScored
<1>2. f \in ScoredEntry /\ f.id = e.id /\ f.superseded = e.superseded /\ f.copy = e.copy BY <1>1 DEF ScoredEntry
<1> HIDE DEF f
<1>3. Fresh(f, mem) BY <1>1, <1>2 DEF Fresh
<1>4. f \in FreshScored(mem) /\ f.id = e.id BY <1>2, <1>3 DEF FreshScored
<1> QED BY <1>4 DEF f

LEMMA AddedScores ==
  ASSUME NEW mem, NEW acc \in ListsOf(FreshScored(mem)), NEW x, NEW more \in Int
  PROVE [j \in DOMAIN acc |-> IF acc[j].id = x THEN [acc[j] EXCEPT !.score = @ + more] ELSE acc[j]]
        \in ListsOf(FreshScored(mem))
<1> DEFINE r == [j \in DOMAIN acc |-> IF acc[j].id = x THEN [acc[j] EXCEPT !.score = @ + more] ELSE acc[j]]
<1>1. acc \in Seq(FreshScored(mem)) BY DEF ListsOf
<1>2. Len(acc) \in Nat /\ DOMAIN acc = 1..Len(acc) /\ \A j \in 1..Len(acc) : acc[j] \in FreshScored(mem) BY <1>1, ListPlaces
<1>3. ASSUME NEW j \in DOMAIN acc PROVE r[j] \in FreshScored(mem) /\ r[j].id = acc[j].id
  <2> DEFINE e == acc[j]
  <2>1. e \in FreshScored(mem) /\ e.score + more \in Int BY <1>2 DEF FreshScored, ScoredEntry
  <2>2. r[j] = IF e.id = x THEN [e EXCEPT !.score = e.score + more] ELSE e OBVIOUS
  <2> HIDE DEF r, e
  <2>3. r[j] \in FreshScored(mem) /\ r[j].id = e.id BY <2>1, <2>2, Rescored
  <2> QED BY <2>3 DEF e
<1>4. r = [j \in 1..Len(acc) |-> r[j]] BY <1>2
<1> HIDE DEF r
<1>5. r \in [1..Len(acc) -> FreshScored(mem)] BY <1>2, <1>3, <1>4
<1>6. r \in Seq(FreshScored(mem)) /\ DOMAIN r = DOMAIN acc BY <1>2, <1>5
<1>7. r \in ListsOf(FreshScored(mem)) BY <1>3, <1>6, SameIds
<1> QED BY <1>7 DEF r

\* What vector search and graph search found, together.
LEMMA BlendFresh ==
  ASSUME Reading, NEW mem, recall.scored \in ListsOf(FreshScored(mem))
  PROVE Blend \in ListsOf(FreshScored(mem))
<1> DEFINE A == ListsOf(FreshScored(mem))
           scored == recall.scored
           vs == [i \in DOMAIN scored |-> scored[i].score]
           gs == [i \in DOMAIN world.graph |-> GraphScore(world.graph[i][2])]
           base == [i \in DOMAIN vs |-> [scored[i] EXCEPT !.score = Normal(vs, @) * world.weights[1]]]
           list == [i \in DOMAIN world.graph |-> i]
           n == Len(list)
           Op(acc, x) ==
             LET note == world.graph[x][1]
                 more == Normal(gs, gs[x]) * world.weights[2] IN
             IF note \in Ids(acc)
             THEN [j \in DOMAIN acc |-> IF acc[j].id = note THEN [acc[j] EXCEPT !.score = @ + more] ELSE acc[j]]
             ELSE IF note \in present THEN Append(acc, Scored(Entry(note), more)) ELSE acc
           step == [p \in (1..n) \X A |-> Op(p[2], list[p[1]])]
           Iter(it) == it = [Q \in SUBSET DOMAIN list |->
                               IF Q = {} THEN base ELSE Op(it[Q \ {Max(Q)}], list[Max(Q)])]
           c == CHOOSE it : Iter(it)
           top == Take(ByScore(c[1..n]), K)
<1>0. /\ world.graph \in Seq(Note \X (0..2)) /\ world.weights[1] \in Int /\ world.weights[2] \in Int
      /\ Len(world.graph) \in Nat /\ DOMAIN world.graph = 1..Len(world.graph)
      /\ \A i \in 1..Len(world.graph) : world.graph[i][1] \in Note /\ world.graph[i][2] \in 0..2
  <2>1. world.graph \in Seq(Note \X (0..2)) /\ world.weights \in (0..10) \X (0..10) BY WorldFields DEF Reading
  <2>2. \A i \in 1..Len(world.graph) : world.graph[i] \in Note \X (0..2) BY <2>1
  <2>3. \A p \in Note \X (0..2) : p[1] \in Note /\ p[2] \in 0..2 OBVIOUS
  <2>4. \A p \in (0..10) \X (0..10) : p[1] \in Int /\ p[2] \in Int OBVIOUS
  <2> QED BY <2>1, <2>2, <2>3, <2>4
<1>1. n \in Nat /\ DOMAIN list = 1..n /\ base \in A /\ n = Len(world.graph) /\ (\A i \in 1..n : list[i] = i)
  <2>1. n = Len(world.graph) BY <1>0
  <2>2. DOMAIN list = 1..n /\ \A i \in 1..n : list[i] = i BY <1>0, <2>1
  <2>3. base \in A
    <3>1. scored \in Seq(FreshScored(mem)) BY DEF ListsOf
    <3>2. Len(scored) \in Nat /\ DOMAIN scored = 1..Len(scored) /\ \A i \in 1..Len(scored) : scored[i] \in FreshScored(mem)
      BY <3>1, ListPlaces
    <3>3. vs \in [1..Len(scored) -> Int] BY <3>2 DEF FreshScored, ScoredEntry
    <3>4. vs \in Seq(Int) /\ Len(vs) = Len(scored) /\ DOMAIN vs = DOMAIN scored BY <3>2, <3>3
    <3>5. ASSUME NEW i \in DOMAIN scored PROVE base[i] \in FreshScored(mem) /\ base[i].id = scored[i].id
      <4> DEFINE e == scored[i]
                 s == Normal(vs, vs[i]) * world.weights[1]
      <4>1. Normal(vs, vs[i]) \in Int BY <3>2, <3>4, NormalIsInt
      <4>2. s \in Int
        <5> DEFINE v == Normal(vs, vs[i])
                   w == world.weights[1]
        <5>1. v \in Int /\ w \in Int BY <1>0, <4>1
        <5> HIDE DEF v, w
        <5>2. v * w \in Int BY <5>1
        <5> QED BY <5>2 DEF v, w
      <4>3. vs[i] = e.score /\ i \in DOMAIN vs BY <3>4
      <4>4. base[i] = [e EXCEPT !.score = s] BY <4>3
      <4>5. e \in FreshScored(mem) BY <3>2
      <4> HIDE DEF base, s, e, vs
      <4>6. base[i] \in FreshScored(mem) /\ base[i].id = e.id BY <4>2, <4>4, <4>5, Rescored
      <4> QED BY <4>6 DEF e
    <3>6. base = [i \in 1..Len(scored) |-> base[i]] BY <3>2, <3>4
    <3> HIDE DEF base
    <3>7. base \in [1..Len(scored) -> FreshScored(mem)] BY <3>2, <3>5, <3>6
    <3>8. base \in Seq(FreshScored(mem)) /\ DOMAIN base = DOMAIN scored BY <3>2, <3>7
    <3> QED BY <3>5, <3>8, SameIds
  <2> QED BY <1>0, <2>1, <2>2, <2>3
<1>2. Blend = IF Len(top) < Len(scored) THEN Take(scored, K) ELSE top
  <2> DEFINE all == FoldLeft(Op, base, list)
  <2>1. Blend = IF Len(Take(ByScore(all), K)) < Len(scored) THEN Take(scored, K) ELSE Take(ByScore(all), K)
    BY DEF Blend
  <2>2. all = c[1..n]
    <3> HIDE DEF Op, base, list, n
    <3> QED BY <1>1 DEF FoldLeft, MapThenFoldSet
  <2> HIDE DEF all, c
  <2> QED BY <2>1, <2>2
<1>3. ASSUME NEW i \in 1..n, NEW acc \in A PROVE Op(acc, list[i]) \in A
  <2> DEFINE note == world.graph[i][1]
             more == Normal(gs, gs[i]) * world.weights[2]
  <2>1. more \in Int
    <3>1. ASSUME NEW j \in 1..Len(world.graph) PROVE GraphScore(world.graph[j][2]) \in Int
      <4>1. world.graph[j][2] \in 0..2 BY <1>0
      <4>2. \A h \in 0..2 : 6 \div (1 + h) \in Int OBVIOUS
      <4> QED BY <4>1, <4>2 DEF GraphScore
    <3>2. gs \in [1..Len(world.graph) -> Int] BY <1>0, <3>1
    <3> HIDE DEF gs
    <3> DEFINE m == Len(world.graph)
    <3>3. gs \in Seq(Int) /\ Len(gs) = m
      <4>1. m \in Nat /\ gs \in [1..m -> Int] BY <1>0, <3>2
      <4> HIDE DEF m
      <4> QED BY <4>1
    <3>4. Normal(gs, gs[i]) \in Int BY <1>1, <3>3, NormalIsInt
    <3> DEFINE v == Normal(gs, gs[i])
               w == world.weights[2]
    <3>5. v \in Int /\ w \in Int BY <1>0, <3>4
    <3> HIDE DEF v, w
    <3>6. v * w \in Int BY <3>5
    <3> QED BY <3>6 DEF v, w
  <2>2. Op(acc, list[i]) =
          IF note \in Ids(acc)
          THEN [j \in DOMAIN acc |-> IF acc[j].id = note THEN [acc[j] EXCEPT !.score = @ + more] ELSE acc[j]]
          ELSE IF note \in present THEN Append(acc, Scored(Entry(note), more)) ELSE acc
    BY <1>1
  <2> HIDE DEF note, more, Op, list, n
  <2>3. CASE note \in Ids(acc)
    <3> DEFINE longer == [j \in DOMAIN acc |-> IF acc[j].id = note THEN [acc[j] EXCEPT !.score = @ + more] ELSE acc[j]]
    <3>1. longer \in A BY <2>1, AddedScores
    <3> HIDE DEF longer, A
    <3>2. Op(acc, list[i]) = longer BY <2>2, <2>3 DEF longer
    <3> QED BY <3>1, <3>2
  <2>4. CASE note \notin Ids(acc) /\ note \in present
    <3>0. Entry(note) \in FreshEntries(mem) /\ Entry(note).id = note BY <2>4, EntryFresh
    <3>1. Scored(Entry(note), more) \in FreshScored(mem) /\ Scored(Entry(note), more).id = note BY <2>1, <3>0, ScoredFresh
    <3>2. Append(acc, Scored(Entry(note), more)) \in A BY <2>4, <3>1, AppendDistinct
    <3> QED BY <2>2, <2>4, <3>2
  <2>5. CASE note \notin Ids(acc) /\ note \notin present BY <2>2, <2>5
  <2> QED BY <2>3, <2>4, <2>5
<1> HIDE DEF A, list, base, top
<1>4. IsStep(step, n, A)
  <2>1. \A p \in (1..n) \X A : p[1] \in 1..n /\ p[2] \in A OBVIOUS
  <2> HIDE DEF Op, n
  <2> QED BY <1>1, <1>3, <2>1 DEF IsStep
<1>5. \A i \in 1..n, a \in A : step[<<i, a>>] = Op(a, list[i])
  <2> HIDE DEF Op, n, list
  <2> QED OBVIOUS
<1> HIDE DEF step, Op, n
<1>6. \A Q \in SUBSET (1..n) : Q # {} => Max(Q) \in 1..n BY <1>1, LargestMember
<1>7. PICK it : Folds(it, n, A, base, step) BY <1>1, <1>4, FoldExists
<1>8. Iter(it)
  <2>1. it = [Q \in SUBSET (1..n) |-> it[Q]] /\ it[{}] = base BY <1>7 DEF Folds, Obeys
  <2>2. ASSUME NEW Q \in SUBSET (1..n), Q # {} PROVE it[Q] = Op(it[Q \ {Max(Q)}], list[Max(Q)])
    <3>1. it[Q \ {Max(Q)}] \in A BY <1>7 DEF Folds
    <3> QED BY <1>5, <1>6, <1>7, <2>2, <3>1 DEF Folds, Obeys
  <2> QED BY <1>1, <2>1, <2>2
<1>9. Iter(c) BY <1>8
<1> HIDE DEF c
<1>10. Obeys(c, n, A, base, step)
  <2>1. c[{}] = base BY <1>9
  <2>2. ASSUME NEW Q \in SUBSET (1..n), Q # {}, c[Q \ {Max(Q)}] \in A
        PROVE c[Q] = step[<<Max(Q), c[Q \ {Max(Q)}]>>]
    <3>1. Max(Q) \in 1..n BY <1>6, <2>2
    <3>2. step[<<Max(Q), c[Q \ {Max(Q)}]>>] = Op(c[Q \ {Max(Q)}], list[Max(Q)]) BY <1>5, <2>2, <3>1
    <3>3. c[Q] = Op(c[Q \ {Max(Q)}], list[Max(Q)]) BY <1>1, <1>9, <2>2
    <3> QED BY <3>2, <3>3
  <2> QED BY <2>1, <2>2 DEF Obeys
<1>11. Reaches(c[1..n], n, A, base, step) BY <1>1, <1>4, <1>10, FoldRuns
<1>12. c[1..n] \in A BY <1>1, <1>11, ReachesIn
<1>13. K \in Nat BY RecallConstants
<1>14. top \in ListsOf(FreshScored(mem)) BY <1>12, <1>13, ByScoreFresh, TakeDistinct DEF top, A
<1> QED BY <1>2, <1>13, <1>14, TakeDistinct

\* Notes appended by the causal and by the entity stage.
LEMMA AppendNotesFresh ==
  ASSUME Reading, NEW mem, NEW held \in ListsOf(FreshEntries(mem)), NEW ids \in Seq(Note)
  PROVE AppendNotes(held, ids) \in ListsOf(FreshEntries(mem))
<1> DEFINE A == ListsOf(FreshEntries(mem))
           base == held
           list == ids
           n == Len(list)
           Op(acc, x) == IF x \in Ids(acc) \/ x \notin present THEN acc ELSE Append(acc, Entry(x))
           step == [p \in (1..n) \X A |-> Op(p[2], list[p[1]])]
           Iter(it) == it = [Q \in SUBSET DOMAIN list |->
                               IF Q = {} THEN base ELSE Op(it[Q \ {Max(Q)}], list[Max(Q)])]
           c == CHOOSE it : Iter(it)
<1>1. n \in Nat /\ DOMAIN list = 1..n /\ base \in A OBVIOUS
<1>2. AppendNotes(held, ids) = c[1..n] BY <1>1 DEF AppendNotes, FoldLeft, MapThenFoldSet
<1>3. ASSUME NEW i \in 1..n, NEW acc \in A PROVE Op(acc, list[i]) \in A
  <2> DEFINE x == list[i]
  <2> HIDE DEF list, n, x
  <2>1. CASE x \in present /\ x \notin Ids(acc)
    <3>1. Entry(x) \in FreshEntries(mem) /\ Entry(x).id = x BY <2>1, EntryFresh
    <3>2. Append(acc, Entry(x)) \in A BY <2>1, <3>1, AppendDistinct
    <3> QED BY <3>2 DEF x
  <2> QED BY <2>1 DEF x
<1> HIDE DEF A, list, base
<1>4. IsStep(step, n, A)
  <2>1. \A p \in (1..n) \X A : p[1] \in 1..n /\ p[2] \in A OBVIOUS
  <2> HIDE DEF Op, n
  <2> QED BY <1>1, <1>3, <2>1 DEF IsStep
<1>5. \A i \in 1..n, a \in A : step[<<i, a>>] = Op(a, list[i])
  <2> HIDE DEF Op, n, list
  <2> QED OBVIOUS
<1> HIDE DEF step, Op, n
<1>6. \A Q \in SUBSET (1..n) : Q # {} => Max(Q) \in 1..n BY <1>1, LargestMember
<1>7. PICK it : Folds(it, n, A, base, step) BY <1>1, <1>4, FoldExists
<1>8. Iter(it)
  <2>1. it = [Q \in SUBSET (1..n) |-> it[Q]] /\ it[{}] = base BY <1>7 DEF Folds, Obeys
  <2>2. ASSUME NEW Q \in SUBSET (1..n), Q # {} PROVE it[Q] = Op(it[Q \ {Max(Q)}], list[Max(Q)])
    <3>1. it[Q \ {Max(Q)}] \in A BY <1>7 DEF Folds
    <3> QED BY <1>5, <1>6, <1>7, <2>2, <3>1 DEF Folds, Obeys
  <2> QED BY <1>1, <2>1, <2>2
<1>9. Iter(c) BY <1>8
<1> HIDE DEF c
<1>10. Obeys(c, n, A, base, step)
  <2>1. c[{}] = base BY <1>9
  <2>2. ASSUME NEW Q \in SUBSET (1..n), Q # {}, c[Q \ {Max(Q)}] \in A
        PROVE c[Q] = step[<<Max(Q), c[Q \ {Max(Q)}]>>]
    BY <1>1, <1>5, <1>6, <1>9, <2>2
  <2> QED BY <2>1, <2>2 DEF Obeys
<1>11. Reaches(c[1..n], n, A, base, step) BY <1>1, <1>4, <1>10, FoldRuns
<1> QED BY <1>1, <1>2, <1>11, ReachesIn DEF A

\* The head in another order, the tail after it.
LEMMA RerankFresh ==
  ASSUME NEW A, NEW list \in ListsOf(A), NEW k \in Nat,
         NEW order \in [DOMAIN Take(list, k) -> DOMAIN Take(list, k)], IsInjective(order)
  PROVE [i \in DOMAIN Take(list, k) |-> Take(list, k)[order[i]]] \o SubSeq(list, Len(Take(list, k)) + 1, Len(list))
        \in ListsOf(A)
<1> DEFINE head == Take(list, k)
           m == Len(head)
           n == Len(list)
           tail == SubSeq(list, m + 1, n)
           first == [i \in DOMAIN head |-> head[order[i]]]
           r == first \o tail
<1>0. order \in [DOMAIN head -> DOMAIN head] /\ \A i, j \in DOMAIN head : order[i] = order[j] => i = j BY DEF IsInjective
<1>1. list \in Seq(A) BY DEF ListsOf
<1>2. n \in Nat /\ \A i \in 1..n : list[i] \in A BY <1>1
<1>3. head \in Seq(A) /\ m \in Nat /\ m <= n /\ \A i \in 1..m : head[i] = list[i] BY <1>1, TakeEntries
<1> HIDE DEF head, n
<1>4. DOMAIN head = 1..m BY <1>3
<1> HIDE DEF m
<1>5. tail \in Seq(A) /\ Len(tail) = n - m /\ \A i \in 1..n - m : tail[i] = list[m + i]
  <2>1. m + 1 \in Int /\ n \in Int /\ \A i \in m + 1..n : list[i] \in A BY <1>2, <1>3
  <2>2. /\ tail \in Seq(A) /\ Len(tail) = IF m + 1 <= n THEN n - (m + 1) + 1 ELSE 0
        /\ \A i \in 1..n - (m + 1) + 1 : tail[i] = list[m + 1 + i - 1]
    BY <2>1, SubSeqProperties
  <2> HIDE DEF tail
  <2>3. n - (m + 1) + 1 = n - m /\ (m + 1 <= n \/ n - m = 0) BY <1>2, <1>3
  <2>4. \A i \in 1..n - m : m + 1 + i - 1 = m + i BY <1>2, <1>3
  <2> QED BY <1>2, <1>3, <2>2, <2>3, <2>4
<1> HIDE DEF tail
<1>6. \A i \in 1..m : order[i] \in 1..m /\ first[i] = list[order[i]] /\ order[i] \in 1..n /\ list[order[i]] \in A
  <2>1. \A i \in 1..m : order[i] \in 1..m /\ first[i] = head[order[i]] BY <1>0, <1>4
  <2>2. \A i \in 1..m : i \in 1..n BY <1>2, <1>3
  <2> HIDE DEF first
  <2> QED BY <1>2, <1>3, <2>1, <2>2
<1>7. first \in Seq(A) /\ Len(first) = m
  <2>1. first = [i \in 1..m |-> first[i]] BY <1>4
  <2> HIDE DEF first
  <2>2. first \in [1..m -> A] BY <1>6, <2>1
  <2> QED BY <1>3, <2>2
<1> HIDE DEF first
<1>8. r \in Seq(A) /\ Len(r) = n /\ \A i \in 1..n : r[i] = IF i <= m THEN first[i] ELSE tail[i - m]
  <2>1. /\ r \in Seq(A) /\ Len(r) = Len(first) + Len(tail)
        /\ \A i \in 1..Len(first) + Len(tail) : r[i] = IF i <= Len(first) THEN first[i] ELSE tail[i - Len(first)]
    BY <1>5, <1>7, ConcatProperties
  <2> HIDE DEF r
  <2>2. Len(first) + Len(tail) = n BY <1>2, <1>3, <1>5, <1>7
  <2> QED BY <1>7, <2>1, <2>2
<1> HIDE DEF r
<1> DEFINE e == [i \in 1..n |-> IF i <= m THEN order[i] ELSE i]
<1>9. \A i, j \in 1..m : order[i] = order[j] => i = j BY <1>0, <1>4
<1>10. \A i \in 1..n : i <= m <=> i \in 1..m BY <1>2, <1>3
<1>11. \A i \in 1..n : e[i] \in 1..n /\ r[i] = list[e[i]]
  <2>1. ASSUME NEW i \in 1..n, i <= m PROVE e[i] \in 1..n /\ r[i] = list[e[i]]
    <3>1. e[i] = order[i] /\ i \in 1..m BY <1>10, <2>1
    <3> HIDE DEF e
    <3> QED BY <1>6, <1>8, <2>1, <3>1
  <2>2. ASSUME NEW i \in 1..n, ~(i <= m) PROVE e[i] \in 1..n /\ r[i] = list[e[i]]
    <3>1. e[i] = i /\ i - m \in 1..n - m /\ m + (i - m) = i BY <1>2, <1>3, <2>2
    <3> HIDE DEF e
    <3> QED BY <1>5, <1>8, <2>2, <3>1
  <2> QED BY <2>1, <2>2
<1>12. ASSUME NEW i \in 1..n, NEW j \in 1..n, e[i] = e[j] PROVE i = j
  <2>1. i \in 1..m => e[i] \in 1..m /\ e[i] = order[i] BY <1>6, <1>10
  <2>2. j \in 1..m => e[j] \in 1..m /\ e[j] = order[j] BY <1>6, <1>10
  <2>3. i \notin 1..m => e[i] = i BY <1>10
  <2>4. j \notin 1..m => e[j] = j BY <1>10
  <2> HIDE DEF e
  <2> QED BY <1>9, <1>12, <2>1, <2>2, <2>3, <2>4
<1>13. e = [i \in 1..n |-> e[i]] OBVIOUS
<1> HIDE DEF e
<1>14. e \in [1..n -> 1..n] BY <1>11, <1>13
<1>15. Among(r, list) BY <1>8, <1>11, <1>12, <1>14, SMTT(30) DEF Among, n
<1>16. r \in ListsOf(A) BY <1>8, <1>15, AmongDistinct
<1> QED BY <1>16 DEF r, first, tail, n, m, head

-----------------------------------------------------------------------------
(* The invariant of a recall *)

RecallShape ==
  /\ world \in World
  /\ options \in [exclude_superseded : BOOLEAN, include_expired : BOOLEAN, timeout : BOOLEAN]
  /\ present \subseteq Note /\ superseded \subseteq Note /\ expired \subseteq Note
  /\ recall \in [stage : Stages, scored : ListsOf(ScoredEntry), results : ListsOf(ReadEntry),
                 stale : SUBSET Note, accessed : SUBSET Note, inMemory : BOOLEAN]
  /\ caller \in {"idle", "waiting", "timed_out", "returned"}
  /\ storeChanges \in 0..MaxStoreChanges

FreshList == ListsOf(FreshScored(recall.inMemory))
FreshResults == ListsOf(FreshEntries(recall.inMemory))

\* The entry is a copy that was not superseded yet, of a note that the table does not have, or any
\* copy if the search was in memory.
OldCopy(e) ==
  /\ e.copy /\ e.id \in world.held
  /\ options.exclude_superseded => ~world.old[e.id].superseded
  /\ recall.inMemory \/ e.id \notin present

\* A list holds an entry of a stale note only as superseded, and before the last stage, or as a
\* copy; what was stale and is there is still marked.
RecallReads ==
  /\ \A n \in present : n \in recall.stale => n \in superseded /\ options.exclude_superseded
  /\ recall.scored \in FreshList /\ recall.results \in FreshResults
  /\ caller = "idle" => recall.stage = "idle"
  /\ recall.stage \in {"idle", "vector"} => recall.scored = <<>> /\ recall.results = <<>>
  /\ recall.stage = "done" => Len(recall.results) <= K
  /\ recall.stage = "done" => \A e \in ToSet(recall.results) : e.id \in recall.stale => OldCopy(e)

RecallInv == RecallShape /\ RecallReads

LEMMA NoEntries == ASSUME NEW A PROVE <<>> \in ListsOf(A)
<1>1. <<>> \in Seq(A) /\ DOMAIN <<>> = {} OBVIOUS
<1> QED BY <1>1 DEF ListsOf, Distinct

LEMMA FreshInShape ==
  ASSUME NEW mem
  PROVE /\ ListsOf(FreshScored(mem)) \subseteq ListsOf(ScoredEntry)
        /\ ListsOf(FreshEntries(mem)) \subseteq ListsOf(ReadEntry)
        /\ ListsOf(FreshScored(mem)) \subseteq ListsOf(FreshEntries(mem))
<1>1. FreshScored(mem) \subseteq ScoredEntry /\ FreshEntries(mem) \subseteq ReadEntry BY DEF FreshScored, FreshEntries
<1> QED BY <1>1, ScoredAreEntries, WiderLists

LEMMA IdsAreNotes == ASSUME NEW list \in ListsOf(ReadEntry) PROVE Ids(list) \subseteq Note
<1>1. list \in Seq(ReadEntry) BY DEF ListsOf
<1>2. \A i \in DOMAIN list : list[i] \in ReadEntry BY <1>1
<1> QED BY <1>2 DEF Ids, ReadEntry, ScoredEntry

LEMMA RecallStarts1 == RecallInit => RecallInv
<1> SUFFICES ASSUME RecallInit PROVE RecallInv OBVIOUS
<1>1. world \in World BY RecallConstants DEF RecallInit
<1>2. recall.stage = "idle" /\ recall.scored = <<>> /\ recall.results = <<>> /\ recall.stale = {} /\ recall.accessed = {}
  BY DEF RecallInit
<1>3. RecallShape
  <2>1. recall \in [stage : Stages, scored : ListsOf(ScoredEntry), results : ListsOf(ReadEntry),
                    stale : SUBSET Note, accessed : SUBSET Note, inMemory : BOOLEAN]
    BY NoEntries DEF RecallInit, Stages
  <2>2. storeChanges \in 0..MaxStoreChanges BY RecallConstants DEF RecallInit
  <2> QED BY <1>1, <2>1, <2>2 DEF RecallInit, RecallShape
<1>4. RecallReads BY <1>2, NoEntries DEF RecallReads, FreshList, FreshResults
<1> QED BY <1>3, <1>4 DEF RecallInv

\* Entries stay as fresh as they are, also when notes go.
LEMMA FreshStays ==
  ASSUME recall.stale' = recall.stale, UNCHANGED <<world, options>>, present' \subseteq present
  PROVE \A mem : recall'.inMemory = mem =>
          /\ ListsOf(FreshScored(mem)) \subseteq FreshList'
          /\ ListsOf(FreshEntries(mem)) \subseteq FreshResults'
<1> SUFFICES ASSUME NEW mem, recall'.inMemory = mem
             PROVE /\ ListsOf(FreshScored(mem)) \subseteq FreshList'
                   /\ ListsOf(FreshEntries(mem)) \subseteq FreshResults'
  OBVIOUS
<1>1. \A e : Fresh(e, mem) => Fresh(e, recall.inMemory)' BY DEF Fresh
<1> DEFINE S == {e \in ScoredEntry : Fresh(e, recall.inMemory)'}
           R == {e \in ReadEntry : Fresh(e, recall.inMemory)'}
<1>2. FreshScored(mem) \subseteq S /\ FreshEntries(mem) \subseteq R BY <1>1 DEF FreshScored, FreshEntries
<1>3. FreshList' = ListsOf(S) /\ FreshResults' = ListsOf(R)
  BY DEF FreshList, FreshResults, FreshScored, FreshEntries, Fresh, ListsOf, ScoredEntry, ReadEntry, Distinct
<1> HIDE DEF S, R
<1> QED BY <1>2, <1>3, WiderLists

\* The lists of a recall stay fresh lists.
LEMMA ListsStayFresh ==
  ASSUME recall.stale' = recall.stale, recall.inMemory' = recall.inMemory, UNCHANGED <<world, options>>,
         present' \subseteq present
  PROVE FreshList \subseteq FreshList' /\ FreshResults \subseteq FreshResults'
BY FreshStays DEF FreshList, FreshResults

LEMMA ReadingOf == RecallInv => Reading
BY DEF RecallInv, RecallShape, RecallReads, Reading

\* A stage that leaves a list of fresh entries keeps the invariant.
LEMMA StageKeeps ==
  ASSUME RecallInv, NEW from, NEW to \in Stages \ {"idle", "vector", "done"}, from \notin {"idle", "vector"}, NEW found \in FreshResults,
         Stage(from, to, found)
  PROVE RecallInv'
<1>1. RecallShape /\ RecallReads BY DEF RecallInv
<1> DEFINE r == [recall EXCEPT !.stage = to, !.results = found]
<1>2. recall' = r /\ recall.stage = from /\ UNCHANGED <<world, options, present, superseded, expired, caller, storeChanges>>
  BY DEF Stage
<1>3. r \in [stage : Stages, scored : ListsOf(ScoredEntry), results : ListsOf(ReadEntry),
             stale : SUBSET Note, accessed : SUBSET Note, inMemory : BOOLEAN]
  BY <1>1, FreshInShape DEF RecallShape, FreshResults
<1>4. /\ r.stage = to /\ r.results = found /\ r.scored = recall.scored /\ r.stale = recall.stale
      /\ r.inMemory = recall.inMemory
  BY <1>1 DEF RecallShape
<1> HIDE DEF r
<1>5. RecallShape' BY <1>1, <1>2, <1>3 DEF RecallShape
<1>6. FreshList \subseteq FreshList' /\ FreshResults \subseteq FreshResults' BY <1>2, <1>4, ListsStayFresh
<1>7. caller # "idle" BY <1>1, <1>2 DEF RecallReads
<1>8. recall'.stage \notin {"idle", "vector", "done"} BY <1>2, <1>4
<1>9. (recall.scored \in FreshList)' /\ (recall.results \in FreshResults)'
  BY <1>1, <1>2, <1>4, <1>6 DEF RecallReads
<1>10. \A n \in present' : n \in recall'.stale => n \in superseded' /\ options'.exclude_superseded
  BY <1>1, <1>2, <1>4 DEF RecallReads
<1>11. RecallReads' BY <1>2, <1>7, <1>8, <1>9, <1>10 DEF RecallReads
<1> QED BY <1>5, <1>11 DEF RecallInv

LEMMA VectorStageKeeps == ASSUME RecallInv, NEW fails \in BOOLEAN, VectorStage(fails) PROVE RecallInv'
<1>1. RecallShape /\ RecallReads /\ Reading BY ReadingOf DEF RecallInv
<1> DEFINE mem == fails \/ VectorSearch = <<>>
           found == IF mem THEN InMemorySearch ELSE VectorSearch
           list == DatedFirst(found)
           r == [recall EXCEPT !.stage = "blend", !.inMemory = mem, !.scored = list]
<1>2. recall' = r /\ recall.stage = "vector" /\ UNCHANGED <<world, options, present, superseded, expired, caller, storeChanges>>
  BY DEF VectorStage
<1>3. list \in ListsOf(FreshScored(mem)) /\ mem \in BOOLEAN
  <2>1. mem \in BOOLEAN OBVIOUS
  <2>2. CASE mem
    <3>1. found = InMemorySearch /\ mem = TRUE BY <2>1, <2>2
    <3> HIDE DEF mem
    <3>2. found \in ListsOf(FreshScored(mem)) BY <1>1, <3>1, InMemoryFresh
    <3> HIDE DEF found
    <3> QED BY <2>1, <3>2, DatedFresh
  <2>3. CASE ~mem
    <3>1. found = VectorSearch BY <2>3
    <3> HIDE DEF mem
    <3>2. found \in ListsOf(FreshScored(mem)) BY <1>1, <3>1, VectorFresh
    <3> HIDE DEF found
    <3> QED BY <2>1, <3>2, DatedFresh
  <2> QED BY <2>2, <2>3
<1> HIDE DEF list, mem, found
<1>4. r \in [stage : Stages, scored : ListsOf(ScoredEntry), results : ListsOf(ReadEntry),
             stale : SUBSET Note, accessed : SUBSET Note, inMemory : BOOLEAN]
  BY <1>1, <1>3, FreshInShape DEF RecallShape, Stages
<1>5. /\ r.stage = "blend" /\ r.results = recall.results /\ r.scored = list /\ r.stale = recall.stale
      /\ r.inMemory = mem
  BY <1>1 DEF RecallShape
<1> HIDE DEF r
<1>6. RecallShape' BY <1>1, <1>2, <1>4 DEF RecallShape
<1>7. ListsOf(FreshScored(mem)) \subseteq FreshList'
  <2>1. /\ recall.stale' = recall.stale /\ UNCHANGED <<world, options>> /\ present' \subseteq present
        /\ recall'.inMemory = mem
    BY <1>2, <1>5
  <2> QED BY <2>1, FreshStays
<1>8. caller # "idle" /\ recall.results = <<>> BY <1>1, <1>2 DEF RecallReads
<1>9. (recall.scored \in FreshList)' /\ (recall.results \in FreshResults)'
  <2>1. recall'.results = <<>> /\ recall'.scored = list BY <1>2, <1>5, <1>8
  <2>2. <<>> \in FreshResults' BY NoEntries DEF FreshResults
  <2> QED BY <1>3, <1>7, <2>1, <2>2
<1>10. \A n \in present' : n \in recall'.stale => n \in superseded' /\ options'.exclude_superseded
  BY <1>1, <1>2, <1>5 DEF RecallReads
<1>11. RecallReads' BY <1>2, <1>5, <1>8, <1>9, <1>10 DEF RecallReads
<1> QED BY <1>6, <1>11 DEF RecallInv

LEMMA BlendStageKeeps == ASSUME RecallInv, BlendStage PROVE RecallInv'
<1>1. Blend \in FreshResults
  BY ReadingOf, BlendFresh, FreshInShape DEF RecallInv, RecallReads, FreshList, FreshResults
<1> QED BY <1>1, StageKeeps DEF BlendStage, Stages

LEMMA CausalStageKeeps == ASSUME RecallInv, CausalStage PROVE RecallInv'
<1> DEFINE list == IF world.isCausal THEN AppendNotes(recall.results, world.causal) ELSE recall.results
<1>1. Reading /\ recall.results \in FreshResults BY ReadingOf DEF RecallInv, RecallReads
<1>2. world.causal \in Seq(Note) BY <1>1, WorldFields DEF Reading
<1>3. list \in FreshResults BY <1>1, <1>2, AppendNotesFresh DEF FreshResults
<1>4. Stage("causal", "augment", list) BY DEF CausalStage
<1> HIDE DEF list
<1> QED BY <1>3, <1>4, StageKeeps DEF Stages

LEMMA AugmentStageKeeps == ASSUME RecallInv, AugmentStage PROVE RecallInv'
<1> DEFINE list == AppendNotes(recall.results, Take(world.indexed, EntityK))
<1>1. Reading /\ recall.results \in FreshResults BY ReadingOf DEF RecallInv, RecallReads
<1>2. Take(world.indexed, EntityK) \in Seq(Note)
  <2>1. world.indexed \in Seq(Note) /\ EntityK \in Nat BY <1>1, WorldFields, RecallConstants DEF Reading
  <2> QED BY <2>1, TakeEntries
<1>3. list \in FreshResults BY <1>1, <1>2, AppendNotesFresh DEF FreshResults
<1>4. Stage("augment", "rerank", list) BY DEF AugmentStage
<1> HIDE DEF list
<1> QED BY <1>3, <1>4, StageKeeps DEF Stages

LEMMA RerankStageKeeps == ASSUME RecallInv, RerankStage PROVE RecallInv'
<1> DEFINE list == recall.results
           head == Take(list, RerankMax)
           Reranked(order) == [i \in DOMAIN head |-> head[order[i]]] \o SubSeq(list, Len(head) + 1, Len(list))
<1>1. list \in FreshResults BY DEF RecallInv, RecallReads
<1>2. PICK order \in {p \in [DOMAIN head -> DOMAIN head] : IsInjective(p)} : Stage("rerank", "filter", Reranked(order))
  BY DEF RerankStage
<1>3. RerankMax \in Nat BY RecallConstants
<1> HIDE DEF list
<1>4. Reranked(order) \in FreshResults BY <1>1, <1>2, <1>3, RerankFresh DEF FreshResults
<1> HIDE DEF Reranked
<1> QED BY <1>2, <1>4, StageKeeps DEF Stages

LEMMA FilterStageKeeps == ASSUME RecallInv, FilterStage PROVE RecallInv'
<1>1. RecallShape /\ RecallReads BY DEF RecallInv
<1> DEFINE current == {e \in ToSet(recall.results) : /\ options.exclude_superseded => ~e.superseded
                                                     /\ options.include_expired \/ e.id \notin expired}
           only == Only(recall.results, current)
           kept == Take(only, K)
           r == [recall EXCEPT !.stage = "done", !.results = kept, !.accessed = Ids(kept)]
<1>2. recall' = r /\ recall.stage = "filter" /\ UNCHANGED <<world, options, present, superseded, expired, caller, storeChanges>>
  BY DEF FilterStage
<1> DEFINE mem == recall.inMemory
<1>3. only \in ListsOf(FreshEntries(mem)) /\ ToSet(only) \subseteq current
  BY <1>1, OnlyDistinct DEF RecallReads, FreshResults
<1>4. \A e \in current : options.exclude_superseded => ~e.superseded OBVIOUS
<1> HIDE DEF current, only
<1>5. K \in Nat BY RecallConstants
<1>6. /\ kept \in ListsOf(FreshEntries(mem)) /\ Len(kept) <= K
      /\ ToSet(kept) \subseteq ToSet(only)
  <2>1. kept \in ListsOf(FreshEntries(mem)) /\ Len(kept) <= K BY <1>3, <1>5, TakeDistinct
  <2>2. ToSet(kept) \subseteq ToSet(only)
    <3>1. only \in Seq(FreshEntries(mem)) BY <1>3 DEF ListsOf
    <3>2. /\ kept \in Seq(FreshEntries(mem)) /\ Len(kept) <= Len(only)
          /\ \A i \in 1..Len(kept) : kept[i] = only[i]
      BY <1>5, <3>1, TakeEntries
    <3>3. \A i \in DOMAIN kept : i \in DOMAIN only /\ kept[i] = only[i] BY <3>1, <3>2
    <3> QED BY <3>3 DEF ToSet
  <2> QED BY <2>1, <2>2
<1>7. \A e \in ToSet(kept) : e.id \in recall.stale => OldCopy(e)
  <2>1. only \in Seq(FreshEntries(mem)) BY <1>3 DEF ListsOf
  <2>2. \A e \in ToSet(only) : e \in FreshEntries(mem) /\ e \in current BY <1>3, <2>1 DEF ToSet
  <2>3. \A e \in ToSet(kept) : Fresh(e, mem) /\ (options.exclude_superseded => ~e.superseded)
    BY <1>4, <1>6, <2>2 DEF FreshEntries
  <2> HIDE DEF kept
  <2> QED BY <2>3 DEF Fresh, OldCopy
<1> HIDE DEF kept
<1>8. kept \in ListsOf(ReadEntry) /\ Ids(kept) \subseteq Note BY <1>6, FreshInShape, IdsAreNotes
<1>9. r \in [stage : Stages, scored : ListsOf(ScoredEntry), results : ListsOf(ReadEntry),
             stale : SUBSET Note, accessed : SUBSET Note, inMemory : BOOLEAN]
  BY <1>1, <1>8 DEF RecallShape, Stages
<1>10. /\ r.stage = "done" /\ r.results = kept /\ r.scored = recall.scored /\ r.stale = recall.stale
       /\ r.inMemory = mem
  BY <1>1 DEF RecallShape
<1> HIDE DEF r
<1>11. RecallShape' BY <1>1, <1>2, <1>9 DEF RecallShape
<1>12. FreshList \subseteq FreshList' /\ FreshResults \subseteq FreshResults' BY <1>2, <1>10, ListsStayFresh
<1>13. caller # "idle" BY <1>1, <1>2 DEF RecallReads
<1>14. (recall.scored \in FreshList)' /\ (recall.results \in FreshResults)'
  BY <1>1, <1>2, <1>6, <1>10, <1>12 DEF RecallReads, FreshResults
<1>15. \A n \in present' : n \in recall'.stale => n \in superseded' /\ options'.exclude_superseded
  BY <1>1, <1>2, <1>10 DEF RecallReads
<1>16. (\A e \in ToSet(recall.results) : e.id \in recall.stale => OldCopy(e))' /\ Len(recall.results)' <= K
  <2>1. recall'.results = kept /\ recall'.stale = recall.stale /\ recall'.inMemory = mem BY <1>2, <1>10
  <2>2. \A e : OldCopy(e) => OldCopy(e)' BY <1>2, <2>1 DEF OldCopy
  <2>3. ToSet(recall.results)' = ToSet(kept) BY <2>1 DEF ToSet
  <2> QED BY <1>6, <1>7, <2>1, <2>2, <2>3
<1>17. RecallReads' BY <1>2, <1>10, <1>13, <1>14, <1>15, <1>16 DEF RecallReads
<1> QED BY <1>11, <1>17 DEF RecallInv

LEMMA CallKeeps == ASSUME RecallInv, Call PROVE RecallInv'
<1>1. RecallShape /\ RecallReads BY DEF RecallInv
<1> DEFINE old == (IF options.exclude_superseded THEN superseded ELSE {}) \cup (Note \ present)
           r == [recall EXCEPT !.stage = "vector", !.stale = old]
<1>2. /\ recall' = r /\ caller = "idle" /\ caller' = "waiting"
      /\ UNCHANGED <<world, options, present, superseded, expired, storeChanges>>
  BY DEF Call
<1>3. recall.scored = <<>> /\ recall.results = <<>> /\ recall.stage = "idle" BY <1>1, <1>2 DEF RecallReads
<1>4. old \in SUBSET Note /\ \A n \in present : n \in old => n \in superseded /\ options.exclude_superseded
  BY <1>1 DEF RecallShape
<1> HIDE DEF old
<1>5. r \in [stage : Stages, scored : ListsOf(ScoredEntry), results : ListsOf(ReadEntry),
             stale : SUBSET Note, accessed : SUBSET Note, inMemory : BOOLEAN]
  BY <1>1, <1>4 DEF RecallShape, Stages
<1>6. r.stage = "vector" /\ r.results = <<>> /\ r.scored = <<>> /\ r.stale = old BY <1>1, <1>3 DEF RecallShape
<1> HIDE DEF r
<1>7. RecallShape' BY <1>1, <1>2, <1>5 DEF RecallShape
<1>8. (recall.scored \in FreshList)' /\ (recall.results \in FreshResults)'
  BY <1>2, <1>6, NoEntries DEF FreshList, FreshResults
<1>9. \A n \in present' : n \in recall'.stale => n \in superseded' /\ options'.exclude_superseded
  BY <1>2, <1>4, <1>6
<1>10. RecallReads' BY <1>2, <1>6, <1>8, <1>9 DEF RecallReads
<1> QED BY <1>7, <1>10 DEF RecallInv

LEMMA CallerKeeps == ASSUME RecallInv, TimeOut \/ ReturnFromRecall PROVE RecallInv'
<1>1. RecallShape /\ RecallReads BY DEF RecallInv
<1>2. /\ UNCHANGED <<world, options, present, superseded, expired, recall, storeChanges>>
      /\ caller # "idle" /\ caller' \in {"timed_out", "returned"}
  BY DEF TimeOut, ReturnFromRecall
<1>3. RecallShape' BY <1>1, <1>2 DEF RecallShape
<1>4. FreshList \subseteq FreshList' /\ FreshResults \subseteq FreshResults' BY <1>2, ListsStayFresh
<1>5. (\A e : OldCopy(e) => OldCopy(e)') /\ ToSet(recall.results)' = ToSet(recall.results)
  BY <1>2 DEF OldCopy, ToSet
<1>6. caller' # "idle" BY <1>2
<1>7. RecallReads' BY <1>1, <1>2, <1>4, <1>5, <1>6 DEF RecallReads
<1> QED BY <1>3, <1>7 DEF RecallInv

LEMMA ChangeStoreKeeps == ASSUME RecallInv, NEW n \in Note, ChangeStore(n) PROVE RecallInv'
<1>1. RecallShape /\ RecallReads BY DEF RecallInv
<1>2. /\ UNCHANGED <<world, options, recall, caller>> /\ storeChanges < MaxStoreChanges /\ storeChanges' = storeChanges + 1
      /\ present' \subseteq present /\ superseded \subseteq superseded'
      /\ superseded' \subseteq superseded \cup {n} /\ expired' \subseteq expired \cup {n}
  BY DEF ChangeStore
<1>3. storeChanges' \in 0..MaxStoreChanges BY <1>1, <1>2, RecallConstants DEF RecallShape
<1>4. RecallShape' BY <1>1, <1>2, <1>3 DEF RecallShape
<1>5. FreshList \subseteq FreshList' /\ FreshResults \subseteq FreshResults' BY <1>2, ListsStayFresh
<1>6. (\A e : OldCopy(e) => OldCopy(e)') /\ ToSet(recall.results)' = ToSet(recall.results)
  BY <1>2 DEF OldCopy, ToSet
<1>7. \A m \in present' : m \in recall'.stale => m \in superseded' /\ options'.exclude_superseded
  BY <1>1, <1>2 DEF RecallReads
<1>8. RecallReads' BY <1>1, <1>2, <1>5, <1>6, <1>7 DEF RecallReads
<1> QED BY <1>4, <1>8 DEF RecallInv

LEMMA RecallStutters == ASSUME RecallInv, UNCHANGED recallVars PROVE RecallInv'
<1>1. UNCHANGED <<world, options, present, superseded, expired, recall, caller, storeChanges>> BY DEF recallVars
<1>2. FreshList \subseteq FreshList' /\ FreshResults \subseteq FreshResults' BY <1>1, ListsStayFresh
<1>3. (\A e : OldCopy(e) => OldCopy(e)') /\ ToSet(recall.results)' = ToSet(recall.results)
  BY <1>1 DEF OldCopy, ToSet
<1> QED BY <1>1, <1>2, <1>3 DEF RecallInv, RecallShape, RecallReads

LEMMA RecallKeeps == RecallInv /\ [RecallNext]_recallVars => RecallInv'
<1> SUFFICES ASSUME RecallInv, [RecallNext]_recallVars PROVE RecallInv' OBVIOUS
<1>1. CASE ClientNext BY <1>1, CallKeeps, CallerKeeps DEF ClientNext
<1>2. CASE WorkerStage
  BY <1>2, VectorStageKeeps, BlendStageKeeps, CausalStageKeeps, AugmentStageKeeps, RerankStageKeeps, FilterStageKeeps
     DEF WorkerStage
<1>3. CASE \E n \in Note : ChangeStore(n) BY <1>3, ChangeStoreKeeps
<1>4. CASE UNCHANGED recallVars BY <1>4, RecallStutters
<1> QED BY <1>1, <1>2, <1>3, <1>4 DEF RecallNext

LEMMA RecallInvTypes == RecallInv => RecallTypeOK
<1> SUFFICES ASSUME RecallInv PROVE RecallTypeOK OBVIOUS
<1>1. RecallShape BY DEF RecallInv
<1>2. recall.stage \in Stages /\ recall.scored \in ListsOf(ScoredEntry) /\ recall.results \in ListsOf(ReadEntry)
      /\ recall.accessed \subseteq Note /\ recall.inMemory \in BOOLEAN
  BY <1>1 DEF RecallShape
<1>3. Ids(recall.results) \subseteq Note BY <1>2, IdsAreNotes
<1>4. Ids(recall.scored) \subseteq Note
  <2>1. ScoredEntry \subseteq ReadEntry BY DEF ReadEntry
  <2>2. ListsOf(ScoredEntry) \subseteq ListsOf(ReadEntry) BY <2>1, WiderLists
  <2> QED BY <1>2, <2>2, IdsAreNotes
<1> QED BY <1>1, <1>2, <1>3, <1>4 DEF RecallShape, RecallTypeOK

\* A recall keeps notes where notes belong.
THEOREM RecallTypeCorrect == RecallSpec => []RecallTypeOK
<1>1. RecallInit => RecallInv BY RecallStarts1
<1>2. RecallInv /\ [RecallNext]_recallVars => RecallInv' BY RecallKeeps
<1>3. RecallInv => RecallTypeOK BY RecallInvTypes
<1> QED BY <1>1, <1>2, <1>3, PTL DEF RecallSpec

\* For any indexes, any notes.jsonl, and whatever other threads do to the store between the stages:
\* a note that was superseded, or gone, when recall() began comes back only as a copy that was not
\* superseded yet, for want of the note in the table or after a search in memory; no note comes
\* twice, and at most k come.
THEOREM NothingStaleCorrect == RecallSpec => []NothingStaleReturned
<1>1. RecallInit => RecallInv BY RecallStarts1
<1>2. RecallInv /\ [RecallNext]_recallVars => RecallInv' BY RecallKeeps
<1>3. RecallInv => NothingStaleReturned
  <2> SUFFICES ASSUME RecallInv, recall.stage = "done" PROVE NothingStaleReturned BY DEF NothingStaleReturned
  <2>1. /\ \A e \in ToSet(recall.results) : e.id \in recall.stale => OldCopy(e)
        /\ Len(recall.results) <= K /\ Distinct(recall.results)
    BY DEF RecallInv, RecallReads, FreshResults, ListsOf
  <2>2. IsInjective([i \in DOMAIN recall.results |-> recall.results[i].id]) BY <2>1 DEF IsInjective, Distinct
  <2> QED BY <2>1, <2>2 DEF NothingStaleReturned, OldCopy
<1> QED BY <1>1, <1>2, <1>3, PTL DEF RecallSpec

-----------------------------------------------------------------------------
(* Synthesis *)

LEMMA DeduplicatedNotes == ASSUME NEW notes \in Seq(SNote) PROVE Deduplicated(notes) \in Seq(SNote)
<1> DEFINE A == Seq(SNote)
           base == <<>>
           list == Only(notes, Range(notes) \ LowTier)
           n == Len(list)
           Op(acc, x) == IF x \in Range(acc) THEN acc ELSE Append(acc, x)
           step == [p \in (1..n) \X A |-> Op(p[2], list[p[1]])]
           Iter(it) == it = [Q \in SUBSET DOMAIN list |->
                               IF Q = {} THEN base ELSE Op(it[Q \ {Max(Q)}], list[Max(Q)])]
           c == CHOOSE it : Iter(it)
           once == c[1..n]
<1>1. n \in Nat /\ DOMAIN list = 1..n /\ base \in A /\ \A i \in 1..n : list[i] \in SNote
  <2>1. list \in Seq(SNote) BY OnlyPicks
  <2>2. base \in A OBVIOUS
  <2> HIDE DEF list
  <2> QED BY <2>1, <2>2
<1>2. Deduplicated(notes) = SubSeq(once, 1, IF Len(once) < Wanted THEN Len(once) ELSE Wanted)
  <2> DEFINE all == FoldLeft(Op, base, list)
  <2>1. Deduplicated(notes) = SubSeq(all, 1, IF Len(all) < Wanted THEN Len(all) ELSE Wanted)
    BY DEF Deduplicated
  <2>2. all = c[1..n]
    <3> HIDE DEF Op, base, list, n
    <3> QED BY <1>1 DEF FoldLeft, MapThenFoldSet
  <2> HIDE DEF all, c
  <2> QED BY <2>1, <2>2
<1>3. ASSUME NEW i \in 1..n, NEW acc \in A PROVE Op(acc, list[i]) \in A
  <2> DEFINE x == list[i]
  <2>1. x \in SNote BY <1>1
  <2> HIDE DEF list, n, x
  <2>2. Append(acc, x) \in A BY <2>1
  <2> QED BY <2>2 DEF x
<1> HIDE DEF A, list, base, once
<1>4. IsStep(step, n, A)
  <2>1. \A p \in (1..n) \X A : p[1] \in 1..n /\ p[2] \in A OBVIOUS
  <2> HIDE DEF Op, n
  <2> QED BY <1>1, <1>3, <2>1 DEF IsStep
<1>5. \A i \in 1..n, a \in A : step[<<i, a>>] = Op(a, list[i])
  <2> HIDE DEF Op, n, list
  <2> QED OBVIOUS
<1> HIDE DEF step, Op, n
<1>6. \A Q \in SUBSET (1..n) : Q # {} => Max(Q) \in 1..n BY <1>1, LargestMember
<1>7. PICK it : Folds(it, n, A, base, step) BY <1>1, <1>4, FoldExists
<1>8. Iter(it)
  <2>1. it = [Q \in SUBSET (1..n) |-> it[Q]] /\ it[{}] = base BY <1>7 DEF Folds, Obeys
  <2>2. ASSUME NEW Q \in SUBSET (1..n), Q # {} PROVE it[Q] = Op(it[Q \ {Max(Q)}], list[Max(Q)])
    <3>1. it[Q \ {Max(Q)}] \in A BY <1>7 DEF Folds
    <3> QED BY <1>5, <1>6, <1>7, <2>2, <3>1 DEF Folds, Obeys
  <2> QED BY <1>1, <2>1, <2>2
<1>9. Iter(c) BY <1>8
<1> HIDE DEF c
<1>10. Obeys(c, n, A, base, step)
  <2>1. c[{}] = base BY <1>9
  <2>2. ASSUME NEW Q \in SUBSET (1..n), Q # {}, c[Q \ {Max(Q)}] \in A
        PROVE c[Q] = step[<<Max(Q), c[Q \ {Max(Q)}]>>]
    BY <1>1, <1>5, <1>6, <1>9, <2>2
  <2> QED BY <2>1, <2>2 DEF Obeys
<1>11. Reaches(c[1..n], n, A, base, step) BY <1>1, <1>4, <1>10, FoldRuns
<1>12. once \in Seq(SNote) BY <1>1, <1>11, ReachesIn DEF once, A
<1>13. Wanted \in Nat BY SynthesisConstants
<1> DEFINE m == IF Len(once) < Wanted THEN Len(once) ELSE Wanted
<1>14. Len(once) \in Nat /\ m \in Nat /\ m <= Len(once) /\ \A i \in 1..Len(once) : once[i] \in SNote BY <1>12, <1>13
<1> HIDE DEF m
<1>15. 1 \in Int /\ m \in Int /\ \A i \in 1..m : once[i] \in SNote BY <1>14
<1>16. SubSeq(once, 1, m) \in Seq(SNote) BY <1>15, SubSeqProperties
<1> QED BY <1>2, <1>16 DEF m

\* What a thread may be doing, and what may have been logged, when m queries have been started.
AskerOf(m) ==
  {c \in [at : {"idle", "recall", "started", "kept", "own_recall", "retrieved", "generated", "rate"},
          question : Question \cup {""}, id : 0..m, inner : 0..m, notes : Seq(SNote)] :
     /\ c.at # "idle" => c.question \in Question /\ c.id # 0
     /\ c.at = "own_recall" => c.inner # 0}
EventOf(m) == [kind : {"recall", "synthesis", "feedback"}, id : 1..m, asked : Question \cup {""}, notes : Seq(SNote)]

SynthesisInv ==
  /\ debug \in BOOLEAN
  /\ queries \in Seq(Question) /\ Len(queries) <= MaxQueries
  /\ slot \in 0..Len(queries) /\ slotNotes \in Seq(SNote)
  /\ asker \in [Asker -> AskerOf(Len(queries))]
  /\ events \in Seq(EventOf(Len(queries)))

LEMMA MoreQueries ==
  ASSUME NEW m \in Nat, NEW n \in Nat, m <= n
  PROVE AskerOf(m) \subseteq AskerOf(n) /\ EventOf(m) \subseteq EventOf(n) /\ Seq(EventOf(m)) \subseteq Seq(EventOf(n))
<1>1. 0..m \subseteq 0..n /\ 1..m \subseteq 1..n OBVIOUS
<1>2. AskerOf(m) \subseteq AskerOf(n) BY <1>1 DEF AskerOf
<1>3. EventOf(m) \subseteq EventOf(n) BY <1>1 DEF EventOf
<1> DEFINE A == EventOf(m)
           B == EventOf(n)
<1> HIDE DEF A, B
<1>4. ASSUME A \subseteq B, NEW s \in Seq(A) PROVE s \in Seq(B)
  <2>1. Len(s) \in Nat /\ \A i \in 1..Len(s) : s[i] \in B BY <1>4
  <2>2. s \in [1..Len(s) -> B] BY <1>4, <2>1
  <2> QED BY <2>1, <2>2
<1> QED BY <1>2, <1>3, <1>4 DEF A, B

\* Of the queries: none or one more.
LEMMA QueriesGrow ==
  ASSUME SynthesisInv, UNCHANGED queries \/ \E q \in Question : StartQuery(q)
  PROVE /\ queries' \in Seq(Question) /\ Len(queries') <= MaxQueries /\ Len(queries) \in Nat /\ Len(queries') \in Nat
        /\ Len(queries) <= Len(queries')
        /\ \A q \in Question : StartQuery(q) => Len(queries') = Len(queries) + 1
<1>1. queries \in Seq(Question) /\ Len(queries) <= MaxQueries /\ Len(queries) \in Nat BY DEF SynthesisInv
<1>2. ASSUME NEW q \in Question, StartQuery(q)
      PROVE queries' \in Seq(Question) /\ Len(queries') = Len(queries) + 1 /\ Len(queries) < MaxQueries
  BY <1>1, <1>2 DEF StartQuery
<1>3. CASE UNCHANGED queries
  <2>1. \A q \in Question : ~StartQuery(q)
    <3>1. \A q \in Question : StartQuery(q) => Len(queries') = Len(queries) + 1 BY <1>2
    <3> QED BY <1>1, <1>3, <3>1
  <2> QED BY <1>1, <1>3, <2>1
<1>4. CASE \E q \in Question : StartQuery(q)
  <2>1. queries' \in Seq(Question) /\ Len(queries') = Len(queries) + 1 /\ Len(queries) < MaxQueries BY <1>2, <1>4
  <2> QED BY <1>1, <2>1, SynthesisConstants
<1> QED BY <1>3, <1>4

\* One thread goes on.
LEMMA AskerGoesOn ==
  ASSUME SynthesisInv, NEW t \in Asker, UNCHANGED queries \/ \E q \in Question : StartQuery(q),
         NEW record \in AskerOf(Len(queries')), Becomes(t, record), UNCHANGED debug,
         slot' \in 0..Len(queries'), slotNotes' \in Seq(SNote), events' \in Seq(EventOf(Len(queries')))
  PROVE SynthesisInv'
<1>1. queries' \in Seq(Question) /\ Len(queries') <= MaxQueries /\ AskerOf(Len(queries)) \subseteq AskerOf(Len(queries'))
  BY QueriesGrow, MoreQueries
<1>2. asker' \in [Asker -> AskerOf(Len(queries'))]
  <2>1. asker \in [Asker -> AskerOf(Len(queries))] /\ asker' = [asker EXCEPT ![t] = record] BY DEF SynthesisInv, Becomes
  <2> DEFINE A == AskerOf(Len(queries))
             B == AskerOf(Len(queries'))
  <2>2. A \subseteq B /\ record \in B /\ asker \in [Asker -> A] BY <1>1, <2>1
  <2> HIDE DEF A, B
  <2>3. asker' \in [Asker -> B] BY <2>1, <2>2
  <2> QED BY <2>3 DEF B
<1> QED BY <1>1, <1>2 DEF SynthesisInv

LEMMA QuietAsker == ASSUME NEW m \in Nat PROVE Quiet \in AskerOf(m)
<1>1. <<>> \in Seq(SNote) /\ 0 \in 0..m OBVIOUS
<1> QED BY <1>1 DEF Quiet, AskerOf

\* The fields of what a thread is doing.
LEMMA AskerFields ==
  ASSUME SynthesisInv, NEW t \in Asker
  PROVE /\ asker[t] \in AskerOf(Len(queries)) /\ Len(queries) \in Nat
        /\ asker[t].question \in Question \cup {""} /\ asker[t].notes \in Seq(SNote)
        /\ asker[t].at # "idle" => asker[t].question \in Question /\ asker[t].id \in 1..Len(queries)
        /\ asker[t].at = "own_recall" => asker[t].inner \in 1..Len(queries)
<1>1. asker[t] \in AskerOf(Len(queries)) /\ Len(queries) \in Nat BY DEF SynthesisInv
<1> DEFINE m == Len(queries)
           c == asker[t]
<1>2. c \in AskerOf(m) /\ m \in Nat BY <1>1
<1> HIDE DEF m, c
<1>3. /\ c.question \in Question \cup {""} /\ c.notes \in Seq(SNote)
      /\ c.at # "idle" => c.question \in Question /\ c.id \in 1..m
      /\ c.at = "own_recall" => c.inner \in 1..m
  <2>1. /\ c \in [at : {"idle", "recall", "started", "kept", "own_recall", "retrieved", "generated", "rate"},
                  question : Question \cup {""}, id : 0..m, inner : 0..m, notes : Seq(SNote)]
        /\ c.at # "idle" => c.question \in Question /\ c.id # 0
        /\ c.at = "own_recall" => c.inner # 0
    BY <1>2 DEF AskerOf
  <2>2. c.question \in Question \cup {""} /\ c.notes \in Seq(SNote) /\ c.id \in 0..m /\ c.inner \in 0..m BY <2>1
  <2>3. \A i \in 0..m : i # 0 => i \in 1..m BY <1>2
  <2> QED BY <2>1, <2>2, <2>3
<1> QED BY <1>1, <1>3 DEF c, m

\* A search returns some of the notes it may return.
LEMMA FoundNotes ==
  ASSUME NEW q \in Question, NEW found \in Prefixes(SearchHits[q])
  PROVE found \in Seq(SNote)
<1> DEFINE s == SearchHits[q]
<1>1. s \in Seq(SNote) BY SynthesisConstants
<1> HIDE DEF s
<1>2. PICK l \in 0..Len(s) : found = SubSeq(s, 1, l) BY DEF Prefixes, s
<1>3. Len(s) \in Nat /\ \A i \in 1..Len(s) : s[i] \in SNote BY <1>1
<1>4. 1 \in Int /\ l \in Int /\ \A i \in 1..l : s[i] \in SNote BY <1>2, <1>3
<1> QED BY <1>2, <1>4, SubSeqProperties

LEMMA Logged ==
  ASSUME SynthesisInv, NEW new \in Seq(EventOf(Len(queries))), Log(new)
  PROVE events' \in Seq(EventOf(Len(queries)))
<1> DEFINE B == EventOf(Len(queries))
<1>1. events \in Seq(B) /\ new \in Seq(B) /\ events' = events \o new BY DEF SynthesisInv, Log
<1> HIDE DEF B
<1>2. events' \in Seq(B) BY <1>1
<1> QED BY <1>2 DEF B

LEMMA EventFields ==
  ASSUME SynthesisInv, NEW t \in Asker, NEW kind \in {"recall", "synthesis", "feedback"}, NEW id \in 1..Len(queries),
         NEW notes \in Seq(SNote)
  PROVE Event(kind, t, id, notes) \in EventOf(Len(queries)) /\ <<Event(kind, t, id, notes)>> \in Seq(EventOf(Len(queries)))
<1> DEFINE B == EventOf(Len(queries))
           e == Event(kind, t, id, notes)
<1>1. asker[t].question \in Question \cup {""} BY AskerFields
<1>2. e \in B BY <1>1 DEF Event, EventOf
<1> HIDE DEF B, e
<1>3. <<e>> \in Seq(B) BY <1>2
<1> QED BY <1>2, <1>3 DEF B, e

LEMMA SynthesisStarts == SynthesisInit => SynthesisInv
<1> SUFFICES ASSUME SynthesisInit PROVE SynthesisInv OBVIOUS
<1>1. queries = <<>> /\ events = <<>> /\ slotNotes = <<>> /\ slot = 0 /\ asker = [t \in Asker |-> Quiet] /\ debug \in BOOLEAN
  BY DEF SynthesisInit
<1>2. <<>> \in Seq(Question) /\ Len(<<>>) = 0 /\ <<>> \in Seq(SNote) /\ 0 \in 0..0 /\ 0 \in Nat OBVIOUS
<1>3. <<>> \in Seq(EventOf(0)) OBVIOUS
<1>4. Quiet \in AskerOf(0) BY <1>2, QuietAsker
<1>5. Len(queries) = 0 /\ 0 <= MaxQueries BY <1>1, <1>2, SynthesisConstants
<1>6. asker \in [Asker -> AskerOf(0)] BY <1>1, <1>4
<1> QED BY <1>1, <1>2, <1>3, <1>5, <1>6 DEF SynthesisInv

LEMMA RecallStartsKeeps == ASSUME SynthesisInv, NEW t \in Asker, NEW q \in Question, RecallStarts(t, q) PROVE SynthesisInv'
<1> DEFINE n == Len(queries)
           m == Len(queries')
           r == [Quiet EXCEPT !.at = "recall", !.question = q, !.id = n + 1]
<1>1. StartQuery(q) /\ slot' = n + 1 /\ Becomes(t, r) /\ UNCHANGED <<debug, slotNotes, events>> BY DEF RecallStarts
<1>2. m \in Nat /\ n \in Nat /\ n <= m /\ m = n + 1 BY <1>1, QueriesGrow
<1>3. slotNotes' \in Seq(SNote) /\ events' \in Seq(EventOf(m))
  <2>1. events \in Seq(EventOf(n)) /\ slotNotes \in Seq(SNote) BY DEF SynthesisInv
  <2> HIDE DEF n, m
  <2> QED BY <1>1, <1>2, <2>1, MoreQueries
<1>4. r \in AskerOf(m)
  <2>1. n + 1 \in 0..m /\ n + 1 # 0 /\ 0 \in 0..m /\ <<>> \in Seq(SNote) BY <1>2
  <2> HIDE DEF n, m
  <2> QED BY <2>1 DEF AskerOf, Quiet
<1>5. slot' \in 0..m BY <1>1, <1>2
<1> HIDE DEF r
<1> QED BY <1>1, <1>3, <1>4, <1>5, AskerGoesOn

\* The end of a recall, with a record of what the thread does next.
LEMMA RecallReturnsKeeps ==
  ASSUME SynthesisInv, NEW t \in Asker, NEW id \in 1..Len(queries), NEW record \in AskerOf(Len(queries)),
         NEW found \in Seq(SNote), RecallReturns(t, id, record, found)
  PROVE SynthesisInv'
<1>1. /\ slot' = id /\ slotNotes' = found /\ Log(<<Event("recall", t, id, found)>>) /\ Becomes(t, record)
      /\ UNCHANGED <<debug, queries>>
  BY DEF RecallReturns
<1>2. events' \in Seq(EventOf(Len(queries))) BY <1>1, EventFields, Logged
<1>3. slot' \in 0..Len(queries)
  <2>1. Len(queries) \in Nat BY DEF SynthesisInv
  <2> QED BY <1>1, <2>1
<1>4. Len(queries') = Len(queries) BY <1>1
<1> QED BY <1>1, <1>2, <1>3, <1>4, AskerGoesOn

LEMMA RecalledKeeps ==
  ASSUME SynthesisInv, NEW t \in Asker, NEW found \in Prefixes(SearchHits[asker[t].question]), Recalled(t, found)
  PROVE SynthesisInv'
<1>1. asker[t].at = "recall" /\ RecallReturns(t, asker[t].id, Quiet, found) BY DEF Recalled
<1>2. asker[t].question \in Question /\ asker[t].id \in 1..Len(queries) /\ Len(queries) \in Nat BY <1>1, AskerFields
<1>3. found \in Seq(SNote) BY <1>2, FoundNotes
<1>4. Quiet \in AskerOf(Len(queries)) BY <1>2, QuietAsker
<1> QED BY <1>1, <1>2, <1>3, <1>4, RecallReturnsKeeps

LEMMA OwnRecallKeeps ==
  ASSUME SynthesisInv, NEW t \in Asker, NEW found \in Prefixes(SearchHits[asker[t].question]), OwnRecall(t, found)
  PROVE SynthesisInv'
<1> DEFINE c == asker[t]
           n == Len(queries)
           notes == Deduplicated(EntityHits[c.question] \o found)
           r == [c EXCEPT !.at = "retrieved", !.notes = notes]
<1>1. c.at = "own_recall" /\ RecallReturns(t, c.inner, r, found) BY DEF OwnRecall
<1>2. c.question \in Question /\ c.inner \in 1..n /\ n \in Nat /\ c \in AskerOf(n) BY <1>1, AskerFields
<1>3. found \in Seq(SNote) BY <1>2, FoundNotes
<1>4. notes \in Seq(SNote)
  <2>1. EntityHits[c.question] \in Seq(SNote) BY <1>2, SynthesisConstants
  <2>2. EntityHits[c.question] \o found \in Seq(SNote) BY <1>3, <2>1
  <2> QED BY <2>2, DeduplicatedNotes
<1> HIDE DEF c, n, notes
<1>5. r \in AskerOf(n) BY <1>1, <1>2, <1>4 DEF AskerOf
<1> HIDE DEF r
<1> QED BY <1>1, <1>2, <1>3, <1>5, RecallReturnsKeeps DEF n

LEMMA SynthesizeStartsKeeps ==
  ASSUME SynthesisInv, NEW t \in Asker, NEW q \in Question, SynthesizeStarts(t, q) PROVE SynthesisInv'
<1> DEFINE n == Len(queries)
           m == Len(queries')
           id == IF slot # 0 THEN slot ELSE n + 1
           r == [Quiet EXCEPT !.at = "started", !.question = q, !.id = id]
<1>1. (IF slot # 0 THEN UNCHANGED queries ELSE StartQuery(q)) /\ Becomes(t, r) /\ UNCHANGED <<debug, slot, slotNotes, events>>
  BY DEF SynthesizeStarts
<1>2. UNCHANGED queries \/ StartQuery(q) BY <1>1
<1>3. m \in Nat /\ n \in Nat /\ n <= m /\ (StartQuery(q) => m = n + 1) BY <1>2, QueriesGrow
<1>4. slotNotes' \in Seq(SNote) /\ events' \in Seq(EventOf(m)) /\ slot' \in 0..n
  <2>1. events \in Seq(EventOf(n)) /\ slotNotes \in Seq(SNote) /\ slot \in 0..n BY DEF SynthesisInv
  <2> HIDE DEF n, m
  <2> QED BY <1>1, <1>3, <2>1, MoreQueries
<1>5. id \in 0..m /\ id # 0 BY <1>1, <1>3, <1>4
<1>6. r \in AskerOf(m)
  <2>1. 0 \in 0..m /\ <<>> \in Seq(SNote) BY <1>3
  <2> HIDE DEF n, m, id
  <2> QED BY <1>5, <2>1 DEF AskerOf, Quiet
<1>7. slot' \in 0..m BY <1>3, <1>4
<1> HIDE DEF r
<1> QED BY <1>1, <1>2, <1>4, <1>6, <1>7, AskerGoesOn

\* A step that starts no query and logs nothing.
LEMMA AskerMoves ==
  ASSUME SynthesisInv, NEW t \in Asker, NEW record \in AskerOf(Len(queries)), Becomes(t, record),
         UNCHANGED <<debug, slotNotes, queries>>, slot' \in 0..Len(queries), events' \in Seq(EventOf(Len(queries)))
  PROVE SynthesisInv'
<1>1. slotNotes' \in Seq(SNote) /\ UNCHANGED debug BY DEF SynthesisInv
<1>2. Len(queries') = Len(queries) BY DEF SynthesisInv
<1> QED BY <1>1, <1>2, AskerGoesOn

LEMMA KeepIdKeeps == ASSUME SynthesisInv, NEW t \in Asker, KeepId(t) PROVE SynthesisInv'
<1> DEFINE c == asker[t]
           n == Len(queries)
           r == [c EXCEPT !.at = "kept"]
<1>1. /\ c.at = "started" /\ slot' = (IF slot = 0 THEN c.id ELSE slot) /\ Becomes(t, r)
      /\ UNCHANGED <<debug, slotNotes, queries, events>>
  BY DEF KeepId
<1>2. c \in AskerOf(n) /\ c.id \in 1..n /\ n \in Nat BY <1>1, AskerFields
<1>3. slot \in 0..n /\ events \in Seq(EventOf(n)) BY DEF SynthesisInv
<1>4. slot' \in 0..n
  <2>1. c.id \in 0..n BY <1>2
  <2> QED BY <1>1, <1>3, <2>1
<1>5. events' \in Seq(EventOf(n)) BY <1>1, <1>3
<1> HIDE DEF c
<1>6. r \in AskerOf(n)
  <2> HIDE DEF n
  <2> QED BY <1>1, <1>2 DEF AskerOf
<1> HIDE DEF r
<1> QED BY <1>1, <1>4, <1>5, <1>6, AskerMoves

LEMMA RetrieveByEntityKeeps == ASSUME SynthesisInv, NEW t \in Asker, RetrieveByEntity(t) PROVE SynthesisInv'
<1> DEFINE c == asker[t]
           n == Len(queries)
           m == Len(queries')
           hits == EntityHits[c.question]
           first == [c EXCEPT !.at = "retrieved", !.notes = Deduplicated(hits)]
           second == [c EXCEPT !.at = "own_recall", !.inner = n + 1]
<1>1. /\ c.at = "kept" /\ UNCHANGED <<debug, slotNotes, events>>
      /\ \/ Becomes(t, first) /\ UNCHANGED <<slot, queries>>
         \/ StartQuery(c.question) /\ slot' = n + 1 /\ Becomes(t, second)
  BY DEF RetrieveByEntity
<1>2. c \in AskerOf(n) /\ c.question \in Question /\ n \in Nat BY <1>1, AskerFields
<1>3. slot \in 0..n /\ events \in Seq(EventOf(n)) /\ slotNotes \in Seq(SNote) BY DEF SynthesisInv
<1>4. CASE Becomes(t, first) /\ UNCHANGED <<slot, queries>>
  <2>1. hits \in Seq(SNote) BY <1>2, SynthesisConstants
  <2>2. Deduplicated(hits) \in Seq(SNote) BY <2>1, DeduplicatedNotes
  <2>3. slot' \in 0..n /\ events' \in Seq(EventOf(n)) BY <1>1, <1>3, <1>4
  <2> HIDE DEF hits, c
  <2>4. first \in AskerOf(n)
    <3> HIDE DEF n
    <3> QED BY <1>1, <1>2, <2>2 DEF AskerOf
  <2> HIDE DEF first
  <2> QED BY <1>1, <1>4, <2>3, <2>4, AskerMoves
<1>5. CASE StartQuery(c.question) /\ slot' = n + 1 /\ Becomes(t, second)
  <2>1. m \in Nat /\ n <= m /\ m = n + 1 /\ (\E q \in Question : StartQuery(q)) BY <1>2, <1>5, QueriesGrow
  <2>2. slotNotes' \in Seq(SNote) /\ events' \in Seq(EventOf(m)) /\ c \in AskerOf(m)
    <3> HIDE DEF n, m, c
    <3> QED BY <1>1, <1>2, <1>3, <2>1, MoreQueries
  <2>3. slot' \in 0..m /\ n + 1 \in 0..m /\ n + 1 # 0 BY <1>2, <1>5, <2>1
  <2> HIDE DEF c
  <2>4. second \in AskerOf(m)
    <3> HIDE DEF n, m
    <3> QED BY <1>1, <1>2, <2>2, <2>3 DEF AskerOf
  <2> HIDE DEF second
  <2> QED BY <1>1, <1>5, <2>1, <2>2, <2>3, <2>4, AskerGoesOn
<1> QED BY <1>1, <1>4, <1>5

LEMMA GenerateAnswerKeeps == ASSUME SynthesisInv, NEW t \in Asker, GenerateAnswer(t) PROVE SynthesisInv'
<1> DEFINE c == asker[t]
           n == Len(queries)
           r == IF Range(c.notes) \cap Unsafe # {} THEN Quiet ELSE [c EXCEPT !.at = "generated"]
<1>1. c.at = "retrieved" /\ Becomes(t, r) /\ UNCHANGED <<debug, slot, slotNotes, queries, events>>
  BY DEF GenerateAnswer
<1>2. c \in AskerOf(n) /\ n \in Nat BY <1>1, AskerFields
<1>3. slot' \in 0..n /\ events' \in Seq(EventOf(n)) BY <1>1 DEF SynthesisInv
<1> HIDE DEF c
<1>4. [c EXCEPT !.at = "generated"] \in AskerOf(n)
  <2> HIDE DEF n
  <2> QED BY <1>1, <1>2 DEF AskerOf
<1>5. r \in AskerOf(n) BY <1>2, <1>4, QuietAsker
<1> HIDE DEF r
<1> QED BY <1>1, <1>3, <1>5, AskerMoves

LEMMA LogSynthesisKeeps == ASSUME SynthesisInv, NEW t \in Asker, LogSynthesis(t) PROVE SynthesisInv'
<1> DEFINE c == asker[t]
           n == Len(queries)
           r == IF debug THEN [c EXCEPT !.at = "rate"] ELSE Quiet
<1>1. /\ c.at = "generated" /\ Log(<<Event("synthesis", t, c.id, c.notes)>>) /\ Becomes(t, r)
      /\ UNCHANGED <<debug, slot, slotNotes, queries>>
  BY DEF LogSynthesis
<1>2. c \in AskerOf(n) /\ n \in Nat /\ c.id \in 1..n /\ c.notes \in Seq(SNote) BY <1>1, AskerFields
<1>3. events' \in Seq(EventOf(n)) BY <1>1, <1>2, EventFields, Logged
<1>4. slot' \in 0..n BY <1>1 DEF SynthesisInv
<1> HIDE DEF c
<1>5. [c EXCEPT !.at = "rate"] \in AskerOf(n)
  <2> HIDE DEF n
  <2> QED BY <1>1, <1>2 DEF AskerOf
<1>6. r \in AskerOf(n) BY <1>2, <1>5, QuietAsker
<1> HIDE DEF r
<1> QED BY <1>1, <1>3, <1>4, <1>6, AskerMoves

LEMMA RateKeeps == ASSUME SynthesisInv, NEW t \in Asker, Rate(t) PROVE SynthesisInv'
<1> DEFINE c == asker[t]
           n == Len(queries)
           new == [i \in DOMAIN slotNotes |-> Event("feedback", t, c.id, <<slotNotes[i]>>)]
<1>1. c.at = "rate" /\ Log(new) /\ Becomes(t, Quiet) /\ UNCHANGED <<debug, slot, slotNotes, queries>> BY DEF Rate
<1>2. n \in Nat /\ c.id \in 1..n BY <1>1, AskerFields
<1>3. slotNotes \in Seq(SNote) /\ Len(slotNotes) \in Nat /\ DOMAIN slotNotes = 1..Len(slotNotes)
      /\ \A i \in 1..Len(slotNotes) : slotNotes[i] \in SNote
  BY DEF SynthesisInv
<1>4. ASSUME NEW i \in 1..Len(slotNotes) PROVE Event("feedback", t, c.id, <<slotNotes[i]>>) \in EventOf(n)
  <2>1. <<slotNotes[i]>> \in Seq(SNote) BY <1>3
  <2> QED BY <1>2, <2>1, EventFields
<1>5. new \in [1..Len(slotNotes) -> EventOf(n)] BY <1>3, <1>4
<1> DEFINE B == EventOf(n)
<1>6. new \in [1..Len(slotNotes) -> B] BY <1>5
<1> HIDE DEF B, new
<1>7. new \in Seq(B) BY <1>3, <1>6
<1>8. events' \in Seq(EventOf(n)) BY <1>1, <1>7, Logged DEF B
<1>9. slot' \in 0..n BY <1>1 DEF SynthesisInv
<1>10. Quiet \in AskerOf(n) BY <1>2, QuietAsker
<1> QED BY <1>1, <1>8, <1>9, <1>10, AskerMoves

LEMMA SynthesisKeeps == SynthesisInv /\ [SynthesisNext]_synthesisVars => SynthesisInv'
<1> SUFFICES ASSUME SynthesisInv, [SynthesisNext]_synthesisVars PROVE SynthesisInv' OBVIOUS
<1>1. ASSUME SynthesisNext PROVE SynthesisInv'
  <2>1. PICK t \in Asker :
          \/ \E q \in Question : RecallStarts(t, q) \/ SynthesizeStarts(t, q)
          \/ \E found \in Prefixes(SearchHits[asker[t].question]) : Recalled(t, found) \/ OwnRecall(t, found)
          \/ KeepId(t) \/ RetrieveByEntity(t) \/ GenerateAnswer(t) \/ LogSynthesis(t) \/ Rate(t)
    BY <1>1 DEF SynthesisNext
  <2>2. CASE \E q \in Question : RecallStarts(t, q) \/ SynthesizeStarts(t, q)
    BY <2>2, RecallStartsKeeps, SynthesizeStartsKeeps
  <2>3. CASE \E found \in Prefixes(SearchHits[asker[t].question]) : Recalled(t, found) \/ OwnRecall(t, found)
    BY <2>3, RecalledKeeps, OwnRecallKeeps
  <2>4. CASE KeepId(t) \/ RetrieveByEntity(t) \/ GenerateAnswer(t) \/ LogSynthesis(t) \/ Rate(t)
    BY <2>4, KeepIdKeeps, RetrieveByEntityKeeps, GenerateAnswerKeeps, LogSynthesisKeeps, RateKeeps
  <2> QED BY <2>1, <2>2, <2>3, <2>4
<1>2. ASSUME UNCHANGED synthesisVars PROVE SynthesisInv' BY <1>2 DEF synthesisVars, SynthesisInv
<1> QED BY <1>1, <1>2

LEMMA SynthesisInvTypes == SynthesisInv => SynthesisTypeOK
<1> SUFFICES ASSUME SynthesisInv PROVE SynthesisTypeOK OBVIOUS
<1>1. /\ debug \in BOOLEAN /\ queries \in Seq(Question) /\ Len(queries) <= MaxQueries /\ Len(queries) \in Nat
      /\ slot \in 0..Len(queries) /\ slotNotes \in Seq(SNote) /\ events \in Seq(EventOf(Len(queries)))
  BY DEF SynthesisInv
<1>2. slot \in Query
  <2>1. MaxQueries \in Nat BY SynthesisConstants
  <2> QED BY <1>1, <2>1 DEF Query
<1>3. ASSUME NEW A, NEW s \in Seq(A) PROVE Range(s) \subseteq A BY <1>3 DEF Range
<1>4. Range(slotNotes) \subseteq SNote /\ Range(queries) \subseteq Question BY <1>1, <1>3
<1>5. ASSUME NEW t \in Asker
      PROVE /\ asker[t].at \in {"idle", "recall", "started", "kept", "own_recall", "retrieved", "generated", "rate"}
            /\ asker[t].id \in Query /\ asker[t].inner \in Query
            /\ Range(asker[t].notes) \subseteq SNote
  <2> DEFINE c == asker[t]
             m == Len(queries)
  <2>1. c \in AskerOf(m) /\ m \in Nat /\ m <= MaxQueries BY <1>1, AskerFields
  <2> HIDE DEF c, m
  <2>2. /\ c.at \in {"idle", "recall", "started", "kept", "own_recall", "retrieved", "generated", "rate"}
        /\ c.id \in 0..m /\ c.inner \in 0..m /\ c.notes \in Seq(SNote)
    BY <2>1 DEF AskerOf
  <2>3. Range(c.notes) \subseteq SNote BY <1>3, <2>2
  <2>4. c.id \in Query /\ c.inner \in Query
    <3>1. MaxQueries \in Nat BY SynthesisConstants
    <3> QED BY <2>1, <2>2, <3>1 DEF Query
  <2> QED BY <2>2, <2>3, <2>4 DEF c
<1>6. ASSUME NEW i \in DOMAIN events
      PROVE events[i].kind \in {"recall", "synthesis", "feedback"} /\ events[i].id \in DOMAIN queries
  <2>1. events[i] \in EventOf(Len(queries)) BY <1>1
  <2>2. DOMAIN queries = 1..Len(queries) BY <1>1
  <2> QED BY <2>1, <2>2 DEF EventOf
<1> QED BY <1>1, <1>2, <1>4, <1>5, <1>6 DEF SynthesisTypeOK

\* However many threads recall and synthesize at once, what they log is about a query that was
\* started, and the two attributes they share hold one, and notes.
THEOREM SynthesisTypeCorrect == SynthesisSpec => []SynthesisTypeOK
<1>1. SynthesisInit => SynthesisInv BY SynthesisStarts
<1>2. SynthesisInv /\ [SynthesisNext]_synthesisVars => SynthesisInv' BY SynthesisKeeps
<1>3. SynthesisInv => SynthesisTypeOK BY SynthesisInvTypes
<1> QED BY <1>1, <1>2, <1>3, PTL DEF SynthesisSpec

-----------------------------------------------------------------------------
(* Parts of lists *)

LEMMA ConcatAppend ==
  ASSUME NEW A, NEW s \in Seq(A), NEW t \in Seq(A), NEW x \in A
  PROVE s \o Append(t, x) = Append(s \o t, x)
<1> DEFINE u == s \o t
           v == Append(t, x)
           m == Len(s)
           n == Len(t)
<1>1. /\ u \in Seq(A) /\ Len(u) = m + n /\ m \in Nat /\ n \in Nat
      /\ \A i \in 1..m + n : u[i] = IF i <= m THEN s[i] ELSE t[i - m]
  BY ConcatProperties
<1>2. v \in Seq(A) /\ Len(v) = n + 1 /\ v[n + 1] = x /\ \A i \in 1..n : v[i] = t[i] BY AppendEntries
<1>3. /\ s \o v \in Seq(A) /\ Len(s \o v) = m + Len(v)
      /\ \A i \in 1..m + Len(v) : (s \o v)[i] = IF i <= m THEN s[i] ELSE v[i - m]
  BY <1>2, ConcatProperties
<1> HIDE DEF u, v
<1>4. Append(u, x) \in Seq(A) /\ Len(Append(u, x)) = Len(u) + 1 /\ Append(u, x)[Len(u) + 1] = x
      /\ \A i \in 1..Len(u) : Append(u, x)[i] = u[i]
  <2>1. u \in Seq(A) BY <1>1
  <2>2. DOMAIN u = 1..Len(u) BY <2>1
  <2>3. /\ Append(u, x) \in Seq(A) /\ Len(Append(u, x)) = Len(u) + 1 /\ Append(u, x)[Len(u) + 1] = x
        /\ \A i \in DOMAIN u : Append(u, x)[i] = u[i]
    BY <2>1, AppendEntries
  <2> QED BY <2>2, <2>3
<1> DEFINE p == s \o v
           q == Append(u, x)
<1> HIDE DEF m, n, p, q
<1>5. p \in Seq(A) /\ Len(p) = m + n + 1 /\ \A i \in 1..m + n + 1 : p[i] = IF i <= m THEN s[i] ELSE v[i - m]
  BY <1>1, <1>2, <1>3 DEF p
<1>6. q \in Seq(A) /\ Len(q) = m + n + 1 /\ q[m + n + 1] = x /\ \A i \in 1..m + n : q[i] = u[i] BY <1>1, <1>4 DEF q
<1>7. ASSUME NEW i \in 1..m + n + 1 PROVE p[i] = q[i]
  <2>1. CASE i = m + n + 1
    <3>1. ~(i <= m) /\ i - m = n + 1 BY <1>1, <2>1
    <3>2. p[i] = v[n + 1] BY <1>5, <3>1
    <3> QED BY <1>2, <1>6, <2>1, <3>2
  <2>2. CASE i \in 1..m + n
    <3>1. CASE i <= m BY <1>1, <1>5, <1>6, <2>2, <3>1
    <3>2. CASE ~(i <= m)
      <4>1. i - m \in 1..n BY <1>1, <2>2, <3>2
      <4> QED BY <1>1, <1>2, <1>5, <1>6, <2>2, <3>2, <4>1
    <3> QED BY <3>1, <3>2
  <2>3. i = m + n + 1 \/ i \in 1..m + n BY <1>1
  <2> QED BY <2>1, <2>2, <2>3
<1>8. p = q BY <1>5, <1>6, <1>7, SeqEqual
<1> QED BY <1>8 DEF p, q, u, v

\* A filter of two lists joined.
LEMMA OnlyConcat ==
  ASSUME NEW A, NEW s \in Seq(A), NEW t \in Seq(A), NEW S
  PROVE Only(s \o t, S) = Only(s, S) \o Only(t, S)
<1> DEFINE T == {q \in Seq(A) : Only(s \o q, S) = Only(s, S) \o Only(q, S)}
<1>1. <<>> \in T
  <2>1. s \o <<>> = s /\ Only(s, S) \in Seq(A) /\ <<>> \in Seq(A) BY OnlyAppend, OnlyPicks
  <2>2. Only(s, S) \o <<>> = Only(s, S) BY <2>1
  <2> QED BY <2>1, <2>2, OnlyEmpty
<1>2. ASSUME NEW q \in Seq(A), NEW x \in A, q \in T PROVE Append(q, x) \in T
  <2> DEFINE a == Only(s, S)
             b == Only(q, S)
             u == s \o q
  <2>1. a \in Seq(A) /\ b \in Seq(A) /\ u \in Seq(A) /\ Only(u, S) = a \o b BY <1>2, OnlyPicks
  <2>2. Only(Append(q, x), S) = IF x \in S THEN Append(b, x) ELSE b BY OnlyAppend
  <2>3. s \o Append(q, x) = Append(u, x) BY ConcatAppend
  <2>4. Only(Append(u, x), S) = IF x \in S THEN Append(Only(u, S), x) ELSE Only(u, S)
    <3> HIDE DEF a, b, T
    <3>1. ASSUME NEW w \in Seq(A) PROVE Only(Append(w, x), S) = IF x \in S THEN Append(Only(w, S), x) ELSE Only(w, S)
      BY OnlyAppend, SMTT(30)
    <3> HIDE DEF u
    <3> QED BY <2>1, <3>1
  <2> HIDE DEF a, b, u
  <2>5. a \o Append(b, x) = Append(a \o b, x) BY <2>1, ConcatAppend
  <2>6. Only(s \o Append(q, x), S) = a \o Only(Append(q, x), S) BY <2>1, <2>2, <2>3, <2>4, <2>5
  <2>7. Append(q, x) \in Seq(A) OBVIOUS
  <2> QED BY <2>6, <2>7 DEF a
<1> HIDE DEF T
<1>3. Seq(A) \subseteq T BY <1>1, <1>2, AllLists
<1> QED BY <1>3 DEF T

\* All of a list passes, or nothing of it.
LEMMA OnlyAllOrNone ==
  ASSUME NEW A, NEW s \in Seq(A), NEW S
  PROVE /\ (\A i \in 1..Len(s) : s[i] \in S) => Only(s, S) = s
        /\ (\A i \in 1..Len(s) : s[i] \notin S) => Only(s, S) = <<>>
<1> DEFINE T == {q \in Seq(A) : /\ (\A i \in 1..Len(q) : q[i] \in S) => Only(q, S) = q
                                /\ (\A i \in 1..Len(q) : q[i] \notin S) => Only(q, S) = <<>>}
<1>1. <<>> \in T
  <2>1. <<>> \in Seq(A) OBVIOUS
  <2> QED BY <2>1, OnlyEmpty
<1>2. ASSUME NEW q \in Seq(A), NEW x \in A, q \in T PROVE Append(q, x) \in T
  <2> DEFINE u == Append(q, x)
             n == Len(q)
  <2>1. u \in Seq(A) /\ Len(u) = n + 1 /\ u[n + 1] = x /\ n \in Nat /\ \A i \in 1..n : u[i] = q[i] BY AppendEntries
  <2>2. Only(u, S) = IF x \in S THEN Append(Only(q, S), x) ELSE Only(q, S) BY OnlyAppend
  <2>3. n + 1 \in 1..n + 1 /\ 1..n \subseteq 1..n + 1 BY <2>1
  <2>4. /\ (\A i \in 1..n : q[i] \in S) => Only(q, S) = q
        /\ (\A i \in 1..n : q[i] \notin S) => Only(q, S) = <<>>
    BY <1>2
  <2> HIDE DEF n, T
  <2>5. ASSUME \A i \in 1..n + 1 : u[i] \in S PROVE Only(u, S) = u
    <3>1. x \in S /\ \A i \in 1..n : q[i] \in S BY <2>1, <2>3, <2>5
    <3> QED BY <2>2, <2>4, <3>1
  <2> HIDE DEF u
  <2>6. ASSUME \A i \in 1..n + 1 : u[i] \notin S PROVE Only(u, S) = <<>>
    <3>1. x \notin S /\ \A i \in 1..n : q[i] \notin S BY <2>1, <2>3, <2>6
    <3> QED BY <2>2, <2>4, <3>1
  <2> QED BY <2>1, <2>5, <2>6 DEF T, u
<1> HIDE DEF T
<1>3. Seq(A) \subseteq T BY <1>1, <1>2, AllLists
<1> QED BY <1>3 DEF T

\* The part of a list after place a, up to place b.
Part(s, a, b) == SubSeq(s, a + 1, b)

LEMMA PartEntries ==
  ASSUME NEW A, NEW s \in Seq(A), NEW a \in Nat, NEW b \in Nat, a <= b, b <= Len(s)
  PROVE Part(s, a, b) \in Seq(A) /\ Len(Part(s, a, b)) = b - a /\ \A i \in 1..b - a : Part(s, a, b)[i] = s[a + i]
<1>1. Len(s) \in Nat /\ \A i \in 1..Len(s) : s[i] \in A OBVIOUS
<1>2. a + 1 \in Int /\ b \in Int /\ \A i \in a + 1..b : s[i] \in A BY <1>1
<1> DEFINE p == SubSeq(s, a + 1, b)
<1>3. /\ p \in Seq(A) /\ Len(p) = IF a + 1 <= b THEN b - (a + 1) + 1 ELSE 0
      /\ \A i \in 1..b - (a + 1) + 1 : p[i] = s[a + 1 + i - 1]
  BY <1>2, SubSeqProperties
<1> HIDE DEF p
<1>4. b - (a + 1) + 1 = b - a /\ (a + 1 <= b \/ b - a = 0) /\ \A i \in 1..b - a : a + 1 + i - 1 = a + i OBVIOUS
<1>5. p \in Seq(A) /\ Len(p) = b - a /\ \A i \in 1..b - a : p[i] = s[a + i] BY <1>3, <1>4
<1> QED BY <1>5 DEF p, Part

\* Parts next to each other.
LEMMA PartsJoin ==
  ASSUME NEW A, NEW s \in Seq(A), NEW a \in Nat, NEW b \in Nat, NEW c \in Nat, a <= b, b <= c, c <= Len(s)
  PROVE Part(s, a, c) = Part(s, a, b) \o Part(s, b, c)
<1> DEFINE p == Part(s, a, b)
           q == Part(s, b, c)
           r == Part(s, a, c)
<1>1. p \in Seq(A) /\ Len(p) = b - a /\ \A i \in 1..b - a : p[i] = s[a + i]
  <2>1. b <= Len(s) OBVIOUS
  <2> QED BY <2>1, PartEntries
<1>2. q \in Seq(A) /\ Len(q) = c - b /\ \A i \in 1..c - b : q[i] = s[b + i] BY PartEntries
<1>3. r \in Seq(A) /\ Len(r) = c - a /\ \A i \in 1..c - a : r[i] = s[a + i]
  <2>1. a <= c OBVIOUS
  <2> QED BY <2>1, PartEntries
<1> HIDE DEF p, q, r
<1>4. /\ p \o q \in Seq(A) /\ Len(p \o q) = Len(p) + Len(q)
      /\ \A i \in 1..Len(p) + Len(q) : (p \o q)[i] = IF i <= Len(p) THEN p[i] ELSE q[i - Len(p)]
  BY <1>1, <1>2, ConcatProperties
<1> DEFINE u == p \o q
<1> HIDE DEF u
<1>5. u \in Seq(A) /\ Len(u) = c - a /\ \A i \in 1..c - a : u[i] = IF i <= b - a THEN p[i] ELSE q[i - (b - a)]
  <2>1. b - a + (c - b) = c - a OBVIOUS
  <2> QED BY <1>1, <1>2, <1>4, <2>1 DEF u
<1>6. ASSUME NEW i \in 1..c - a PROVE r[i] = u[i]
  <2>1. CASE i <= b - a
    <3>1. i \in 1..b - a BY <2>1
    <3> QED BY <1>1, <1>3, <1>5, <2>1, <3>1
  <2>2. CASE ~(i <= b - a)
    <3>1. i - (b - a) \in 1..c - b /\ b + (i - (b - a)) = a + i BY <2>2
    <3>2. q[i - (b - a)] = s[a + i] BY <1>2, <3>1
    <3> QED BY <1>3, <1>5, <2>2, <3>2
  <2> QED BY <2>1, <2>2
<1>7. r = u BY <1>3, <1>5, <1>6, SeqEqual
<1> QED BY <1>7 DEF r, u, p, q

\* Parts of two lists joined.
LEMMA PartsOfConcat ==
  ASSUME NEW A, NEW s \in Seq(A), NEW t \in Seq(A), NEW a \in Nat, a <= Len(s)
  PROVE /\ Part(s \o t, 0, a) = Part(s, 0, a)
        /\ Part(s \o t, a, Len(s \o t)) = Part(s, a, Len(s)) \o t
<1>a. /\ s \o t \in Seq(A) /\ Len(s \o t) = Len(s) + Len(t)
      /\ \A i \in 1..Len(s) + Len(t) : (s \o t)[i] = IF i <= Len(s) THEN s[i] ELSE t[i - Len(s)]
  BY ConcatProperties
<1>b. Len(s) \in Nat /\ Len(t) \in Nat OBVIOUS
<1>0. ASSUME NEW w \in Seq(A), NEW b \in Nat, NEW c \in Nat, b <= c, c <= Len(w)
      PROVE  Part(w, b, c) \in Seq(A) /\ Len(Part(w, b, c)) = c - b
             /\ \A i \in 1..c - b : Part(w, b, c)[i] = w[b + i]
  BY <1>0, PartEntries
<1> DEFINE u == s \o t
           m == Len(s)
           n == Len(t)
<1>1. /\ u \in Seq(A) /\ Len(u) = m + n /\ m \in Nat /\ n \in Nat
      /\ \A i \in 1..m + n : u[i] = IF i <= m THEN s[i] ELSE t[i - m]
  BY <1>a, <1>b, Zenon
<1> HIDE DEF u
<1>2. Part(u, 0, a) = Part(s, 0, a)
  <2> DEFINE p == Part(u, 0, a)
             q == Part(s, 0, a)
  <2>1. 0 \in Nat /\ 0 <= a /\ a <= Len(u) /\ a - 0 = a BY <1>1
  <2>2. p \in Seq(A) /\ Len(p) = a - 0 /\ \A i \in 1..a - 0 : p[i] = u[0 + i] BY <1>0, <1>1, <2>1
  <2>3. q \in Seq(A) /\ Len(q) = a - 0 /\ \A i \in 1..a - 0 : q[i] = s[0 + i] BY <2>1, PartEntries
  <2> HIDE DEF p, q
  <2>4. \A i \in 1..a : 0 + i = i /\ i \in 1..m + n /\ i <= m BY <1>1
  <2>5. \A i \in 1..a : p[i] = q[i] BY <1>1, <2>1, <2>2, <2>3, <2>4
  <2>6. p = q BY <2>1, <2>2, <2>3, <2>5, SeqEqual
  <2> QED BY <2>6 DEF p, q
<1>3. Part(u, a, Len(u)) = Part(s, a, m) \o t
  <2> DEFINE k == m + n
             p == Part(u, a, k)
             q == Part(s, a, m)
             r == q \o t
  <2>1. a <= m /\ k \in Nat /\ a <= k /\ m <= Len(s) /\ Len(u) = k /\ k <= Len(u) BY <1>1 DEF m
  <2>2. m - a + n = k - a BY <1>1
  <2>3. \A i \in 1..k - a : a + i \in 1..m + n /\ (i <= m - a => i \in 1..m - a /\ a + i <= m)
                            /\ (~(i <= m - a) => ~(a + i <= m) /\ a + i - m = i - (m - a))
    BY <1>1
  <2> HIDE DEF k
  <2>4. p \in Seq(A) /\ Len(p) = k - a /\ \A i \in 1..k - a : p[i] = u[a + i]
    <3>1. u \in Seq(A) BY <1>1
    <3> HIDE DEF m, n
    <3> QED BY <1>0, <2>1, <3>1
  <2>5. q \in Seq(A) /\ Len(q) = m - a /\ \A i \in 1..m - a : q[i] = s[a + i]
    <3>1. m \in Nat BY <1>1
    <3> HIDE DEF m, n
    <3> QED BY <1>0, <2>1, <3>1
  <2> HIDE DEF p, q
  <2>6. /\ r \in Seq(A) /\ Len(r) = Len(q) + Len(t)
        /\ \A i \in 1..Len(q) + Len(t) : r[i] = IF i <= Len(q) THEN q[i] ELSE t[i - Len(q)]
    BY <2>5, ConcatProperties
  <2> HIDE DEF r
  <2>7. r \in Seq(A) /\ Len(r) = k - a /\ \A i \in 1..k - a : r[i] = IF i <= m - a THEN q[i] ELSE t[i - (m - a)]
    BY <2>2, <2>5, <2>6 DEF n
  <2> HIDE DEF m, n
  <2>8. ASSUME NEW i \in 1..k - a PROVE p[i] = r[i]
    <3>1. p[i] = u[a + i] BY <2>4
    <3>2. CASE i <= m - a
      <4>1. u[a + i] = s[a + i] BY <1>1, <2>3, <3>2
      <4>2. r[i] = q[i] /\ q[i] = s[a + i] BY <2>3, <2>5, <2>7, <3>2
      <4> QED BY <3>1, <4>1, <4>2
    <3>3. CASE ~(i <= m - a)
      <4>1. u[a + i] = t[a + i - m] BY <1>1, <2>3, <3>3
      <4>2. r[i] = t[i - (m - a)] BY <2>7, <3>3
      <4>3. a + i - m = i - (m - a) BY <2>3, <3>3
      <4> QED BY <3>1, <4>1, <4>2, <4>3
    <3> QED BY <3>2, <3>3
  <2>9. p = r BY <2>4, <2>7, <2>8, SeqEqual
  <2> QED BY <2>1, <2>9 DEF p, q, r
<1> QED BY <1>2, <1>3 DEF u, m

\* The same part of two lists that agree so far.
AgreeTo(s, t, b) == \A i \in 1..b : s[i] = t[i]

LEMMA PartsAgree ==
  ASSUME NEW A, NEW s \in Seq(A), NEW t \in Seq(A), NEW a \in Nat, NEW b \in Nat, a <= b, b <= Len(s), b <= Len(t),
         AgreeTo(s, t, b)
  PROVE Part(s, a, b) = Part(t, a, b)
<1> DEFINE u == Part(s, a, b)
           v == Part(t, a, b)
<1>1. u \in Seq(A) /\ Len(u) = b - a /\ \A i \in 1..b - a : u[i] = s[a + i] BY PartEntries
<1>2. v \in Seq(A) /\ Len(v) = b - a /\ \A i \in 1..b - a : v[i] = t[a + i] BY PartEntries
<1> HIDE DEF u, v
<1>3. \A i \in 1..b - a : a + i \in 1..b OBVIOUS
<1>4. \A i \in 1..b - a : u[i] = v[i] BY <1>1, <1>2, <1>3 DEF AgreeTo
<1>5. u = v BY <1>1, <1>2, <1>4, SeqEqual
<1> QED BY <1>5 DEF u, v

\* The first part of a list.
LEMMA FirstPart ==
  ASSUME NEW A, NEW s \in Seq(A), NEW b \in Nat, b <= Len(s)
  PROVE Part(s, 0, b) \in Seq(A) /\ Len(Part(s, 0, b)) = b /\ \A i \in 1..b : Part(s, 0, b)[i] = s[i]
<1> DEFINE u == Part(s, 0, b)
<1>1. 0 \in Nat /\ 0 <= b /\ b - 0 = b /\ \A i \in 1..b : 0 + i = i OBVIOUS
<1>2. u \in Seq(A) /\ Len(u) = b - 0 /\ \A i \in 1..b - 0 : u[i] = s[0 + i]
  <2>1. 0 \in Nat /\ 0 <= b OBVIOUS
  <2> QED BY <2>1, PartEntries
<1> HIDE DEF u
<1>3. u \in Seq(A) /\ Len(u) = b /\ \A i \in 1..b : u[i] = s[i] BY <1>1, <1>2
<1> QED BY <1>3 DEF u

-----------------------------------------------------------------------------
(* The redaction of a text *)

LEMMA SpanFields ==
  ASSUME NEW d \in Span
  PROVE /\ d.start \in Nat /\ d.end \in Nat /\ d.score \in Int /\ d.start < d.end /\ d.end <= TextLength
        /\ TextLength \in Nat
<1>1. TextLength \in Nat /\ SpanScores \subseteq Int BY GateConstants
<1>2. d.start \in 0..TextLength - 1 /\ d.end \in 1..TextLength /\ d.score \in SpanScores /\ d.start < d.end
  BY DEF Span
<1>3. d.score \in Int BY <1>1, <1>2
<1>4. d.start \in Nat /\ d.end \in Nat /\ d.end <= TextLength BY <1>1, <1>2
<1> QED BY <1>1, <1>2, <1>3, <1>4

Apart(c) == \A d, e \in c : d = e \/ ~Overlap(d, e)

\* Two detections that do not overlap: one ends before the other starts.
LEMMA ApartOrdered ==
  ASSUME NEW c \in SUBSET Span, Apart(c), NEW d \in c, NEW e \in c, d # e, d.start >= e.start
  PROVE e.end <= d.start
<1>1. d.start \in Nat /\ d.end \in Nat /\ e.start \in Nat /\ e.end \in Nat /\ d.start < d.end /\ e.start < e.end
  BY SpanFields
<1>2. ~(d.start < e.end /\ d.end > e.start) BY DEF Apart, Overlap
<1> QED BY <1>1, <1>2

\* A text of which the detections c are to go: what becomes of each position.
IsCovered(c, p) == \E d \in c : Covers(d, p)
Marks(c) == [p \in 1..TextLength |-> IF ~IsCovered(c, p) THEN p
                                     ELSE IF \E d \in c : d.start = p - 1 THEN Placeholder ELSE -1]
Left(c, a, b) == Only(Part(Marks(c), a, b), 0..TextLength)

LEMMA MarksAre ==
  ASSUME NEW c
  PROVE /\ TextLength \in Nat /\ Marks(c) \in Seq(Int) /\ Len(Marks(c)) = TextLength
        /\ Plain \in Seq(0..TextLength) /\ Plain \in Seq(Int) /\ Len(Plain) = TextLength
        /\ \A p \in 1..TextLength : Plain[p] = p
<1>1. TextLength \in Nat BY GateConstants
<1>2. Marks(c) \in [1..TextLength -> Int] BY <1>1 DEF Marks, Placeholder
<1>3. Plain \in [1..TextLength -> 0..TextLength] /\ Plain \in [1..TextLength -> Int] BY <1>1 DEF Plain
<1> QED BY <1>1, <1>2, <1>3 DEF Plain

\* Between two detections the text is left as it is.
LEMMA BetweenLeft ==
  ASSUME NEW c \in SUBSET Span, NEW a \in Nat, NEW b \in Nat, a <= b, b <= TextLength,
         \A p \in a + 1..b : ~IsCovered(c, p)
  PROVE Left(c, a, b) = Part(Plain, a, b)
<1> DEFINE u == Part(Marks(c), a, b)
           v == Part(Plain, a, b)
           V == 0..TextLength
<1>1. u \in Seq(Int) /\ Len(u) = b - a /\ \A i \in 1..b - a : u[i] = Marks(c)[a + i]
  <2>1. b <= Len(Marks(c)) /\ Marks(c) \in Seq(Int) BY MarksAre
  <2> QED BY <2>1, PartEntries
<1>2. v \in Seq(Int) /\ Len(v) = b - a /\ \A i \in 1..b - a : v[i] = Plain[a + i]
  <2>1. b <= Len(Plain) /\ Plain \in Seq(Int) BY MarksAre
  <2> QED BY <2>1, PartEntries
<1>3. TextLength \in Nat BY MarksAre
<1>4. \A i \in 1..b - a : a + i \in a + 1..b /\ a + i \in 1..TextLength BY <1>3
<1> HIDE DEF u, v
<1>5. ASSUME NEW i \in 1..b - a PROVE u[i] = v[i] /\ u[i] \in V
  <2>1. Marks(c)[a + i] = a + i BY <1>4 DEF Marks
  <2>2. Plain[a + i] = a + i BY <1>4, MarksAre
  <2>3. a + i \in V BY <1>3, <1>4
  <2> QED BY <1>1, <1>2, <2>1, <2>2, <2>3
<1>6. u = v BY <1>1, <1>2, <1>5, SeqEqual
<1>7. \A i \in 1..Len(u) : u[i] \in V BY <1>1, <1>5
<1>8. Only(u, V) = u BY <1>1, <1>7, OnlyAllOrNone
<1> QED BY <1>6, <1>8 DEF Left, u, v

\* What is left of two parts next to each other.
LEMMA LeftJoin ==
  ASSUME NEW c, NEW a \in Nat, NEW b \in Nat, NEW e \in Nat, a <= b, b <= e, e <= TextLength
  PROVE /\ Left(c, a, e) = Left(c, a, b) \o Left(c, b, e)
        /\ Left(c, a, b) \in Seq(Int) /\ Left(c, b, e) \in Seq(Int)
<1> DEFINE s == Part(Marks(c), a, b)
           t == Part(Marks(c), b, e)
<1>1. Marks(c) \in Seq(Int) /\ e <= Len(Marks(c)) /\ b <= Len(Marks(c)) BY MarksAre
<1>2. s \in Seq(Int) /\ t \in Seq(Int) BY <1>1, PartEntries
<1>3. Part(Marks(c), a, e) = s \o t BY <1>1, PartsJoin
<1> HIDE DEF s, t
<1> DEFINE V == 0..TextLength
<1> HIDE DEF V
<1>4. Only(s \o t, V) = Only(s, V) \o Only(t, V) BY <1>2, OnlyConcat
<1>5. Only(s, V) \in Seq(Int) /\ Only(t, V) \in Seq(Int) BY <1>2, OnlyPicks
<1> QED BY <1>3, <1>4, <1>5 DEF Left, s, t, V

\* Of a detection itself the placeholder is left.
LEMMA SpanLeft ==
  ASSUME NEW c \in SUBSET Span, Apart(c), NEW d \in c
  PROVE Left(c, d.start, d.end) = <<Placeholder>>
<1> DEFINE a == d.start
           e == d.end
           m == a + 1
           s == Part(Marks(c), a, m)
           t == Part(Marks(c), m, e)
           V == 0..TextLength
<1>1. a \in Nat /\ e \in Nat /\ a < e /\ e <= TextLength /\ TextLength \in Nat BY SpanFields
<1>2. m \in Nat /\ a <= m /\ m <= e /\ m <= TextLength /\ m - a = 1 /\ m - 1 = a BY <1>1
<1>3. Marks(c) \in Seq(Int) /\ Len(Marks(c)) = TextLength BY MarksAre
<1>4. \A p \in a + 1..e : IsCovered(c, p) BY <1>1 DEF IsCovered, Covers
<1>5. ASSUME NEW f \in c, f.start \in m..e - 1 PROVE FALSE
  <2>1. f.start \in Nat /\ f.end \in Nat /\ f.start < f.end BY SpanFields
  <2>2. f # d /\ f.start >= d.start BY <1>1, <1>5, <2>1
  <2>3. d.end <= f.start BY <2>2, ApartOrdered
  <2> QED BY <1>1, <1>5, <2>1, <2>3
<1> HIDE DEF m
<1>6. s \in Seq(Int) /\ Len(s) = m - a /\ \A i \in 1..m - a : s[i] = Marks(c)[a + i]
  <2>1. a \in Nat /\ m \in Nat /\ a <= m /\ m <= Len(Marks(c)) /\ Marks(c) \in Seq(Int) BY <1>1, <1>2, <1>3
  <2> HIDE DEF a, e
  <2> QED BY <2>1, PartEntries
<1>7. t \in Seq(Int) /\ Len(t) = e - m /\ \A i \in 1..e - m : t[i] = Marks(c)[m + i]
  <2>1. e \in Nat /\ m \in Nat /\ m <= e /\ e <= Len(Marks(c)) /\ Marks(c) \in Seq(Int) BY <1>1, <1>2, <1>3
  <2> HIDE DEF a, e
  <2> QED BY <2>1, PartEntries
<1> HIDE DEF s, t
<1>8. Only(s, V) = <<Placeholder>>
  <2>1. m \in 1..TextLength /\ m \in a + 1..e BY <1>1, <1>2 DEF m
  <2>2. Marks(c)[m] = Placeholder BY <1>2, <1>4, <2>1 DEF Marks
  <2>3. Len(s) = 1 /\ s[1] = Placeholder
    <3>1. 1 \in 1..m - a /\ a + 1 = m BY <1>2 DEF m
    <3> QED BY <1>2, <1>6, <2>2, <3>1
  <2>4. \A i \in 1..Len(s) : s[i] \in V
    <3>1. Placeholder \in V BY <1>1 DEF Placeholder
    <3>2. \A i \in 1..1 : i = 1 OBVIOUS
    <3> HIDE DEF V
    <3> QED BY <2>3, <3>1, <3>2
  <2>5. Only(s, V) = s BY <1>6, <2>4, OnlyAllOrNone
  <2>6. s = <<Placeholder>>
    <3>1. Placeholder \in Int BY DEF Placeholder
    <3>2. <<Placeholder>> \in Seq(Int) /\ Len(<<Placeholder>>) = 1 BY <3>1
    <3>3. \A i \in 1..1 : s[i] = <<Placeholder>>[i] BY <2>3
    <3> QED BY <1>6, <2>3, <3>2, <3>3, SeqEqual
  <2> QED BY <2>5, <2>6
<1>9. Only(t, V) = <<>>
  <2>1. ASSUME NEW i \in 1..Len(t), NEW p \in Int, p = m + i PROVE t[i] \notin V
    <3>1. i \in 1..e - m /\ p \in a + 1..e /\ p \in 1..TextLength /\ p - 1 \in m..e - 1 BY <1>1, <1>2, <1>7, <2>1, SMTT(30)
    <3>2. ~\E f \in c : f.start = p - 1 BY <1>5, <3>1
    <3>3. IsCovered(c, p) BY <1>4, <3>1
    <3>4. Marks(c)[p] = -1 BY <3>1, <3>2, <3>3 DEF Marks
    <3>5. t[i] = -1 BY <1>7, <2>1, <3>1, <3>4
    <3> QED BY <1>1, <3>5
  <2>2. \A i \in 1..Len(t) : m + i \in Int BY <1>2, <1>7
  <2>3. \A i \in 1..Len(t) : t[i] \notin V BY <2>1, <2>2
  <2> QED BY <1>7, <2>3, OnlyAllOrNone
<1>10. Left(c, a, e) = Left(c, a, m) \o Left(c, m, e)
  <2> HIDE DEF a, e
  <2> QED BY <1>1, <1>2, LeftJoin
<1>11. <<Placeholder>> \o <<>> = <<Placeholder>>
  <2>1. Placeholder \in Int BY DEF Placeholder
  <2> QED BY <2>1
<1> QED BY <1>8, <1>9, <1>10, <1>11 DEF Left, s, t

\* What _redact has when it has dealt with the detections that start at b or later.
RedactedFrom(c, b) == Part(Plain, 0, b) \o Left(c, b, TextLength)

\* The next detection: it ends before b, and none of the text between them is covered.
LEMMA SpliceNext ==
  ASSUME NEW c \in SUBSET Span, Apart(c), NEW d \in c, NEW b \in Nat, d.end <= b, b <= TextLength,
         \A p \in d.end + 1..b : ~IsCovered(c, p)
  PROVE Splice(RedactedFrom(c, b), d) = RedactedFrom(c, d.start)
<1> DEFINE a == d.start
           e == d.end
           X == Part(Plain, 0, b)
           R == Left(c, b, TextLength)
           text_ == X \o R
           gap == Part(Plain, e, b)
<1>1. a \in Nat /\ e \in Nat /\ a < e /\ a <= b /\ e <= b /\ TextLength \in Nat /\ a <= e /\ e <= TextLength
  <2>1. d.start \in Nat /\ d.end \in Nat /\ d.start < d.end BY SpanFields
  <2>2. TextLength \in Nat BY GateConstants
  <2> QED BY <2>1, <2>2
<1>2. /\ X \in Seq(Int) /\ Len(X) = b /\ (\A i \in 1..b : X[i] = Plain[i])
      /\ Plain \in Seq(Int) /\ Len(Plain) = TextLength
  <2>1. Plain \in Seq(Int) /\ Len(Plain) = TextLength /\ b <= Len(Plain) BY MarksAre
  <2> QED BY <2>1, FirstPart
<1>3. R \in Seq(Int)
  <2>1. b <= b /\ b <= TextLength /\ TextLength <= TextLength /\ TextLength \in Nat BY <1>1
  <2> QED BY <2>1, LeftJoin
<1> HIDE DEF X, R
<1>4. text_ \in Seq(Int) /\ Len(text_) \in Nat /\ a <= Len(text_) /\ Len(text_) = b + Len(R) /\ Len(R) \in Nat
  <2>1. text_ \in Seq(Int) /\ Len(text_) = Len(X) + Len(R) BY <1>2, <1>3, ConcatProperties
  <2>2. Len(R) \in Nat BY <1>3
  <2> HIDE DEF text_, a
  <2> QED BY <1>1, <1>2, <2>1, <2>2
<1> HIDE DEF a, e
<1>5. Part(text_, 0, a) = Part(X, 0, a) /\ Part(text_, e, Len(text_)) = Part(X, e, b) \o R
  <2>1. a <= Len(X) /\ e <= Len(X) BY <1>1, <1>2
  <2>2. Part(X \o R, 0, a) = Part(X, 0, a) BY <1>1, <1>2, <1>3, <2>1, PartsOfConcat
  <2>3. Part(X \o R, e, Len(X \o R)) = Part(X, e, Len(X)) \o R BY <1>1, <1>2, <1>3, <2>1, PartsOfConcat
  <2> QED BY <1>2, <2>2, <2>3
<1>6. Part(X, 0, a) = Part(Plain, 0, a)
  <2>1. 0 \in Nat /\ 0 <= a /\ a <= Len(X) /\ a <= Len(Plain) /\ X \in Seq(Int) /\ Plain \in Seq(Int) BY <1>1, <1>2
  <2>2. AgreeTo(X, Plain, a) BY <1>1, <1>2 DEF AgreeTo
  <2> QED BY <1>1, <2>1, <2>2, PartsAgree
<1>7. Part(X, e, b) = gap
  <2>1. b <= Len(X) /\ b <= Len(Plain) /\ X \in Seq(Int) /\ Plain \in Seq(Int) BY <1>1, <1>2
  <2>2. AgreeTo(X, Plain, b) BY <1>2 DEF AgreeTo
  <2> QED BY <1>1, <2>1, <2>2, PartsAgree
<1>8. Splice(text_, d) = Part(Plain, 0, a) \o <<Placeholder>> \o (gap \o R)
  <2>1. Take(text_, a) = Part(text_, 0, a)
    <3>1. (IF a < Len(text_) THEN a ELSE Len(text_)) = a BY <1>1, <1>4
    <3>2. Part(text_, 0, a) = SubSeq(text_, 1, a) BY DEF Part
    <3>3. Take(text_, a) = SubSeq(text_, 1, IF a < Len(text_) THEN a ELSE Len(text_)) BY DEF Take
    <3> HIDE DEF text_
    <3> QED BY <3>1, <3>2, <3>3
  <2>2. SubSeq(text_, e + 1, Len(text_)) = Part(text_, e, Len(text_)) BY DEF Part
  <2>3. Splice(text_, d) = Take(text_, a) \o <<Placeholder>> \o SubSeq(text_, e + 1, Len(text_)) BY DEF Splice, a, e
  <2> QED BY <1>5, <1>6, <1>7, <2>1, <2>2, <2>3
<1>9. Left(c, a, TextLength) = <<Placeholder>> \o (gap \o R)
  <2>1. Left(c, a, TextLength) = Left(c, a, e) \o Left(c, e, TextLength)
    <3>1. TextLength <= TextLength BY <1>1
    <3> QED BY <1>1, <3>1, LeftJoin
  <2>2. Left(c, e, TextLength) = Left(c, e, b) \o R
    <3>1. TextLength <= TextLength BY <1>1
    <3> QED BY <1>1, <3>1, LeftJoin DEF R
  <2>3. Left(c, e, b) = gap
    <3>1. \A p \in e + 1..b : ~IsCovered(c, p) BY DEF e
    <3> QED BY <1>1, <3>1, BetweenLeft
  <2>4. Left(c, a, e) = <<Placeholder>> BY SpanLeft DEF a, e
  <2> QED BY <2>1, <2>2, <2>3, <2>4
<1>10. Part(Plain, 0, a) \in Seq(Int) /\ <<Placeholder>> \in Seq(Int) /\ gap \o R \in Seq(Int)
  <2>1. 0 \in Nat /\ 0 <= a /\ a <= Len(Plain) /\ b <= Len(Plain) BY <1>1, <1>2
  <2>2. Part(Plain, 0, a) \in Seq(Int) BY <1>1, <1>2, <2>1, PartEntries
  <2>3. gap \in Seq(Int) BY <1>1, <1>2, <2>1, PartEntries
  <2>4. Placeholder \in Int BY DEF Placeholder
  <2> HIDE DEF gap
  <2> QED BY <1>3, <2>2, <2>3, <2>4
<1> HIDE DEF gap
<1> DEFINE p == Part(Plain, 0, a)
           h == <<Placeholder>>
           r == gap \o R
<1>11. p \o h \o r = p \o (h \o r)
  <2> HIDE DEF p, h, r
  <2>1. p \in Seq(Int) /\ h \in Seq(Int) /\ r \in Seq(Int) BY <1>10 DEF p, h, r
  <2> QED BY <2>1, ConcatAssociative
<1>12. RedactedFrom(c, b) = text_ BY DEF RedactedFrom, X, R
<1>13. RedactedFrom(c, d.start) = p \o Left(c, a, TextLength) BY DEF RedactedFrom, a
<1> QED BY <1>8, <1>9, <1>11, <1>12, <1>13

LEMMA LastFirstOrder ==
  ASSUME NEW c \in SUBSET Span, IsFiniteSet(c)
  PROVE /\ Cardinality(c) \in Nat /\ LastFirst(c) \in [1..Cardinality(c) -> c] /\ IsInjective(LastFirst(c))
        /\ \A i, j \in 1..Cardinality(c) : i < j => LastFirst(c)[i].start >= LastFirst(c)[j].start
        /\ \A d \in c : \E i \in 1..Cardinality(c) : LastFirst(c)[i] = d
<1> DEFINE R == {p \in c \X c : p[1].start >= p[2].start}
<1>1. LastFirst(c) = Arranged(c, R) BY DEF LastFirst
<1>2. \A d \in c : d.start \in Int BY SpanFields
<1>3. \A x, y \in c : <<x, y>> \in R <=> x.start >= y.start OBVIOUS
<1> HIDE DEF R
<1>4. Sorts(R, c)
  <2>1. \A x, y \in c : x = y \/ <<x, y>> \in R \/ <<y, x>> \in R
    <3>1. \A x, y \in c : x.start >= y.start \/ y.start >= x.start BY <1>2
    <3> QED BY <1>3, <3>1
  <2>2. \A x, y, z \in c : <<x, y>> \in R /\ <<y, z>> \in R => <<x, z>> \in R
    <3>1. \A x, y, z \in c : x.start >= y.start /\ y.start >= z.start => x.start >= z.start BY <1>2
    <3> QED BY <1>3, <3>1
  <2> QED BY <2>1, <2>2 DEF Sorts
<1> DEFINE q == Arranged(c, R)
           n == Cardinality(c)
<1>5. n \in Nat /\ InOrder(q, n, c, R) /\ \A x \in c : \E i \in 1..n : q[i] = x BY <1>4, ArrangedLists
<1> HIDE DEF q, n
<1>6. q \in [1..n -> c] /\ IsInjective(q) /\ \A i, j \in 1..n : i < j => <<q[i], q[j]>> \in R
  BY <1>5 DEF InOrder
<1>7. \A i, j \in 1..n : i < j => q[i].start >= q[j].start BY <1>3, <1>6
<1> QED BY <1>1, <1>5, <1>6, <1>7 DEF q, n

SpliceStep(q, n) == [p \in (1..n) \X Seq(Int) |-> Splice(p[2], q[p[1]])]

\* _redact, detection by detection.
LEMMA RedactRuns ==
  ASSUME NEW c \in SUBSET Span, IsFiniteSet(c)
  PROVE Reaches(Redact(Plain, c), Cardinality(c), Seq(Int), Plain, SpliceStep(LastFirst(c), Cardinality(c)))
<1> DEFINE A == Seq(Int)
           base == Plain
           list == LastFirst(c)
           n == Cardinality(c)
           Op(acc, x) == Splice(acc, x)
           step == SpliceStep(list, n)
           Iter(it) == it = [Q \in SUBSET DOMAIN list |->
                               IF Q = {} THEN base ELSE Op(it[Q \ {Max(Q)}], list[Max(Q)])]
           cc == CHOOSE it : Iter(it)
<1>1. n \in Nat /\ DOMAIN list = 1..n /\ base \in A /\ \A i \in 1..n : list[i] \in Span
  <2>1. n \in Nat /\ list \in [1..n -> c] BY LastFirstOrder
  <2>2. Plain \in Seq(Int) BY MarksAre
  <2> HIDE DEF list, n
  <2> QED BY <2>1, <2>2
<1>2. Redact(Plain, c) = cc[1..n]
  <2> DEFINE all == FoldLeft(Splice, base, list)
  <2>1. Redact(Plain, c) = all BY DEF Redact
  <2>2. all = cc[1..n]
    <3> HIDE DEF base, list, n
    <3> QED BY <1>1 DEF FoldLeft, MapThenFoldSet
  <2> QED BY <2>1, <2>2
<1>3. ASSUME NEW i \in 1..n, NEW acc \in A PROVE Op(acc, list[i]) \in A
  <2> DEFINE d == list[i]
  <2>1. d.start \in Nat /\ d.end \in Nat BY <1>1, SpanFields
  <2> HIDE DEF d
  <2>2. Take(acc, d.start) \in Seq(Int) BY <2>1, TakeEntries
  <2>3. SubSeq(acc, d.end + 1, Len(acc)) \in Seq(Int)
    <3>1. Len(acc) \in Nat /\ \A k \in 1..Len(acc) : acc[k] \in Int OBVIOUS
    <3>2. d.end + 1 \in Int /\ Len(acc) \in Int /\ \A k \in d.end + 1..Len(acc) : acc[k] \in Int BY <2>1, <3>1
    <3> QED BY <3>2, SubSeqProperties
  <2>4. <<Placeholder>> \in Seq(Int) BY DEF Placeholder
  <2>5. Splice(acc, d) = Take(acc, d.start) \o <<Placeholder>> \o SubSeq(acc, d.end + 1, Len(acc)) BY DEF Splice
  <2> DEFINE u == Take(acc, d.start)
             v == SubSeq(acc, d.end + 1, Len(acc))
  <2> HIDE DEF u, v
  <2>6. u \o <<Placeholder>> \in Seq(Int) BY <2>2, <2>4 DEF u
  <2>7. u \o <<Placeholder>> \o v \in Seq(Int) BY <2>3, <2>6 DEF v
  <2> QED BY <2>5, <2>7 DEF d, u, v
<1> HIDE DEF A, list, base
<1>4. IsStep(step, n, A)
  <2>1. \A p \in (1..n) \X A : p[1] \in 1..n /\ p[2] \in A OBVIOUS
  <2>2. step = [p \in (1..n) \X A |-> Op(p[2], list[p[1]])] BY DEF SpliceStep, A
  <2> HIDE DEF Op, n, step
  <2> QED BY <1>1, <1>3, <2>1, <2>2 DEF IsStep
<1>5. \A i \in 1..n, a \in A : step[<<i, a>>] = Op(a, list[i])
  <2>1. step = [p \in (1..n) \X A |-> Op(p[2], list[p[1]])] BY DEF SpliceStep, A
  <2> HIDE DEF Op, n, list, step
  <2> QED BY <2>1
<1> HIDE DEF step, Op, n
<1>6. \A Q \in SUBSET (1..n) : Q # {} => Max(Q) \in 1..n BY <1>1, LargestMember
<1>7. PICK it : Folds(it, n, A, base, step) BY <1>1, <1>4, FoldExists
<1>8. Iter(it)
  <2>1. it = [Q \in SUBSET (1..n) |-> it[Q]] /\ it[{}] = base BY <1>7 DEF Folds, Obeys
  <2>2. ASSUME NEW Q \in SUBSET (1..n), Q # {} PROVE it[Q] = Op(it[Q \ {Max(Q)}], list[Max(Q)])
    <3>1. it[Q \ {Max(Q)}] \in A BY <1>7 DEF Folds
    <3> QED BY <1>5, <1>6, <1>7, <2>2, <3>1 DEF Folds, Obeys
  <2> QED BY <1>1, <2>1, <2>2
<1>9. Iter(cc) BY <1>8
<1> HIDE DEF cc
<1>10. Obeys(cc, n, A, base, step)
  <2>1. cc[{}] = base BY <1>9
  <2>2. ASSUME NEW Q \in SUBSET (1..n), Q # {}, cc[Q \ {Max(Q)}] \in A
        PROVE cc[Q] = step[<<Max(Q), cc[Q \ {Max(Q)}]>>]
    BY <1>1, <1>5, <1>6, <1>9, <2>2
  <2> QED BY <2>1, <2>2 DEF Obeys
<1>11. Reaches(cc[1..n], n, A, base, step) BY <1>1, <1>4, <1>10, FoldRuns
<1> QED BY <1>2, <1>11 DEF A, base, list, n, step

LEMMA WholePart == ASSUME NEW A, NEW s \in Seq(A) PROVE Part(s, 0, Len(s)) = s
<1> DEFINE u == Part(s, 0, Len(s))
<1>1. Len(s) \in Nat /\ Len(s) <= Len(s) OBVIOUS
<1>2. u \in Seq(A) /\ Len(u) = Len(s) /\ \A i \in 1..Len(s) : u[i] = s[i] BY <1>1, FirstPart
<1> HIDE DEF u
<1>3. u = s BY <1>2, SeqEqual
<1> QED BY <1>3 DEF u

\* Nothing is covered before the first and after the last of the detections, and between two that
\* follow each other in the order of LastFirst.
FallingStarts(q, n, c) ==
  /\ q \in [1..n -> c] /\ IsInjective(q)
  /\ \A i, j \in 1..n : i < j => q[i].start >= q[j].start
  /\ \A d \in c : \E i \in 1..n : q[i] = d
BoundAt(b, k, q) == IF k = 0 THEN b = TextLength ELSE b = q[k].start
GapAfter(b, k, q, n, c) ==
  /\ k < n => /\ q[k + 1].end <= b
              /\ \A p \in q[k + 1].end + 1..b : ~IsCovered(c, p)
  /\ k = n => \A p \in 0 + 1..b : ~IsCovered(c, p)

LEMMA Gaps ==
  ASSUME NEW c \in SUBSET Span, Apart(c), NEW n \in Nat, NEW q, FallingStarts(q, n, c),
         NEW k \in 0..n, NEW b \in Nat, b <= TextLength, BoundAt(b, k, q)
  PROVE GapAfter(b, k, q, n, c)
<1> USE DEF FallingStarts, BoundAt
<1>1. ASSUME NEW j \in 1..k, NEW p \in Nat, p <= b, Covers(q[j], p) PROVE FALSE
  <2>1. k \in 1..n /\ j \in 1..n /\ b = q[k].start OBVIOUS
  <2>2. q[j].start \in Nat /\ q[k].start \in Nat /\ q[j] \in c /\ q[k] \in c BY <2>1, SpanFields
  <2>3. q[j].start >= q[k].start
    <3>1. CASE j < k BY <2>1, <3>1
    <3>2. CASE j = k BY <2>2, <3>2
    <3>3. j < k \/ j = k OBVIOUS
    <3> QED BY <3>1, <3>2, <3>3
  <2>4. q[j].start < p BY <1>1 DEF Covers
  <2> QED BY <1>1, <2>1, <2>2, <2>3, <2>4
<1>2. ASSUME k = n, NEW p \in 0 + 1..b, IsCovered(c, p) PROVE FALSE
  <2>1. PICK f \in c : Covers(f, p) BY <1>2 DEF IsCovered
  <2>2. PICK j \in 1..n : q[j] = f OBVIOUS
  <2>3. p \in Nat /\ p <= b BY <1>2
  <2> QED BY <1>1, <1>2, <2>1, <2>2, <2>3
<1>3. ASSUME k < n PROVE q[k + 1].end <= b /\ \A p \in q[k + 1].end + 1..b : ~IsCovered(c, p)
  <2> DEFINE m == k + 1
             d == q[m]
  <2>1. m \in 1..n /\ d \in c /\ (k # 0 => k \in 1..n /\ k < m) /\ \A j \in 1..n : j \in 1..k \/ j = m \/ m < j
    BY <1>3
  <2>2. d.start \in Nat /\ d.end \in Nat /\ d.start < d.end /\ d.end <= TextLength BY <2>1, SpanFields
  <2> HIDE DEF m
  <2>3. d.end <= b
    <3>1. CASE k = 0 BY <2>2, <3>1
    <3>2. CASE k # 0
      <4>1. q[k].start >= d.start /\ q[k] # d /\ q[k] \in c BY <2>1, <3>2 DEF IsInjective
      <4> HIDE DEF d
      <4>2. d.end <= q[k].start BY <2>1, <4>1, ApartOrdered
      <4> QED BY <3>2, <4>2
    <3> QED BY <3>1, <3>2
  <2>4. ASSUME NEW p \in d.end + 1..b, IsCovered(c, p) PROVE FALSE
    <3>1. PICK f \in c : Covers(f, p) BY <2>4 DEF IsCovered
    <3>2. PICK j \in 1..n : q[j] = f OBVIOUS
    <3>3. p \in Nat /\ p <= b /\ d.end < p BY <2>2, <2>4
    <3>4. CASE j \in 1..k BY <1>1, <3>1, <3>2, <3>3, <3>4
    <3>5. CASE j = m
      <4>1. p <= d.end BY <3>1, <3>2, <3>5 DEF Covers
      <4> QED BY <2>2, <3>3, <4>1
    <3>6. CASE m < j
      <4>1. d.start >= f.start /\ f # d
        <5>1. q[m].start >= q[j].start BY <2>1, <3>6
        <5>2. q[m] # q[j]
          <6>1. m # j /\ m \in DOMAIN q /\ j \in DOMAIN q BY <2>1, <3>6
          <6> QED BY <6>1 DEF IsInjective
        <5> QED BY <3>2, <5>1, <5>2
      <4>2. f.end <= d.start
        <5> HIDE DEF d
        <5> QED BY <2>1, <4>1, ApartOrdered
      <4>3. p <= f.end /\ f.end \in Nat BY <3>1, SpanFields DEF Covers
      <4> QED BY <2>2, <3>3, <4>2, <4>3
    <3> QED BY <2>1, <3>4, <3>5, <3>6
  <2> QED BY <2>3, <2>4 DEF m
<1> QED BY <1>2, <1>3 DEF GapAfter

\* What _redact makes of a text: the positions that are not covered, and a placeholder at the
\* place of each detection, in the order of the text.
LEMMA RedactedText ==
  ASSUME NEW c \in SUBSET Span, IsFiniteSet(c), Apart(c)
  PROVE Redact(Plain, c) = Only(Marks(c), 0..TextLength)
<1> DEFINE n == Cardinality(c)
           q == LastFirst(c)
           N == TextLength
           b == [k \in 0..n |-> IF k = 0 THEN N ELSE q[k].start]
<1>1. /\ n \in Nat /\ q \in [1..n -> c] /\ IsInjective(q)
      /\ (\A i, j \in 1..n : i < j => q[i].start >= q[j].start)
      /\ \A d \in c : \E i \in 1..n : q[i] = d
  BY LastFirstOrder
<1>2. N \in Nat /\ Marks(c) \in Seq(Int) /\ Len(Marks(c)) = N /\ Plain \in Seq(Int) /\ Len(Plain) = N BY MarksAre
<1>3. PICK g : Runs(g, n, Seq(Int), Plain, SpliceStep(q, n)) /\ g[n] = Redact(Plain, c)
  BY RedactRuns DEF Reaches
<1> HIDE DEF n, q, N
<1>4. b[0] = N /\ \A k \in 1..n : b[k] = q[k].start
  <2>1. 0 \in 0..n /\ \A k \in 1..n : k \in 0..n /\ k # 0 BY <1>1
  <2> QED BY <2>1
<1>5. \A k \in 0..n : b[k] \in Nat /\ b[k] <= N
  <2>1. ASSUME NEW k \in 1..n PROVE q[k].start \in Nat /\ q[k].start <= N
    <3>1. q[k] \in Span BY <1>1
    <3>2. q[k].start \in Nat /\ q[k].end \in Nat /\ q[k].start < q[k].end /\ q[k].end <= N BY <3>1, SpanFields DEF N
    <3> QED BY <1>2, <3>2
  <2>2. \A k \in 0..n : k = 0 \/ k \in 1..n BY <1>1
  <2> QED BY <1>2, <1>4, <2>1, <2>2
<1>6. \A k \in 0..n : IF k = 0 THEN b[k] = TextLength ELSE b[k] = q[k].start BY DEF N
<1> HIDE DEF b
<1>7. ASSUME NEW k \in 0..n PROVE GapAfter(b[k], k, q, n, c)
  <2>1. b[k] \in Nat /\ b[k] <= TextLength /\ BoundAt(b[k], k, q) BY <1>5, <1>6 DEF N, BoundAt
  <2>2. FallingStarts(q, n, c) /\ n \in Nat BY <1>1 DEF FallingStarts
  <2> QED BY <2>1, <2>2, Gaps
<1> DEFINE T == {k \in Nat : k <= n => g[k] = RedactedFrom(c, b[k])}
<1>8. 0 \in T
  <2>1. g[0] = Plain BY <1>3 DEF Runs
  <2>2. N <= N /\ \A p \in N + 1..N : ~IsCovered(c, p) BY <1>2
  <2>3. Left(c, N, N) = Part(Plain, N, N) BY <1>2, <2>2, BetweenLeft DEF N
  <2>4. Part(Plain, 0, N) \o Part(Plain, N, N) = Part(Plain, 0, N)
    <3>1. 0 \in Nat /\ 0 <= N /\ N <= N /\ N <= Len(Plain) BY <1>2
    <3> QED BY <1>2, <3>1, PartsJoin
  <2>5. Part(Plain, 0, N) = Plain BY <1>2, WholePart
  <2> QED BY <1>4, <2>1, <2>3, <2>4, <2>5 DEF RedactedFrom, N
<1>9. ASSUME NEW k \in Nat, k \in T PROVE k + 1 \in T
  <2> DEFINE m == k + 1
             d == q[m]
  <2>1. ASSUME m <= n PROVE g[m] = RedactedFrom(c, b[m])
    <3>1. m \in 1..n /\ k \in 0..n /\ k < n /\ m - 1 = k /\ k <= n BY <1>1, <2>1
    <3>2. g[k] = RedactedFrom(c, b[k]) BY <1>9, <3>1
    <3>3. d.end <= b[k] /\ \A p \in d.end + 1..b[k] : ~IsCovered(c, p) BY <1>7, <3>1 DEF GapAfter
    <3> HIDE DEF m, T
    <3>4. g[m] = Splice(g[k], d) /\ g[k] \in Seq(Int)
      <4>1. g[m] = SpliceStep(q, n)[<<m, g[m - 1]>>] /\ g[m - 1] \in Seq(Int)
        <5>1. m - 1 \in 0..n BY <3>1
        <5> QED BY <1>3, <3>1, <5>1 DEF Runs
      <4>2. g[m] = SpliceStep(q, n)[<<m, g[k]>>] /\ g[k] \in Seq(Int) BY <3>1, <4>1
      <4> QED BY <3>1, <4>2 DEF SpliceStep
    <3>5. b[k] \in Nat /\ b[k] <= TextLength BY <1>5, <3>1 DEF N
    <3>6. d \in c /\ b[m] = d.start BY <1>1, <1>4, <3>1
    <3> HIDE DEF d
    <3>7. Splice(RedactedFrom(c, b[k]), d) = RedactedFrom(c, d.start) BY <3>3, <3>5, <3>6, SpliceNext
    <3> QED BY <3>2, <3>4, <3>6, <3>7
  <2> QED BY <2>1
<1> HIDE DEF T
<1>10. Nat \subseteq T BY <1>8, <1>9, AllNumbers
<1>11. g[n] = RedactedFrom(c, b[n])
  <2>1. n \in T /\ n <= n BY <1>1, <1>10
  <2> QED BY <2>1 DEF T
<1>12. RedactedFrom(c, b[n]) = Left(c, 0, N)
  <2> DEFINE e == b[n]
  <2>1. n \in 0..n BY <1>1
  <2>2. e \in Nat /\ 0 \in Nat /\ 0 <= e /\ e <= TextLength /\ \A p \in 0 + 1..e : ~IsCovered(c, p)
    BY <1>5, <1>7, <2>1 DEF N, GapAfter
  <2>3. TextLength \in Nat /\ TextLength <= TextLength BY <1>2 DEF N
  <2> HIDE DEF e
  <2>4. Left(c, 0, e) = Part(Plain, 0, e) BY <2>2, BetweenLeft
  <2>5. Left(c, 0, TextLength) = Left(c, 0, e) \o Left(c, e, TextLength) BY <2>2, <2>3, LeftJoin
  <2> QED BY <2>4, <2>5 DEF RedactedFrom, N, e
<1>13. Left(c, 0, N) = Only(Marks(c), 0..TextLength)
  <2>1. Part(Marks(c), 0, N) = Marks(c) BY <1>2, WholePart
  <2> QED BY <2>1 DEF Left
<1> QED BY <1>3, <1>11, <1>12, <1>13

-----------------------------------------------------------------------------
(* The detections that are taken *)

LengthOf(s) == s.end - s.start

LEMMA LongestFirstOrder ==
  ASSUME NEW S \in SUBSET Span, IsFiniteSet(S)
  PROVE /\ Cardinality(S) \in Nat /\ LongestFirst(S) \in [1..Cardinality(S) -> S]
        /\ \A i, j \in 1..Cardinality(S) : i < j => Before(LongestFirst(S)[i], LongestFirst(S)[j])
        /\ \A d \in S : \E i \in 1..Cardinality(S) : LongestFirst(S)[i] = d
<1> DEFINE R == {p \in S \X S : Before(p[1], p[2])}
<1>1. LongestFirst(S) = Arranged(S, R) BY DEF LongestFirst
<1>2. \A d \in S : d.start \in Int /\ d.end \in Int /\ d.score \in Int BY SpanFields
<1>3. \A x, y \in S : <<x, y>> \in R <=> Before(x, y) OBVIOUS
<1> HIDE DEF R
<1>4. Sorts(R, S)
  <2>1. \A x, y \in S : Before(x, y) \/ Before(y, x) BY <1>2 DEF Before
  <2>2. ASSUME NEW x \in S, NEW y \in S, NEW z \in S, Before(x, y), Before(y, z) PROVE Before(x, z)
    <3>1. /\ x.start \in Int /\ x.end \in Int /\ x.score \in Int /\ y.start \in Int /\ y.end \in Int /\ y.score \in Int
          /\ z.start \in Int /\ z.end \in Int /\ z.score \in Int
      BY <1>2
    <3> QED BY <2>2, <3>1 DEF Before
  <2> QED BY <1>3, <2>1, <2>2 DEF Sorts
<1> DEFINE q == Arranged(S, R)
           n == Cardinality(S)
<1>5. n \in Nat /\ InOrder(q, n, S, R) /\ \A x \in S : \E i \in 1..n : q[i] = x BY <1>4, ArrangedLists
<1> HIDE DEF q, n
<1>6. q \in [1..n -> S] /\ \A i, j \in 1..n : i < j => <<q[i], q[j]>> \in R
  BY <1>5 DEF InOrder
<1>7. \A i, j \in 1..n : i < j => Before(q[i], q[j]) BY <1>3, <1>6
<1> QED BY <1>1, <1>5, <1>6, <1>7 DEF q, n

Chosen(S) == FoldLeft(Choose, {}, LongestFirst(S))
ChooseStep(list, n, S) == [p \in (1..n) \X SUBSET S |-> Choose(p[2], list[p[1]])]

LEMMA ChoiceRuns ==
  ASSUME NEW S \in SUBSET Span, IsFiniteSet(S)
  PROVE Reaches(Chosen(S), Cardinality(S), SUBSET S, {}, ChooseStep(LongestFirst(S), Cardinality(S), S))
<1> DEFINE A == SUBSET S
           base == {}
           list == LongestFirst(S)
           n == Cardinality(S)
           Op(acc, x) == Choose(acc, x)
           step == ChooseStep(list, n, S)
           Iter(it) == it = [Q \in SUBSET DOMAIN list |->
                               IF Q = {} THEN base ELSE Op(it[Q \ {Max(Q)}], list[Max(Q)])]
           c == CHOOSE it : Iter(it)
<1>1. n \in Nat /\ DOMAIN list = 1..n /\ base \in A /\ \A i \in 1..n : list[i] \in S
  <2>1. n \in Nat /\ list \in [1..n -> S] BY LongestFirstOrder
  <2> HIDE DEF list, n
  <2> QED BY <2>1
<1>2. Chosen(S) = c[1..n]
  <2> DEFINE all == FoldLeft(Choose, base, list)
  <2>1. Chosen(S) = all BY DEF Chosen
  <2>2. all = c[1..n]
    <3> HIDE DEF base, list, n
    <3> QED BY <1>1 DEF FoldLeft, MapThenFoldSet
  <2> QED BY <2>1, <2>2
<1>3. ASSUME NEW i \in 1..n, NEW acc \in A PROVE Op(acc, list[i]) \in A
  <2>1. list[i] \in S BY <1>1
  <2> HIDE DEF list, n
  <2> QED BY <2>1 DEF Choose
<1> HIDE DEF A, list, base
<1>4. IsStep(step, n, A)
  <2>1. \A p \in (1..n) \X A : p[1] \in 1..n /\ p[2] \in A OBVIOUS
  <2>2. step = [p \in (1..n) \X A |-> Op(p[2], list[p[1]])] BY DEF ChooseStep, A
  <2> HIDE DEF Op, n, step
  <2> QED BY <1>1, <1>3, <2>1, <2>2 DEF IsStep
<1>5. \A i \in 1..n, a \in A : step[<<i, a>>] = Op(a, list[i])
  <2>1. step = [p \in (1..n) \X A |-> Op(p[2], list[p[1]])] BY DEF ChooseStep, A
  <2> HIDE DEF Op, n, list, step
  <2> QED BY <2>1
<1> HIDE DEF step, Op, n
<1>6. \A Q \in SUBSET (1..n) : Q # {} => Max(Q) \in 1..n BY <1>1, LargestMember
<1>7. PICK it : Folds(it, n, A, base, step) BY <1>1, <1>4, FoldExists
<1>8. Iter(it)
  <2>1. it = [Q \in SUBSET (1..n) |-> it[Q]] /\ it[{}] = base BY <1>7 DEF Folds, Obeys
  <2>2. ASSUME NEW Q \in SUBSET (1..n), Q # {} PROVE it[Q] = Op(it[Q \ {Max(Q)}], list[Max(Q)])
    <3>1. it[Q \ {Max(Q)}] \in A BY <1>7 DEF Folds
    <3> QED BY <1>5, <1>6, <1>7, <2>2, <3>1 DEF Folds, Obeys
  <2> QED BY <1>1, <2>1, <2>2
<1>9. Iter(c) BY <1>8
<1> HIDE DEF c
<1>10. Obeys(c, n, A, base, step)
  <2>1. c[{}] = base BY <1>9
  <2>2. ASSUME NEW Q \in SUBSET (1..n), Q # {}, c[Q \ {Max(Q)}] \in A
        PROVE c[Q] = step[<<Max(Q), c[Q \ {Max(Q)}]>>]
    BY <1>1, <1>5, <1>6, <1>9, <2>2
  <2> QED BY <2>1, <2>2 DEF Obeys
<1>11. Reaches(c[1..n], n, A, base, step) BY <1>1, <1>4, <1>10, FoldRuns
<1> QED BY <1>2, <1>11 DEF A, base, list, n, step

\* The detection d is there for s: it is s, or the longer one of the two, and they overlap.
Settles(d, s) == d = s \/ (Overlap(s, d) /\ LengthOf(d) >= LengthOf(s))

\* The detections taken do not overlap, and for each one not taken a longer one is.
LEMMA ChosenFacts ==
  ASSUME NEW S \in SUBSET Span, IsFiniteSet(S)
  PROVE /\ Chosen(S) \subseteq S /\ Apart(Chosen(S))
        /\ \A s \in S : \E d \in Chosen(S) : Settles(d, s)
<1> DEFINE n == Cardinality(S)
           list == LongestFirst(S)
<1>1. /\ n \in Nat /\ list \in [1..n -> S]
      /\ (\A i, j \in 1..n : i < j => Before(list[i], list[j]))
      /\ \A d \in S : \E i \in 1..n : list[i] = d
  BY LongestFirstOrder
<1>2. PICK g : Runs(g, n, SUBSET S, {}, ChooseStep(list, n, S)) /\ g[n] = Chosen(S) BY ChoiceRuns DEF Reaches
<1> HIDE DEF n, list
<1> DEFINE Good(c, k) == /\ c \subseteq S /\ Apart(c)
                         /\ \A d \in c : \E j \in 1..k : list[j] = d
                         /\ \A j \in 1..k : \E d \in c : Settles(d, list[j])
           T == {k \in Nat : k <= n => Good(g[k], k)}
<1>3. 0 \in T
  <2>1. g[0] = {} BY <1>2 DEF Runs
  <2>2. \A j : j \notin 1..0 OBVIOUS
  <2> QED BY <2>1, <2>2 DEF Apart
<1>4. ASSUME NEW k \in Nat, k \in T PROVE k + 1 \in T
  <2> DEFINE m == k + 1
             c == g[k]
             s == list[m]
  <2>1. ASSUME m <= n PROVE Good(g[m], m)
    <3>1. m \in 1..n /\ k \in 0..n /\ m - 1 = k /\ k <= n BY <1>1, <2>1
    <3>2. Good(c, k) BY <1>4, <3>1
    <3>3. s \in S /\ (\A j \in 1..m : j \in 1..k \/ j = m) /\ m \in 1..m /\ 1..k \subseteq 1..m BY <1>1, <3>1
    <3>4. \A j \in 1..k : list[j] \in S /\ Before(list[j], s)
      <4>1. \A j \in 1..k : j \in 1..n /\ j < m BY <1>1, <3>1
      <4> QED BY <1>1, <3>1, <4>1
    <3> HIDE DEF m, T
    <3>5. g[m] = Choose(c, s)
      <4>1. g[m] = ChooseStep(list, n, S)[<<m, g[m - 1]>>] BY <1>2, <3>1 DEF Runs
      <4> QED BY <3>1, <3>2, <4>1 DEF ChooseStep
    <3> HIDE DEF c, s
    <3>6. s.start \in Int /\ s.end \in Int /\ s.start < s.end BY <3>3, SpanFields
    <3>7. CASE \E d \in c : Overlap(s, d)
      <4>1. g[m] = c BY <3>5, <3>7 DEF Choose
      <4>2. PICK d \in c : Overlap(s, d) BY <3>7
      <4>3. d \in S /\ Before(d, s) BY <3>2, <3>4, <4>2
      <4>4. d.start \in Int /\ d.end \in Int BY <4>3, SpanFields
      <4>5. Settles(d, s) BY <3>6, <4>2, <4>3, <4>4 DEF Settles, Before, LengthOf
      <4>6. \A j \in 1..m : \E e \in c : Settles(e, list[j]) BY <3>2, <3>3, <4>2, <4>5 DEF s
      <4>7. \A e \in c : \E j \in 1..m : list[j] = e BY <3>2, <3>3
      <4> QED BY <3>2, <4>1, <4>6, <4>7
    <3>8. CASE ~\E d \in c : Overlap(s, d)
      <4>1. g[m] = c \cup {s} BY <3>5, <3>8 DEF Choose
      <4>2. \A d \in c : ~Overlap(s, d) /\ ~Overlap(d, s)
        <5>1. ASSUME NEW d \in c PROVE ~Overlap(d, s)
          <6>1. d \in S BY <3>2
          <6>2. d.start \in Int /\ d.end \in Int BY <6>1, SpanFields
          <6>3. ~Overlap(s, d) BY <3>8
          <6> QED BY <3>6, <6>2, <6>3 DEF Overlap
        <5> QED BY <3>8, <5>1
      <4>3. Apart(c \cup {s}) BY <3>2, <4>2 DEF Apart
      <4>4. Settles(s, s) BY DEF Settles
      <4>5. \A j \in 1..m : \E e \in c \cup {s} : Settles(e, list[j]) BY <3>2, <3>3, <4>4 DEF s
      <4>6. \A e \in c \cup {s} : \E j \in 1..m : list[j] = e BY <3>2, <3>3 DEF s
      <4> QED BY <3>2, <3>3, <4>1, <4>3, <4>5, <4>6
    <3> QED BY <3>7, <3>8
  <2> QED BY <2>1
<1> HIDE DEF T
<1>5. Nat \subseteq T BY <1>3, <1>4, AllNumbers
<1>6. Good(Chosen(S), n)
  <2>1. n \in T /\ n <= n BY <1>1, <1>5
  <2> QED BY <1>2, <2>1 DEF T
<1>7. \A s \in S : \E d \in Chosen(S) : Settles(d, s)
  <2>1. ASSUME NEW s \in S PROVE \E d \in Chosen(S) : Settles(d, s)
    <3>1. PICK j \in 1..n : list[j] = s BY <1>1
    <3> QED BY <1>6, <3>1
  <2> QED BY <2>1
<1> QED BY <1>6, <1>7

\* If of two detections that overlap one always lies inside the other, all are covered.
LEMMA NestedCovered ==
  ASSUME NEW S \in SUBSET Span, IsFiniteSet(S), Nested(S), NEW s \in S, NEW p \in 1..TextLength, Covers(s, p)
  PROVE IsCovered(Chosen(S), p)
<1>1. PICK d \in Chosen(S) : Settles(d, s) BY ChosenFacts
<1>2. d \in S BY ChosenFacts
<1>3. d.start \in Int /\ d.end \in Int /\ s.start \in Int /\ s.end \in Int BY <1>2, SpanFields
<1>4. CASE d = s BY <1>1, <1>4 DEF IsCovered
<1>5. CASE Overlap(s, d) /\ LengthOf(d) >= LengthOf(s)
  <2>1. (d.start <= s.start /\ s.end <= d.end) \/ (s.start <= d.start /\ d.end <= s.end) BY <1>2, <1>5 DEF Nested
  <2>2. d.start <= s.start /\ s.end <= d.end BY <1>3, <1>5, <2>1 DEF LengthOf
  <2>3. Covers(d, p) BY <1>3, <2>2 DEF Covers
  <2> QED BY <1>1, <2>3 DEF IsCovered
<1> QED BY <1>1, <1>4, <1>5 DEF Settles

-----------------------------------------------------------------------------
(* The gate *)

LEMMA InputSpans ==
  ASSUME NEW t \in Inputs
  PROVE Reported(t) \in SUBSET Span /\ IsFiniteSet(Reported(t))
<1>1. t.spans \subseteq Span /\ IsFiniteSet(t.spans)
  <2>1. CASE t.spans = {} BY <2>1, FS_EmptySet
  <2>2. CASE t.spans # {}
    <3>1. t \in Texts
      <4>1. t \notin CleanTexts BY <2>2 DEF CleanTexts
      <4> QED BY <4>1 DEF Inputs
    <3>2. PICK f \in [1..MaxSpans -> Span] : t.spans = {f[i] : i \in 1..MaxSpans} BY <2>2, <3>1 DEF Texts
    <3>3. IsFiniteSet(1..MaxSpans)
      <4>1. 1 \in Int /\ MaxSpans \in Int BY GateConstants
      <4> QED BY <4>1, FS_Interval
    <3>4. f \in Surjection(1..MaxSpans, t.spans) BY <3>2 DEF Surjection
    <3>5. IsFiniteSet(t.spans) BY <3>3, <3>4, FS_Surjection
    <3> QED BY <3>2, <3>5
  <2> QED BY <2>1, <2>2
<1>2. Reported(t) \subseteq t.spans BY DEF Reported
<1> QED BY <1>1, <1>2, FS_Subset

\* The text that goes on to the store.
LEMMA ProcessedText ==
  ASSUME NEW t \in Inputs
  PROVE /\ Processed(t) \in Seq(0..TextLength)
        /\ PiiActive /\ settings.pii = "redact" => Processed(t) = Only(Marks(Detect(t)), 0..TextLength)
<1> DEFINE c == Detect(t)
           V == 0..TextLength
<1>1. c = Chosen(Reported(t)) BY DEF Detect, Chosen
<1>2. c \subseteq Reported(t) /\ Apart(c) /\ IsFiniteSet(c) /\ c \in SUBSET Span
  <2>1. c \subseteq Reported(t) /\ Apart(c) BY <1>1, InputSpans, ChosenFacts
  <2> HIDE DEF c
  <2>2. IsFiniteSet(c) /\ c \in SUBSET Span BY <2>1, InputSpans, FS_Subset
  <2> QED BY <2>1, <2>2
<1> HIDE DEF c
<1>3. Redact(Plain, c) = Only(Marks(c), V) BY <1>2, RedactedText
<1>4. Only(Marks(c), V) \in Seq(V)
  <2> DEFINE r == Only(Marks(c), V)
  <2>1. Marks(c) \in Seq(Int) BY MarksAre
  <2>2. r \in Seq(Int) /\ \E e : Picks(e, r, Marks(c), V)
    <3> HIDE DEF V
    <3> QED BY <2>1, OnlyPicks
  <2> HIDE DEF r
  <2>3. Len(r) \in Nat /\ \A i \in 1..Len(r) : r[i] \in V BY <2>2 DEF Picks
  <2>4. r \in Seq(V)
    <3> HIDE DEF V
    <3> QED BY <2>2, <2>3
  <2> QED BY <2>4 DEF r
<1>5. Plain \in Seq(V) BY MarksAre
<1> QED BY <1>3, <1>4, <1>5 DEF Processed, c

CallRecord ==
  [at : {"idle", "admitted", "scored", "stopped", "stored"}, content : Seq(0..TextLength), spans : SUBSET Span,
   chosen : SUBSET Span, refs : Seq(BOOLEAN), valid : BOOLEAN, flagged : BOOLEAN, reason : Reasons]
CallTyped(r) == r \in CallRecord /\ r.chosen \subseteq r.spans
Exact(r) ==
  /\ r.content = Only(Marks(r.chosen), 0..TextLength)
  /\ Nested(r.spans) => \A d \in r.spans, p \in 1..TextLength : Covers(d, p) => IsCovered(r.chosen, p)

\* A call that may still be stopped has room in the quarantine, the content is what _redact is to
\* make of the text.
GateInv ==
  /\ settings \in [mode : Modes, pii : PiiActions, entities : BOOLEAN, presidio : BOOLEAN]
  /\ recent \in Seq(BOOLEAN) /\ Len(recent) <= MaxRecent
  /\ quarantine \in 0..MaxQuarantined /\ gateFaults \in 0..MaxGateFaults
  /\ CallTyped(call)
  /\ call.at \in {"admitted", "scored"} => quarantine < MaxQuarantined
  /\ call.at = "admitted" /\ PiiActive /\ settings.pii = "redact" => Exact(call)

LEMMA NoCallTyped == CallTyped(NoCallYet) /\ NoCallYet.at = "idle"
<1>1. <<>> \in Seq(0..TextLength) /\ <<>> \in Seq(BOOLEAN) OBVIOUS
<1> QED BY <1>1 DEF NoCallYet, CallTyped, CallRecord, Reasons

LEMMA GateStarts == GateInit => GateInv
<1> SUFFICES ASSUME GateInit PROVE GateInv OBVIOUS
<1>1. <<>> \in Seq(BOOLEAN) /\ Len(<<>>) = 0 OBVIOUS
<1>2. CallTyped(call) /\ call.at = "idle" BY NoCallTyped DEF GateInit
<1>3. MaxRecent \in Nat /\ MaxQuarantined \in Nat /\ MaxGateFaults \in Nat BY GateConstants
<1>4. quarantine \in 0..MaxQuarantined /\ gateFaults \in 0..MaxGateFaults /\ 0 <= MaxRecent BY <1>3 DEF GateInit
<1> QED BY <1>1, <1>2, <1>4 DEF GateInit, GateInv

LEMMA EnforceKeeps == ASSUME GateInv, NEW valid \in BOOLEAN, NEW t \in Inputs, Enforce(t, valid) PROVE GateInv'
<1> DEFINE stopped == [NoCallYet EXCEPT !.at = "stopped", !.spans = Reported(t), !.reason = "refused"]
           admitted == [NoCallYet EXCEPT !.at = "admitted", !.content = Processed(t), !.spans = Reported(t),
                                         !.chosen = Detect(t), !.valid = valid]
<1>1. Reported(t) \in SUBSET Span BY InputSpans
<1>2. Detect(t) = Chosen(Reported(t)) BY DEF Detect, Chosen
<1>3. Detect(t) \subseteq Reported(t) /\ Detect(t) \in SUBSET Span BY <1>1, <1>2, InputSpans, ChosenFacts
<1>4. NoCallYet \in CallRecord /\ NoCallYet.chosen = {} /\ "refused" \in Reasons
  BY NoCallTyped DEF NoCallYet, CallTyped, Reasons
<1>5. Processed(t) \in Seq(0..TextLength) BY ProcessedText
<1>6. stopped \in CallRecord /\ stopped.at = "stopped" /\ stopped.spans = Reported(t) /\ stopped.chosen = NoCallYet.chosen
  BY <1>1, <1>4 DEF CallRecord
<1>7. /\ admitted \in CallRecord /\ admitted.content = Processed(t) /\ admitted.spans = Reported(t)
      /\ admitted.chosen = Detect(t) /\ admitted.at = "admitted"
  BY <1>1, <1>3, <1>4, <1>5 DEF CallRecord
<1> HIDE DEF stopped, admitted
<1>8. CallTyped(stopped) /\ CallTyped(admitted) BY <1>3, <1>4, <1>6, <1>7 DEF CallTyped
<1>9. ASSUME PiiActive, settings.pii = "redact" PROVE Exact(admitted)
  <2>1. Processed(t) = Only(Marks(Detect(t)), 0..TextLength) BY <1>9, ProcessedText
  <2>2. ASSUME Nested(Reported(t)), NEW d \in Reported(t), NEW p \in 1..TextLength, Covers(d, p)
        PROVE IsCovered(Detect(t), p)
    BY <1>2, <2>2, InputSpans, NestedCovered
  <2> QED BY <1>7, <2>1, <2>2 DEF Exact
<1>10. call' \in {stopped, admitted} BY DEF Enforce, stopped, admitted
<1>11. CallTyped(call') /\ call'.at \in {"stopped", "admitted"} BY <1>6, <1>7, <1>8, <1>10
<1>12. ASSUME call'.at = "admitted", PiiActive, settings.pii = "redact" PROVE Exact(call')
  <2>1. call' = admitted BY <1>6, <1>10, <1>12
  <2> QED BY <1>9, <1>12, <2>1
<1>13. UNCHANGED <<settings, recent, quarantine, gateFaults>> /\ quarantine < MaxQuarantined BY DEF Enforce
<1>14. PiiActive' <=> PiiActive BY <1>13 DEF PiiActive
<1> QED BY <1>11, <1>12, <1>13, <1>14 DEF GateInv

\* However many notes the domain has, the widening ends, and what it finds are notes of it.
LEMMA ReferencesExist == ASSUME GateInv PROVE Selected(ValidIn(References)) \in Seq(BOOLEAN)
<1>1. recent \in Seq(BOOLEAN) BY DEF GateInv
<1>2. FirstLimit \in Nat /\ LastLimit \in Nat
  <2>1. /\ MaxReferences \in Nat /\ MinCalibration \in Nat /\ WindowFloor \in Nat /\ FirstFactor \in Nat
        /\ LastFactor \in Nat
    BY GateConstants
  <2>2. /\ FirstFactor * MaxReferences \in Nat /\ FirstFactor * MinCalibration \in Nat
        /\ LastFactor * MaxReferences \in Nat /\ LastFactor * MinCalibration \in Nat
    BY <2>1
  <2>3. ASSUME NEW x \in Nat, NEW y \in Nat, NEW z \in Nat PROVE Max({x, y, z}) \in Nat
    <3>1. IsFiniteSet({x, y, z})
      <4>1. IsFiniteSet({x}) /\ IsFiniteSet({y}) /\ IsFiniteSet({z}) BY FS_Singleton
      <4>2. {x, y, z} = ({x} \cup {y}) \cup {z} OBVIOUS
      <4> QED BY <4>1, <4>2, FS_Union
    <3> DEFINE S == {x, y, z}
    <3>2. S \in SUBSET Int /\ S # {} /\ S \subseteq Nat OBVIOUS
    <3> HIDE DEF S
    <3>3. Max(S) \in S BY <3>1, <3>2, LeastGreatest DEF S
    <3> QED BY <3>2, <3>3 DEF S
  <2>4. FirstLimit \in Nat BY <2>1, <2>2, <2>3 DEF FirstLimit
  <2> QED BY <2>1, <2>2, <2>3, <2>4 DEF LastLimit
<1>3. Min({l \in Widened : Enough(l)}) \in Nat
  <2> DEFINE S == {l \in Widened : Enough(l)}
  <2>1. S \subseteq 0..FirstLimit + LastLimit
    <3>1. LastLimit \in 0..FirstLimit + LastLimit /\ FirstLimit..LastLimit \subseteq 0..FirstLimit + LastLimit BY <1>2
    <3> QED BY <3>1 DEF Widened
  <2>2. LastLimit \in S
    <3>1. LastLimit >= LastLimit BY <1>2
    <3> QED BY <3>1 DEF Widened, Enough
  <2>3. IsFiniteSet(0..FirstLimit + LastLimit)
    <3>1. 0 \in Int /\ FirstLimit + LastLimit \in Int BY <1>2
    <3> QED BY <3>1, FS_Interval
  <2> HIDE DEF S
  <2>4. IsFiniteSet(S) BY <2>1, <2>3, FS_Subset
  <2>5. S \in SUBSET Int /\ S \subseteq Nat BY <2>1
  <2>6. Min(S) \in S BY <2>2, <2>4, <2>5, LeastGreatest
  <2> QED BY <2>5, <2>6 DEF S
<1> DEFINE l == Min({k \in Widened : Enough(k)})
<1> HIDE DEF l
<1>4. Take(recent, l) \in Seq(BOOLEAN) BY <1>1, <1>3, TakeEntries DEF l
<1>5. Only(Take(recent, l), {TRUE}) \in Seq(BOOLEAN) BY <1>4, OnlyPicks
<1> DEFINE s == Only(Take(recent, l), {TRUE})
<1>6. s = ValidIn(References) BY DEF ValidIn, References, Window, l
<1> HIDE DEF s
<1>7. MaxReferences \in Nat BY GateConstants
<1>8. Take(s, MaxReferences) \in Seq(BOOLEAN) BY <1>5, <1>7, TakeEntries DEF s
<1> QED BY <1>6, <1>8 DEF Selected

LEMMA EvaluateReasons == ASSUME NEW refs PROVE Evaluate(refs) \in Reasons
BY DEF Evaluate, Reasons

LEMMA ScoreKeeps == ASSUME GateInv, NEW flagged \in BOOLEAN, Score(flagged) PROVE GateInv'
<1> DEFINE refs == Selected(ValidIn(References))
           r == [call EXCEPT !.at = "scored", !.refs = refs, !.flagged = flagged, !.reason = Evaluate(refs)]
<1>1. call' = r /\ UNCHANGED <<settings, recent, quarantine, gateFaults>> /\ call.at = "admitted" BY DEF Score
<1>2. Evaluate(refs) \in Reasons /\ refs \in Seq(BOOLEAN) BY EvaluateReasons, ReferencesExist
<1>3. call \in CallRecord /\ call.chosen \subseteq call.spans BY DEF GateInv, CallTyped
<1> HIDE DEF refs
<1>4. r \in CallRecord /\ r.at = "scored" /\ r.chosen = call.chosen /\ r.spans = call.spans BY <1>2, <1>3 DEF CallRecord
<1> HIDE DEF r
<1>5. CallTyped(call') /\ call'.at = "scored" BY <1>1, <1>3, <1>4 DEF CallTyped
<1> QED BY <1>1, <1>5 DEF GateInv

LEMMA RaisesKeeps == ASSUME GateInv, ScoreRaises \/ QuarantineRaises PROVE GateInv'
<1>1. call \in CallRecord /\ call.chosen \subseteq call.spans BY DEF GateInv, CallTyped
<1>2. "eval_failed" \in Reasons BY DEF Reasons
<1>3. UNCHANGED <<settings, recent, quarantine>> /\ gateFaults' \in 0..MaxGateFaults
  <2>1. gateFaults \in 0..MaxGateFaults /\ gateFaults < MaxGateFaults /\ gateFaults' = gateFaults + 1 /\ MaxGateFaults \in Nat
    BY GateConstants DEF ScoreRaises, QuarantineRaises, GateInv
  <2> QED BY <2>1 DEF ScoreRaises, QuarantineRaises
<1> DEFINE r == [call EXCEPT !.at = "scored", !.reason = "eval_failed"]
           s == [call EXCEPT !.reason = "eval_failed", !.flagged = FALSE]
<1>4. /\ r \in CallRecord /\ r.at = "scored" /\ r.chosen = call.chosen /\ r.spans = call.spans
      /\ s \in CallRecord /\ s.at = call.at /\ s.chosen = call.chosen /\ s.spans = call.spans
  BY <1>1, <1>2 DEF CallRecord
<1>5. (call' = r /\ call.at = "admitted") \/ (call' = s /\ call.at = "scored") BY DEF ScoreRaises, QuarantineRaises
<1> HIDE DEF r, s
<1>6. CallTyped(call') /\ call'.at = "scored" /\ call.at \in {"admitted", "scored"} BY <1>1, <1>4, <1>5 DEF CallTyped
<1> QED BY <1>3, <1>6 DEF GateInv

LEMMA StopsOrStoresKeeps == ASSUME GateInv, Block \/ StoreAdmitted PROVE GateInv'
<1>1. call \in CallRecord /\ call.chosen \subseteq call.spans BY DEF GateInv, CallTyped
<1> DEFINE r == [call EXCEPT !.at = "stopped"]
           s == [call EXCEPT !.at = "stored"]
<1>2. /\ r \in CallRecord /\ r.at = "stopped" /\ r.chosen = call.chosen /\ r.spans = call.spans
      /\ s \in CallRecord /\ s.at = "stored" /\ s.chosen = call.chosen /\ s.spans = call.spans
  BY <1>1 DEF CallRecord
<1>3. call' \in {r, s} BY DEF Block, StoreAdmitted
<1> HIDE DEF r, s
<1>4. CallTyped(call') /\ call'.at \notin {"admitted", "scored"} BY <1>1, <1>2, <1>3 DEF CallTyped
<1>5. CASE Block
  <2>1. quarantine' \in 0..MaxQuarantined
    <3>1. quarantine \in 0..MaxQuarantined /\ quarantine < MaxQuarantined /\ MaxQuarantined \in Nat
          /\ quarantine' \in {quarantine, quarantine + 1}
      BY <1>5, GateConstants DEF GateInv, Block
    <3> QED BY <3>1
  <2> QED BY <1>4, <1>5, <2>1 DEF GateInv, Block
<1>6. CASE StoreAdmitted
  <2>1. recent' \in Seq(BOOLEAN) /\ Len(recent') <= MaxRecent
    <3>1. recent \in Seq(BOOLEAN) /\ Len(recent) < MaxRecent /\ Len(recent) \in Nat /\ recent' = <<call.valid>> \o recent
          /\ MaxRecent \in Nat
      BY <1>6, GateConstants DEF GateInv, StoreAdmitted
    <3>2. <<call.valid>> \in Seq(BOOLEAN) /\ Len(<<call.valid>>) = 1 BY <1>1 DEF CallRecord
    <3> DEFINE one == <<call.valid>>
    <3> HIDE DEF one
    <3>3. one \o recent \in Seq(BOOLEAN) /\ Len(one \o recent) = Len(one) + Len(recent)
      <4>1. one \in Seq(BOOLEAN) BY <3>2 DEF one
      <4> QED BY <3>1, <4>1, ConcatProperties
    <3> QED BY <3>1, <3>2, <3>3 DEF one
  <2> QED BY <1>4, <1>6, <2>1 DEF GateInv, StoreAdmitted
<1> QED BY <1>5, <1>6

LEMMA ReturnKeeps == ASSUME GateInv, Return PROVE GateInv'
BY NoCallTyped DEF GateInv, Return

LEMMA GateKeeps == GateInv /\ [GateNext]_gateVars => GateInv'
<1> SUFFICES ASSUME GateInv, [GateNext]_gateVars PROVE GateInv' OBVIOUS
<1>1. CASE UNCHANGED gateVars BY <1>1 DEF gateVars, GateInv, PiiActive
<1>2. CASE GateNext
  <2>1. ASSUME NEW valid \in BOOLEAN, NEW t \in Inputs, Enforce(t, valid) PROVE GateInv' BY <2>1, EnforceKeeps
  <2>2. ASSUME NEW flagged \in BOOLEAN, Score(flagged) PROVE GateInv' BY <2>2, ScoreKeeps
  <2>3. CASE ScoreRaises \/ QuarantineRaises BY <2>3, RaisesKeeps
  <2>4. CASE Block \/ StoreAdmitted BY <2>4, StopsOrStoresKeeps
  <2>5. CASE Return BY <2>5, ReturnKeeps
  <2> QED BY <1>2, <2>1, <2>2, <2>3, <2>4, <2>5 DEF GateNext
<1> QED BY <1>1, <1>2

LEMMA GateInvTypes == GateInv => GateTypeOK
BY DEF GateInv, GateTypeOK, CallTyped, CallRecord

LEMMA GateInvExact == GateInv => RedactionExact
<1> SUFFICES ASSUME GateInv, call.at = "admitted", PiiActive, settings.pii = "redact"
             PROVE /\ call.content =
                        Only([p \in 1..TextLength |->
                                IF ~Covered(p) THEN p
                                ELSE IF \E d \in call.chosen : d.start = p - 1 THEN Placeholder ELSE -1],
                             0..TextLength)
                   /\ Nested(call.spans) => \A d \in call.spans, p \in 1..TextLength : Covers(d, p) => Covered(p)
  BY DEF RedactionExact
<1>1. Exact(call) BY DEF GateInv
<1>2. Marks(call.chosen) = [p \in 1..TextLength |->
                              IF ~Covered(p) THEN p
                              ELSE IF \E d \in call.chosen : d.start = p - 1 THEN Placeholder ELSE -1]
  BY DEF Marks, IsCovered, Covered
<1>3. \A p : IsCovered(call.chosen, p) <=> Covered(p) BY DEF IsCovered, Covered
<1> QED BY <1>1, <1>2, <1>3 DEF Exact

\* Whatever detections a text has and however they overlap, and whatever the settings are.
THEOREM GateTypeCorrect == GateSpec => []GateTypeOK
<1>1. GateInit => GateInv BY GateStarts
<1>2. GateInv /\ [GateNext]_gateVars => GateInv' BY GateKeeps
<1>3. GateInv => GateTypeOK BY GateInvTypes
<1> QED BY <1>1, <1>2, <1>3, PTL DEF GateSpec

\* For texts of every length and any number of detections, the reverse order of _redact keeps the
\* places of the others right, and the greedy choice by length leaves nothing of a detection, if
\* no two of them cross.
THEOREM RedactionExactCorrect == GateSpec => []RedactionExact
<1>1. GateInit => GateInv BY GateStarts
<1>2. GateInv /\ [GateNext]_gateVars => GateInv' BY GateKeeps
<1>3. GateInv => RedactionExact BY GateInvExact
<1> QED BY <1>1, <1>2, <1>3, PTL DEF GateSpec

-----------------------------------------------------------------------------
(* Folds of a list one longer *)

LEMMA OneMore ==
  ASSUME NEW A, NEW base, NEW n \in Nat, NEW step, NEW other, NEW v, NEW w,
         Reaches(v, n, A, base, step), Reaches(w, n + 1, A, base, other), Same(step, other, n, A)
  PROVE v \in A /\ w = other[<<n + 1, v>>]
<1>1. PICK g : Runs(g, n, A, base, step) /\ g[n] = v BY DEF Reaches
<1>2. PICK h : Runs(h, n + 1, A, base, other) /\ h[n + 1] = w BY DEF Reaches
<1>3. \A i \in 0..n : g[i] = h[i]
  <2> DEFINE k == n + 1
  <2>1. k \in Nat /\ n <= k OBVIOUS
  <2>2. Runs(h, k, A, base, other) BY <1>2
  <2>3. Runs(g, n, A, base, step) BY <1>1
  <2> HIDE DEF k
  <2> QED BY <2>1, <2>2, <2>3, RunsAgree
<1>4. h[n] = v /\ v \in A
  <2>1. n \in 0..n OBVIOUS
  <2> QED BY <1>1, <1>3, <2>1 DEF Runs
<1>5. h[n + 1] = other[<<n + 1, h[n]>>]
  <2> DEFINE k == n + 1
  <2>1. k \in 1..k /\ k - 1 = n OBVIOUS
  <2>2. Runs(h, k, A, base, other) BY <1>2
  <2> HIDE DEF k
  <2>3. h[k] = other[<<k, h[k - 1]>>] BY <2>1, <2>2 DEF Runs
  <2> QED BY <2>1, <2>3 DEF k
<1> QED BY <1>2, <1>4, <1>5

\* Two sets with the same entries of a list filter it alike.
LEMMA OnlySame ==
  ASSUME NEW A, NEW s \in Seq(A), NEW S, NEW R, \A i \in 1..Len(s) : s[i] \in S <=> s[i] \in R
  PROVE Only(s, S) = Only(s, R)
<1> DEFINE Alike(q) == \A i \in 1..Len(q) : q[i] \in S <=> q[i] \in R
           T == {q \in Seq(A) : Alike(q) => Only(q, S) = Only(q, R)}
<1>1. <<>> \in T
  <2>1. <<>> \in Seq(A) OBVIOUS
  <2> QED BY <2>1, OnlyEmpty
<1>2. ASSUME NEW q \in Seq(A), NEW x \in A, q \in T PROVE Append(q, x) \in T
  <2> DEFINE u == Append(q, x)
             n == Len(q)
  <2>1. u \in Seq(A) /\ Len(u) = n + 1 /\ u[n + 1] = x /\ n \in Nat /\ \A i \in 1..n : u[i] = q[i] BY AppendEntries
  <2>2. Only(u, S) = IF x \in S THEN Append(Only(q, S), x) ELSE Only(q, S) BY OnlyAppend
  <2>3. Only(u, R) = IF x \in R THEN Append(Only(q, R), x) ELSE Only(q, R) BY OnlyAppend
  <2>4. n + 1 \in 1..n + 1 /\ 1..n \subseteq 1..n + 1 BY <2>1
  <2> HIDE DEF n, u, T
  <2>5. ASSUME Alike(u) PROVE Only(u, S) = Only(u, R)
    <3>1. Alike(q) /\ (x \in S <=> x \in R) BY <2>1, <2>4, <2>5 DEF n
    <3>2. Only(q, S) = Only(q, R) BY <1>2, <3>1 DEF T
    <3> QED BY <2>2, <2>3, <3>1, <3>2
  <2> QED BY <2>1, <2>5 DEF T, u
<1> HIDE DEF T
<1>3. Seq(A) \subseteq T BY <1>1, <1>2, AllLists
<1> QED BY <1>3 DEF T

\* How many entries of a list are in a set.
LEMMA OnlyCounts ==
  ASSUME NEW A, NEW s \in Seq(A), NEW S
  PROVE Cardinality({k \in 1..Len(s) : s[k] \in S}) = Len(Only(s, S))
<1> DEFINE r == Only(s, S)
           D == {k \in 1..Len(s) : s[k] \in S}
<1>1. PICK e : Picks(e, r, s, S) BY OnlyPicks
<1>2. r \in Seq(A) BY OnlyPicks
<1> HIDE DEF r
<1>3. Len(r) \in Nat BY <1>2
<1>4. e \in [1..Len(r) -> D]
  <2>1. e \in [1..Len(r) -> 1..Len(s)] /\ \A i \in 1..Len(r) : s[e[i]] \in S BY <1>1 DEF Picks
  <2> QED BY <2>1
<1>5. \A i, j \in 1..Len(r) : e[i] = e[j] => i = j
  <2>1. \A i \in 1..Len(r) : e[i] \in Int BY <1>1 DEF Picks
  <2>2. \A i, j \in 1..Len(r) : i < j => e[i] < e[j] BY <1>1 DEF Picks
  <2>3. \A i, j \in 1..Len(r) : i < j \/ j < i \/ i = j BY <1>3
  <2> QED BY <2>1, <2>2, <2>3
<1>6. \A k \in D : \E i \in 1..Len(r) : e[i] = k BY <1>1 DEF Picks
<1> HIDE DEF D
<1>7. e \in Injection(1..Len(r), D) /\ e \in Surjection(1..Len(r), D)
  <2>1. IsInjective(e) BY <1>4, <1>5 DEF IsInjective
  <2> QED BY <1>4, <1>6, <2>1 DEF Injection, Surjection
<1>8. e \in Bijection(1..Len(r), D) BY <1>7 DEF Bijection
<1>10. ExistsBijection(1..Len(r), D) BY <1>8 DEF ExistsBijection
<1>11. Cardinality(D) = Len(r) BY <1>3, <1>10, FS_CountingElements
<1> QED BY <1>11 DEF D, r

-----------------------------------------------------------------------------
(* The pieces of a text *)

TotalStep(doc, list, sep) == [p \in (1..Len(list)) \X Int |-> p[2] + Cost(doc, list[p[1]], sep)]

LEMMA TotalRuns ==
  ASSUME NEW doc \in Seq(Nat), NEW list \in Seq(1..Len(doc)), NEW sep \in Nat
  PROVE Reaches(TotalCost(doc, list, sep), Len(list), Int, 0, TotalStep(doc, list, sep))
<1> DEFINE A == Int
           base == 0
           n == Len(list)
           Op(acc, x) == acc + Cost(doc, x, sep)
           step == TotalStep(doc, list, sep)
           Iter(it) == it = [Q \in SUBSET DOMAIN list |->
                               IF Q = {} THEN base ELSE Op(it[Q \ {Max(Q)}], list[Max(Q)])]
           c == CHOOSE it : Iter(it)
<1>1. n \in Nat /\ DOMAIN list = 1..n /\ base \in A /\ \A i \in 1..n : list[i] \in 1..Len(doc) OBVIOUS
<1>2. TotalCost(doc, list, sep) = c[1..n]
  <2> HIDE DEF n
  <2> QED BY <1>1 DEF TotalCost, FoldLeft, MapThenFoldSet
<1>3. ASSUME NEW i \in 1..n, NEW acc \in A PROVE Op(acc, list[i]) \in A
  <2>1. doc[list[i]] \in Nat BY <1>1
  <2>2. Cost(doc, list[i], sep) \in Int BY <2>1 DEF Cost
  <2> QED BY <2>2
<1> HIDE DEF A, base
<1>4. IsStep(step, n, A)
  <2>1. \A p \in (1..n) \X A : p[1] \in 1..n /\ p[2] \in A OBVIOUS
  <2>2. step = [p \in (1..n) \X A |-> Op(p[2], list[p[1]])] BY DEF TotalStep, A
  <2> HIDE DEF Op, n, step
  <2> QED BY <1>1, <1>3, <2>1, <2>2 DEF IsStep
<1>5. \A i \in 1..n, a \in A : step[<<i, a>>] = Op(a, list[i])
  <2>1. step = [p \in (1..n) \X A |-> Op(p[2], list[p[1]])] BY DEF TotalStep, A
  <2> HIDE DEF Op, n, step
  <2> QED BY <2>1
<1> HIDE DEF step, Op, n
<1>6. \A Q \in SUBSET (1..n) : Q # {} => Max(Q) \in 1..n BY <1>1, LargestMember
<1>7. PICK it : Folds(it, n, A, base, step) BY <1>1, <1>4, FoldExists
<1>8. Iter(it)
  <2>1. it = [Q \in SUBSET (1..n) |-> it[Q]] /\ it[{}] = base BY <1>7 DEF Folds, Obeys
  <2>2. ASSUME NEW Q \in SUBSET (1..n), Q # {} PROVE it[Q] = Op(it[Q \ {Max(Q)}], list[Max(Q)])
    <3>1. it[Q \ {Max(Q)}] \in A BY <1>7 DEF Folds
    <3> QED BY <1>5, <1>6, <1>7, <2>2, <3>1 DEF Folds, Obeys
  <2> QED BY <1>1, <2>1, <2>2
<1>9. Iter(c) BY <1>8
<1> HIDE DEF c
<1>10. Obeys(c, n, A, base, step)
  <2>1. c[{}] = base BY <1>9
  <2>2. ASSUME NEW Q \in SUBSET (1..n), Q # {}, c[Q \ {Max(Q)}] \in A
        PROVE c[Q] = step[<<Max(Q), c[Q \ {Max(Q)}]>>]
    BY <1>1, <1>5, <1>6, <1>9, <2>2
  <2> QED BY <2>1, <2>2 DEF Obeys
<1>11. Reaches(c[1..n], n, A, base, step) BY <1>1, <1>4, <1>10, FoldRuns
<1> QED BY <1>2, <1>11 DEF A, base, n, step

LEMMA TotalAppend ==
  ASSUME NEW doc \in Seq(Nat), NEW list \in Seq(1..Len(doc)), NEW sep \in Nat, NEW x \in 1..Len(doc)
  PROVE /\ TotalCost(doc, list, sep) \in Int
        /\ TotalCost(doc, Append(list, x), sep) = TotalCost(doc, list, sep) + Cost(doc, x, sep)
<1> DEFINE n == Len(list)
           t == Append(list, x)
           v == TotalCost(doc, list, sep)
           w == TotalCost(doc, t, sep)
<1>1. n \in Nat /\ t \in Seq(1..Len(doc)) /\ Len(t) = n + 1 /\ t[n + 1] = x /\ \A i \in 1..n : t[i] = list[i]
  BY AppendEntries
<1> HIDE DEF t, n
<1>2. Reaches(v, n, Int, 0, TotalStep(doc, list, sep)) BY TotalRuns DEF n
<1>3. Reaches(w, n + 1, Int, 0, TotalStep(doc, t, sep))
  <2>1. Reaches(w, Len(t), Int, 0, TotalStep(doc, t, sep)) BY <1>1, TotalRuns
  <2> QED BY <1>1, <2>1
<1>4. Same(TotalStep(doc, list, sep), TotalStep(doc, t, sep), n, Int)
  <2>1. \A i \in 1..n : i \in 1..Len(list) /\ i \in 1..Len(t) BY <1>1 DEF n
  <2> QED BY <1>1, <2>1 DEF Same, TotalStep
<1> HIDE DEF v, w
<1>5. v \in Int /\ w = TotalStep(doc, t, sep)[<<n + 1, v>>] BY <1>1, <1>2, <1>3, <1>4, OneMore
<1>6. TotalStep(doc, t, sep)[<<n + 1, v>>] = v + Cost(doc, x, sep)
  <2>1. <<n + 1, v>> \in (1..Len(t)) \X Int BY <1>1, <1>5
  <2> QED BY <1>1, <2>1 DEF TotalStep
<1> QED BY <1>5, <1>6 DEF v, w, t

LEMMA TotalEmpty ==
  ASSUME NEW doc \in Seq(Nat), NEW sep \in Nat
  PROVE TotalCost(doc, <<>>, sep) = 0
<1>1. <<>> \in Seq(1..Len(doc)) /\ Len(<<>>) = 0 OBVIOUS
<1>2. PICK g : Runs(g, 0, Int, 0, TotalStep(doc, <<>>, sep)) /\ g[0] = TotalCost(doc, <<>>, sep)
  BY <1>1, TotalRuns DEF Reaches
<1> QED BY <1>2 DEF Runs

\* The lists in a list, one after the other.
FlatStep(list, A) == [p \in (1..Len(list)) \X Seq(A) |-> p[2] \o list[p[1]]]

LEMMA FlattenRuns ==
  ASSUME NEW A, NEW list \in Seq(Seq(A))
  PROVE Reaches(FlattenSeq(list), Len(list), Seq(A), <<>>, FlatStep(list, A))
<1> DEFINE n == Len(list)
           step == FlatStep(list, A)
<1>1. n \in Nat /\ \A i \in 1..n : list[i] \in Seq(A) OBVIOUS
<1>2. <<>> \in Seq(A) /\ IsStep(step, n, Seq(A))
  <2>1. ASSUME NEW i \in 1..n, NEW a \in Seq(A) PROVE a \o list[i] \in Seq(A)
    <3>1. list[i] \in Seq(A) BY <1>1
    <3> DEFINE b == list[i]
    <3> HIDE DEF b
    <3> QED BY <3>1 DEF b
  <2>2. \A p \in (1..n) \X Seq(A) : p[1] \in 1..n /\ p[2] \in Seq(A) OBVIOUS
  <2>3. \A p \in (1..n) \X Seq(A) : p[2] \o list[p[1]] \in Seq(A) BY <2>1, <2>2
  <2> QED BY <2>3 DEF IsStep, FlatStep
<1>3. \A i \in 1..n, a \in Seq(A) : step[<<i, a>>] = a \o list[i] BY DEF FlatStep
<1> HIDE DEF step, n
<1>4. PICK it : Folds(it, n, Seq(A), <<>>, step) BY <1>1, <1>2, FoldExists
<1>5. Reaches(it[1..n], n, Seq(A), <<>>, step) BY <1>1, <1>2, <1>4, FoldRuns DEF Folds
<1>6. PICK g : Runs(g, n, Seq(A), <<>>, step) BY <1>5 DEF Reaches
<1>7. g[0] = <<>> /\ (\A i \in 0..n : g[i] \in Seq(A)) /\ \A i \in 1..n : g[i] = g[i - 1] \o list[i]
  <2>1. \A i \in 1..n : i - 1 \in 0..n BY <1>1
  <2>2. g \in [0..n -> Seq(A)] /\ g[0] = <<>> /\ \A i \in 1..n : g[i] = step[<<i, g[i - 1]>>] BY <1>6 DEF Runs
  <2> QED BY <1>3, <2>1, <2>2
<1> DEFINE Flat(f) == f = [i \in 1..n |-> IF i = 1 THEN list[i] ELSE f[i - 1] \o list[i]]
           c == CHOOSE f : Flat(f)
           h == [i \in 1..n |-> g[i]]
<1>8. Flat(h)
  <2>1. ASSUME NEW i \in 1..n PROVE h[i] = IF i = 1 THEN list[i] ELSE h[i - 1] \o list[i]
    <3>1. CASE i = 1
      <4>1. g[1] = g[0] \o list[1]
        <5>1. 1 \in 1..n /\ 1 - 1 = 0 BY <3>1
        <5> QED BY <1>7, <5>1
      <4>2. list[1] \in Seq(A) BY <1>1, <3>1
      <4>3. ASSUME NEW b \in Seq(A) PROVE <<>> \o b = b OBVIOUS
      <4> QED BY <1>7, <3>1, <4>1, <4>2, <4>3
    <3>2. CASE i # 1
      <4>1. i - 1 \in 1..n BY <1>1, <3>2
      <4> QED BY <1>7, <3>2, <4>1
    <3> QED BY <3>1, <3>2
  <2> QED BY <2>1
<1>9. Flat(c) BY <1>8
<1> HIDE DEF c, h
<1> DEFINE T == {k \in Nat : k + 1 <= n => c[k + 1] = g[k + 1]}
<1>10. 0 \in T
  <2>1. ASSUME 1 <= n PROVE c[1] = g[1]
    <3>1. 1 \in 1..n /\ 1 - 1 = 0 BY <1>1, <2>1
    <3>2. c[1] = list[1] BY <1>9, <3>1
    <3>3. g[1] = <<>> \o list[1] BY <1>7, <3>1
    <3>4. ASSUME NEW b \in Seq(A) PROVE <<>> \o b = b OBVIOUS
    <3> QED BY <1>1, <3>1, <3>2, <3>3, <3>4
  <2> QED BY <2>1
<1>11. ASSUME NEW k \in Nat, k \in T PROVE k + 1 \in T
  <2> DEFINE i == k + 1 + 1
  <2>1. ASSUME i <= n PROVE c[i] = g[i]
    <3>1. i \in 1..n /\ i # 1 /\ i - 1 = k + 1 /\ k + 1 <= n BY <1>1, <2>1
    <3>2. c[k + 1] = g[k + 1] BY <1>11, <3>1
    <3> HIDE DEF i
    <3>3. c[i] = c[i - 1] \o list[i] BY <1>9, <3>1
    <3>4. g[i] = g[i - 1] \o list[i] BY <1>7, <3>1
    <3> QED BY <3>1, <3>2, <3>3, <3>4
  <2> QED BY <2>1
<1> HIDE DEF T
<1>12. Nat \subseteq T BY <1>10, <1>11, AllNumbers
<1>13. FlattenSeq(list) = g[n]
  <2>1. CASE n = 0
    <3>1. FlattenSeq(list) = list BY <2>1 DEF FlattenSeq, n
    <3>2. list = <<>> BY <2>1 DEF n
    <3> QED BY <1>7, <2>1, <3>1, <3>2
  <2>2. CASE n # 0
    <3>1. FlattenSeq(list) = c[n] BY <2>2 DEF FlattenSeq, n, c
    <3>2. n - 1 \in T /\ n - 1 + 1 = n /\ n <= n BY <1>1, <1>12, <2>2
    <3>3. c[n] = g[n]
      <4> DEFINE k == n - 1
      <4>1. k \in T /\ k + 1 = n /\ n <= n BY <3>2
      <4> HIDE DEF k
      <4> QED BY <4>1 DEF T
    <3> QED BY <3>1, <3>3
  <2> QED BY <2>1, <2>2
<1> QED BY <1>6, <1>13 DEF Reaches, n, step

LEMMA FlattenAppend ==
  ASSUME NEW A, NEW list \in Seq(Seq(A)), NEW x \in Seq(A)
  PROVE FlattenSeq(list) \in Seq(A) /\ FlattenSeq(Append(list, x)) = FlattenSeq(list) \o x
<1> DEFINE n == Len(list)
           t == Append(list, x)
           v == FlattenSeq(list)
           w == FlattenSeq(t)
<1>1. n \in Nat /\ t \in Seq(Seq(A)) /\ Len(t) = n + 1 /\ t[n + 1] = x /\ \A i \in 1..n : t[i] = list[i]
  BY AppendEntries
<1> HIDE DEF t, n
<1>2. Reaches(v, n, Seq(A), <<>>, FlatStep(list, A)) BY FlattenRuns DEF n
<1>3. Reaches(w, n + 1, Seq(A), <<>>, FlatStep(t, A))
  <2>1. Reaches(w, Len(t), Seq(A), <<>>, FlatStep(t, A)) BY <1>1, FlattenRuns
  <2> QED BY <1>1, <2>1
<1>4. Same(FlatStep(list, A), FlatStep(t, A), n, Seq(A))
  <2>1. \A i \in 1..n : i \in 1..Len(list) /\ i \in 1..Len(t) BY <1>1 DEF n
  <2> QED BY <1>1, <2>1 DEF Same, FlatStep
<1> HIDE DEF v, w
<1>5. v \in Seq(A) /\ w = FlatStep(t, A)[<<n + 1, v>>] BY <1>1, <1>2, <1>3, <1>4, OneMore
<1>6. FlatStep(t, A)[<<n + 1, v>>] = v \o x
  <2>1. <<n + 1, v>> \in (1..Len(t)) \X Seq(A) BY <1>1, <1>5
  <2> QED BY <1>1, <2>1 DEF FlatStep
<1> QED BY <1>5, <1>6 DEF v, w, t

LEMMA FlattenEmpty == FlattenSeq(<<>>) = <<>>
<1>1. Len(<<>>) = 0 OBVIOUS
<1> QED BY <1>1 DEF FlattenSeq

PackState(m) == [closed : Seq(Seq(1..m)), open : Seq(1..m)]
PackStep(doc, sep) == [p \in (1..Len(doc)) \X PackState(Len(doc)) |-> Pack(p[2], Sentences(doc)[p[1]], doc, sep)]
Packed(doc, sep) ==
  FoldLeft(LAMBDA acc, i : Pack(acc, i, doc, sep), [closed |-> <<>>, open |-> <<>>], Sentences(doc))

LEMMA PackFields ==
  ASSUME NEW doc \in Seq(Nat), NEW sep \in Nat, NEW acc \in PackState(Len(doc)), NEW i \in 1..Len(doc)
  PROVE /\ acc.closed \in Seq(Seq(1..Len(doc))) /\ acc.open \in Seq(1..Len(doc))
        /\ Pack(acc, i, doc, sep) \in PackState(Len(doc))
        /\ \/ /\ acc.open # <<>> /\ Pack(acc, i, doc, sep).closed = Append(acc.closed, acc.open)
              /\ Pack(acc, i, doc, sep).open = <<i>>
           \/ /\ acc.open = <<>> \/ TotalCost(doc, acc.open, sep) + Cost(doc, i, sep) <= PieceSize
              /\ Pack(acc, i, doc, sep).closed = acc.closed
              /\ Pack(acc, i, doc, sep).open = Append(acc.open, i)
<1> DEFINE m == Len(doc)
           p == Pack(acc, i, doc, sep)
           next == [closed |-> Append(acc.closed, acc.open), open |-> <<i>>]
           more == [acc EXCEPT !.open = Append(@, i)]
           Full == acc.open # <<>> /\ TotalCost(doc, acc.open, sep) + Cost(doc, i, sep) > PieceSize
<1>1. acc.closed \in Seq(Seq(1..m)) /\ acc.open \in Seq(1..m) BY DEF PackState
<1>2. p = IF Full THEN next ELSE more BY DEF Pack
<1>3. Append(acc.open, i) \in Seq(1..m) BY <1>1
<1>4. Append(acc.closed, acc.open) \in Seq(Seq(1..m)) BY <1>1
<1>5. <<i>> \in Seq(1..m) OBVIOUS
<1>6. next \in PackState(m) BY <1>4, <1>5 DEF PackState
<1>7. more \in PackState(m) /\ more.closed = acc.closed /\ more.open = Append(acc.open, i) BY <1>3 DEF PackState
<1>8. TotalCost(doc, acc.open, sep) \in Int /\ Cost(doc, i, sep) \in Int
  <2>1. TotalCost(doc, acc.open, sep) \in Int BY <1>1, TotalAppend
  <2>2. doc[i] \in Nat OBVIOUS
  <2> QED BY <2>1, <2>2 DEF Cost
<1>9. ~Full => acc.open = <<>> \/ TotalCost(doc, acc.open, sep) + Cost(doc, i, sep) <= PieceSize
  <2> DEFINE a == TotalCost(doc, acc.open, sep)
             b == Cost(doc, i, sep)
  <2>1. a \in Int /\ b \in Int /\ PieceSize \in Int BY <1>8, FactConstants
  <2> HIDE DEF a, b
  <2>2. a + b > PieceSize \/ a + b <= PieceSize BY <2>1
  <2> QED BY <2>2 DEF a, b
<1> HIDE DEF m, p, more
<1>10. CASE Full
  <2>1. p = next BY <1>2, <1>10
  <2> QED BY <1>1, <1>6, <1>10, <2>1 DEF p, m
<1>11. CASE ~Full
  <2>1. p = more BY <1>2, <1>11
  <2> HIDE DEF Full
  <2> QED BY <1>1, <1>7, <1>9, <1>11, <2>1 DEF p, m
<1> QED BY <1>10, <1>11

LEMMA PackRuns ==
  ASSUME NEW doc \in Seq(Nat), NEW sep \in Nat
  PROVE Reaches(Packed(doc, sep), Len(doc), PackState(Len(doc)), [closed |-> <<>>, open |-> <<>>], PackStep(doc, sep))
<1> DEFINE A == PackState(Len(doc))
           base == [closed |-> <<>>, open |-> <<>>]
           list == Sentences(doc)
           n == Len(doc)
           Op(acc, x) == Pack(acc, x, doc, sep)
           step == PackStep(doc, sep)
           Iter(it) == it = [Q \in SUBSET DOMAIN list |->
                               IF Q = {} THEN base ELSE Op(it[Q \ {Max(Q)}], list[Max(Q)])]
           c == CHOOSE it : Iter(it)
<1>1. n \in Nat /\ DOMAIN list = 1..n /\ base \in A /\ \A i \in 1..n : list[i] \in 1..Len(doc)
  <2>1. <<>> \in Seq(Seq(1..Len(doc))) /\ <<>> \in Seq(1..Len(doc)) OBVIOUS
  <2> QED BY <2>1 DEF Sentences, PackState
<1>2. Packed(doc, sep) = c[1..n]
  <2> HIDE DEF n
  <2> QED BY <1>1 DEF Packed, FoldLeft, MapThenFoldSet
<1>3. ASSUME NEW i \in 1..n, NEW acc \in A PROVE Op(acc, list[i]) \in A
  <2>1. list[i] \in 1..Len(doc) BY <1>1
  <2> HIDE DEF list
  <2> QED BY <2>1, PackFields
<1> HIDE DEF A, base, list
<1>4. IsStep(step, n, A)
  <2>1. \A p \in (1..n) \X A : p[1] \in 1..n /\ p[2] \in A OBVIOUS
  <2>2. step = [p \in (1..n) \X A |-> Op(p[2], list[p[1]])] BY DEF PackStep, A, list
  <2> HIDE DEF Op, n, step
  <2> QED BY <1>1, <1>3, <2>1, <2>2 DEF IsStep
<1>5. \A i \in 1..n, a \in A : step[<<i, a>>] = Op(a, list[i])
  <2>1. step = [p \in (1..n) \X A |-> Op(p[2], list[p[1]])] BY DEF PackStep, A, list
  <2> HIDE DEF Op, n, step
  <2> QED BY <2>1
<1> HIDE DEF step, Op, n
<1>6. \A Q \in SUBSET (1..n) : Q # {} => Max(Q) \in 1..n BY <1>1, LargestMember
<1>7. PICK it : Folds(it, n, A, base, step) BY <1>1, <1>4, FoldExists
<1>8. Iter(it)
  <2>1. it = [Q \in SUBSET (1..n) |-> it[Q]] /\ it[{}] = base BY <1>7 DEF Folds, Obeys
  <2>2. ASSUME NEW Q \in SUBSET (1..n), Q # {} PROVE it[Q] = Op(it[Q \ {Max(Q)}], list[Max(Q)])
    <3>1. it[Q \ {Max(Q)}] \in A BY <1>7 DEF Folds
    <3> QED BY <1>5, <1>6, <1>7, <2>2, <3>1 DEF Folds, Obeys
  <2> QED BY <1>1, <2>1, <2>2
<1>9. Iter(c) BY <1>8
<1> HIDE DEF c
<1>10. Obeys(c, n, A, base, step)
  <2>1. c[{}] = base BY <1>9
  <2>2. ASSUME NEW Q \in SUBSET (1..n), Q # {}, c[Q \ {Max(Q)}] \in A
        PROVE c[Q] = step[<<Max(Q), c[Q \ {Max(Q)}]>>]
    BY <1>1, <1>5, <1>6, <1>9, <2>2
  <2> QED BY <2>1, <2>2 DEF Obeys
<1>11. Reaches(c[1..n], n, A, base, step) BY <1>1, <1>4, <1>10, FoldRuns
<1> QED BY <1>2, <1>11 DEF A, base, n, step

\* After k sentences: they are in the pieces in their order, and every piece fits.
PackedUpTo(acc, k, doc, sep) ==
  /\ FlattenSeq(acc.closed) \o acc.open = [i \in 1..k |-> i]
  /\ \A j \in 1..Len(acc.closed) : Fits(doc, acc.closed[j], sep)
  /\ k > 0 => acc.open # <<>>
  /\ acc.open # <<>> => Fits(doc, acc.open, sep)

LEMMA OneToNext ==
  ASSUME NEW k \in Nat
  PROVE [i \in 1..k |-> i] \in Seq(Int) /\ Append([i \in 1..k |-> i], k + 1) = [i \in 1..k + 1 |-> i]
<1> DEFINE s == [i \in 1..k |-> i]
           t == [i \in 1..k + 1 |-> i]
           u == Append(s, k + 1)
<1>1. s \in Seq(Int) /\ Len(s) = k OBVIOUS
<1>2. t \in Seq(Int) /\ Len(t) = k + 1 OBVIOUS
<1>3. u \in Seq(Int) /\ Len(u) = k + 1 /\ u[k + 1] = k + 1 /\ \A i \in 1..k : u[i] = s[i]
  <2>1. k + 1 \in Int OBVIOUS
  <2> HIDE DEF s
  <2> QED BY <1>1, <2>1, AppendEntries
<1>4. ASSUME NEW i \in 1..k + 1 PROVE u[i] = t[i]
  <2>1. i = k + 1 \/ i \in 1..k OBVIOUS
  <2>2. t[i] = i OBVIOUS
  <2>3. i \in 1..k => s[i] = i OBVIOUS
  <2> HIDE DEF s, t, u
  <2> QED BY <1>3, <2>1, <2>2, <2>3
<1> HIDE DEF s, t, u
<1>5. u = t BY <1>2, <1>3, <1>4
<1> QED BY <1>1, <1>5 DEF s, t, u

LEMMA ConcatOne ==
  ASSUME NEW A, NEW s \in Seq(A), NEW x \in A
  PROVE s \o <<x>> = Append(s, x)
OBVIOUS

LEMMA PackKeeps ==
  ASSUME NEW doc \in Seq(Nat), NEW sep \in Nat, NEW acc \in PackState(Len(doc)), NEW k \in Nat, k + 1 <= Len(doc),
         PackedUpTo(acc, k, doc, sep)
  PROVE PackedUpTo(Pack(acc, k + 1, doc, sep), k + 1, doc, sep)
<1> DEFINE m == Len(doc)
           i == k + 1
           p == Pack(acc, i, doc, sep)
           upTo == [j \in 1..k |-> j]
<1>1. m \in Nat /\ i \in 1..m OBVIOUS
<1>2. FlattenSeq(acc.closed) \o acc.open = upTo /\ (\A j \in 1..Len(acc.closed) : Fits(doc, acc.closed[j], sep))
      /\ (acc.open # <<>> => Fits(doc, acc.open, sep))
  BY DEF PackedUpTo
<1>3. acc.closed \in Seq(Seq(1..m)) /\ acc.open \in Seq(1..m) BY <1>1, PackFields
<1>4. FlattenSeq(acc.closed) \in Seq(1..m) BY <1>3, FlattenAppend
<1>5. Append(upTo, i) = [j \in 1..k + 1 |-> j] BY OneToNext
<1>6. \/ /\ acc.open # <<>> /\ p.closed = Append(acc.closed, acc.open) /\ p.open = <<i>>
      \/ /\ acc.open = <<>> \/ TotalCost(doc, acc.open, sep) + Cost(doc, i, sep) <= PieceSize
         /\ p.closed = acc.closed /\ p.open = Append(acc.open, i)
  BY <1>1, PackFields
<1> HIDE DEF m, i, p, upTo
<1>7. CASE acc.open # <<>> /\ p.closed = Append(acc.closed, acc.open) /\ p.open = <<i>>
  <2>1. FlattenSeq(p.closed) = FlattenSeq(acc.closed) \o acc.open BY <1>3, <1>7, FlattenAppend
  <2>2. FlattenSeq(p.closed) = upTo BY <1>2, <2>1
  <2>3. upTo \in Seq(Int) BY OneToNext DEF upTo
  <2>4. upTo \o <<i>> = Append(upTo, i)
    <3>1. i \in Int BY <1>1
    <3> QED BY <2>3, <3>1, ConcatOne
  <2>5. Len(p.closed) = Len(acc.closed) + 1 /\ Len(acc.closed) \in Nat /\ p.closed[Len(acc.closed) + 1] = acc.open
        /\ \A j \in 1..Len(acc.closed) : p.closed[j] = acc.closed[j]
    BY <1>3, <1>7, AppendEntries
  <2>6. ASSUME NEW j \in 1..Len(p.closed) PROVE Fits(doc, p.closed[j], sep)
    <3>1. j = Len(acc.closed) + 1 \/ j \in 1..Len(acc.closed) BY <2>5
    <3> QED BY <1>2, <1>7, <2>5, <3>1
  <2>7. Len(p.open) = 1 /\ p.open # <<>> BY <1>7
  <2> QED BY <1>5, <1>7, <2>2, <2>4, <2>6, <2>7 DEF PackedUpTo, Fits, p, i
<1>8. CASE /\ acc.open = <<>> \/ TotalCost(doc, acc.open, sep) + Cost(doc, i, sep) <= PieceSize
           /\ p.closed = acc.closed /\ p.open = Append(acc.open, i)
  <2>1. FlattenSeq(p.closed) \o p.open = Append(upTo, i)
    <3>1. FlattenSeq(acc.closed) \o Append(acc.open, i) = Append(FlattenSeq(acc.closed) \o acc.open, i)
      <4> DEFINE a == FlattenSeq(acc.closed)
                 b == acc.open
      <4>1. a \in Seq(1..m) /\ b \in Seq(1..m) /\ i \in 1..m BY <1>1, <1>3, <1>4
      <4> HIDE DEF a, b
      <4>2. a \o Append(b, i) = Append(a \o b, i) BY <4>1, ConcatAppend
      <4> QED BY <4>2 DEF a, b
    <3> QED BY <1>2, <1>8, <3>1
  <2>2. \A j \in 1..Len(p.closed) : Fits(doc, p.closed[j], sep) BY <1>2, <1>8
  <2>3. p.open # <<>>
    <3>1. Len(p.open) = Len(acc.open) + 1 /\ Len(acc.open) \in Nat /\ Len(<<>>) = 0 BY <1>1, <1>3, <1>8, AppendEntries
    <3> QED BY <3>1
  <2>4. Fits(doc, p.open, sep)
    <3>1. CASE acc.open = <<>>
      <4>1. Len(p.open) = 1 BY <1>8, <3>1
      <4> QED BY <4>1 DEF Fits
    <3>2. CASE TotalCost(doc, acc.open, sep) + Cost(doc, i, sep) <= PieceSize
      <4>1. TotalCost(doc, acc.open, sep) \in Int /\ TotalCost(doc, p.open, sep) = TotalCost(doc, acc.open, sep) + Cost(doc, i, sep)
        <5>1. i \in 1..Len(doc) /\ acc.open \in Seq(1..Len(doc)) BY <1>1, <1>3 DEF m
        <5> QED BY <1>8, <5>1, TotalAppend
      <4>2. doc[i] \in Nat BY <1>1 DEF m
      <4>3. Cost(doc, i, sep) \in Int BY <4>2 DEF Cost
      <4>4. TotalCost(doc, p.open, sep) \in Int /\ TotalCost(doc, p.open, sep) <= PieceSize BY <3>2, <4>1, <4>3
      <4>5. TotalCost(doc, p.open, sep) - sep <= PieceSize BY <4>4, FactConstants
      <4> QED BY <4>5 DEF Fits, PieceLength
    <3> QED BY <1>8, <3>1, <3>2
  <2> QED BY <1>5, <2>1, <2>2, <2>3, <2>4 DEF PackedUpTo, p, i
<1> QED BY <1>6, <1>7, <1>8

LEMMA PackedAll ==
  ASSUME NEW doc \in Seq(Nat), NEW sep \in Nat
  PROVE Packed(doc, sep) \in PackState(Len(doc)) /\ PackedUpTo(Packed(doc, sep), Len(doc), doc, sep)
<1> DEFINE n == Len(doc)
           A == PackState(n)
           base == [closed |-> <<>>, open |-> <<>>]
<1>1. PICK g : Runs(g, n, A, base, PackStep(doc, sep)) /\ g[n] = Packed(doc, sep) BY PackRuns DEF Reaches
<1>2. n \in Nat OBVIOUS
<1> DEFINE T == {k \in Nat : k <= n => PackedUpTo(g[k], k, doc, sep)}
<1>3. 0 \in T
  <2>1. g[0] = base BY <1>1 DEF Runs
  <2>2. FlattenSeq(base.closed) \o base.open = [i \in 1..0 |-> i] /\ base.open = <<>> /\ base.closed = <<>>
    <3>1. <<>> \o <<>> = <<>> /\ [i \in 1..0 |-> i] = <<>> OBVIOUS
    <3> QED BY <3>1, FlattenEmpty
  <2> HIDE DEF base
  <2>3. PackedUpTo(base, 0, doc, sep)
    <3>1. \A j : j \notin 1..Len(<<>>) OBVIOUS
    <3> QED BY <2>2, <3>1 DEF PackedUpTo
  <2> QED BY <2>1, <2>3
<1>4. ASSUME NEW k \in Nat, k \in T PROVE k + 1 \in T
  <2>1. ASSUME k + 1 <= n PROVE PackedUpTo(g[k + 1], k + 1, doc, sep)
    <3> DEFINE i == k + 1
    <3>1. i \in 1..n /\ i - 1 = k /\ k <= n /\ k \in 0..n BY <1>2, <2>1
    <3>2. PackedUpTo(g[k], k, doc, sep) BY <1>4, <3>1
    <3>3. g[k] \in A BY <1>1, <3>1 DEF Runs
    <3>4. g[i] = Pack(g[k], i, doc, sep)
      <4> HIDE DEF i, T, A
      <4>1. g[i] = PackStep(doc, sep)[<<i, g[k]>>] BY <1>1, <3>1 DEF Runs
      <4>2. <<i, g[k]>> \in (1..Len(doc)) \X PackState(Len(doc)) BY <3>1, <3>3 DEF A, n
      <4>3. Sentences(doc)[i] = i BY <3>1 DEF Sentences
      <4> QED BY <4>1, <4>2, <4>3 DEF PackStep
    <3>5. PackedUpTo(Pack(g[k], k + 1, doc, sep), k + 1, doc, sep)
      <4> HIDE DEF T
      <4> QED BY <2>1, <3>2, <3>3, PackKeeps
    <3> QED BY <3>4, <3>5
  <2> QED BY <2>1
<1> HIDE DEF T
<1>5. Nat \subseteq T BY <1>3, <1>4, AllNumbers
<1>6. PackedUpTo(g[n], n, doc, sep)
  <2>1. n \in T /\ n <= n BY <1>2, <1>5
  <2> QED BY <2>1 DEF T
<1>7. g[n] \in A
  <2>1. n \in 0..n BY <1>2
  <2> QED BY <1>1, <2>1 DEF Runs
<1> QED BY <1>1, <1>6, <1>7

\* The pieces of a text have its sentences, in order, and fit.
LEMMA SplitFacts ==
  ASSUME NEW doc \in Document, NEW entry \in {"chunked", "report"}
  PROVE /\ Split(doc, entry) \in Seq(Seq(1..Len(doc))) /\ Len(Split(doc, entry)) >= 1
        /\ FlattenSeq(Split(doc, entry)) = Sentences(doc)
        /\ \A i \in 1..Len(Split(doc, entry)) : Fits(doc, Split(doc, entry)[i], Separator(entry))
<1> DEFINE n == Len(doc)
           sep == Separator(entry)
           whole == Sentences(doc)
           packed == Packed(doc, sep)
           all == <<whole>>
           some == Append(packed.closed, packed.open)
           Short == PieceLength(doc, whole, sep) <= PieceSize
<1>1. doc \in Seq(Nat) /\ n \in Nat BY FactConstants
<1>2. sep \in Nat BY DEF Separator
<1>3. whole \in Seq(1..n) /\ Len(whole) = n /\ whole = [i \in 1..n |-> i] BY <1>1 DEF Sentences
<1>4. Split(doc, entry) = IF Short THEN all ELSE some BY DEF Split, Packed
<1>5. packed \in PackState(n) /\ PackedUpTo(packed, n, doc, sep)
  <2> HIDE DEF sep
  <2> QED BY <1>1, <1>2, PackedAll
<1> HIDE DEF sep, whole, packed, n
<1>6. CASE Short
  <2>1. all \in Seq(Seq(1..n)) /\ Len(all) = 1 /\ all[1] = whole BY <1>3
  <2>2. FlattenSeq(all) = whole
    <3>1. <<>> \in Seq(Seq(1..n)) /\ all = Append(<<>>, whole) OBVIOUS
    <3>2. FlattenSeq(all) = FlattenSeq(<<>>) \o whole BY <1>3, <3>1, FlattenAppend
    <3>3. ASSUME NEW b \in Seq(1..n) PROVE <<>> \o b = b OBVIOUS
    <3> QED BY <1>3, <3>2, <3>3, FlattenEmpty
  <2>3. Fits(doc, whole, sep) BY <1>6 DEF Fits
  <2>4. \A i \in 1..Len(all) : Fits(doc, all[i], sep)
    <3>1. \A i \in 1..1 : i = 1 OBVIOUS
    <3> QED BY <2>1, <2>3, <3>1
  <2> HIDE DEF all
  <2>5. Split(doc, entry) = all BY <1>4, <1>6
  <2>6. all \in Seq(Seq(1..n)) /\ Len(all) >= 1 BY <2>1
  <2> QED BY <2>2, <2>4, <2>5, <2>6 DEF n, sep, whole
<1>7. CASE ~Short
  <2>1. packed.closed \in Seq(Seq(1..n)) /\ packed.open \in Seq(1..n) BY <1>5 DEF PackState
  <2>2. n # 0
    <3>1. ASSUME n = 0 PROVE FALSE
      <4>1. whole = <<>> BY <1>3, <3>1
      <4>2. TotalCost(doc, whole, sep) = 0 BY <1>1, <1>2, <4>1, TotalEmpty
      <4>3. 0 - sep <= PieceSize BY <1>2, FactConstants
      <4> QED BY <1>7, <4>2, <4>3 DEF PieceLength
    <3> QED BY <3>1
  <2>3. FlattenSeq(packed.closed) \o packed.open = [i \in 1..n |-> i] /\ packed.open # <<>>
        /\ (\A j \in 1..Len(packed.closed) : Fits(doc, packed.closed[j], sep)) /\ Fits(doc, packed.open, sep)
    BY <1>1, <1>5, <2>2 DEF PackedUpTo
  <2> DEFINE a == packed.closed
             b == packed.open
  <2>4. some = Append(a, b) OBVIOUS
  <2> HIDE DEF a, b, some
  <2>5. a \in Seq(Seq(1..n)) /\ b \in Seq(1..n) BY <2>1 DEF a, b
  <2>6. some \in Seq(Seq(1..n)) /\ Len(some) = Len(a) + 1 /\ Len(a) \in Nat /\ some[Len(a) + 1] = b
        /\ \A j \in 1..Len(a) : some[j] = a[j]
    BY <2>4, <2>5, AppendEntries
  <2>7. FlattenSeq(some) = whole
    <3>1. FlattenSeq(some) = FlattenSeq(a) \o b BY <2>4, <2>5, FlattenAppend
    <3> QED BY <1>3, <2>3, <3>1 DEF a, b
  <2>8. ASSUME NEW i \in 1..Len(some) PROVE Fits(doc, some[i], sep)
    <3>1. i = Len(a) + 1 \/ i \in 1..Len(a) BY <2>6
    <3>2. Fits(doc, b, sep) /\ \A j \in 1..Len(a) : Fits(doc, a[j], sep) BY <2>3 DEF a, b
    <3> QED BY <2>6, <3>1, <3>2
  <2>9. Split(doc, entry) = some BY <1>4, <1>7
  <2>10. Len(some) >= 1 BY <2>6
  <2> QED BY <2>6, <2>7, <2>8, <2>9, <2>10 DEF n, sep, whole
<1> QED BY <1>6, <1>7

-----------------------------------------------------------------------------
(* What a long text leaves *)

Outcome == [piece : Nat, fact : Nat, status : {"stored", "added", "updated", "corrected", "noop"}]
Pairs(list) == [k \in DOMAIN list |-> <<list[k].piece, list[k].fact>>]
UpTo(i, k) == [j \in 1..k |-> <<i, j>>]
AnswersIn(list, i) == Only(Pairs(list), {i} \X Nat)
Told(list) == Pairs(Only(list, {r \in ToSet(list) : r.status # "noop"}))
Answering == {r \in Outcome : r.status # "noop"}

LEMMA PairsAre ==
  ASSUME NEW list \in Seq(Outcome)
  PROVE /\ Pairs(list) \in Seq(Nat \X Nat) /\ Len(Pairs(list)) = Len(list)
        /\ \A k \in 1..Len(list) : Pairs(list)[k] = <<list[k].piece, list[k].fact>> /\ list[k].piece \in Nat /\ list[k].fact \in Nat
<1> DEFINE n == Len(list)
           f == [k \in 1..n |-> <<list[k].piece, list[k].fact>>]
<1>1. n \in Nat /\ DOMAIN list = 1..n /\ \A k \in 1..n : list[k] \in Outcome OBVIOUS
<1>2. \A k \in 1..n : list[k].piece \in Nat /\ list[k].fact \in Nat BY <1>1 DEF Outcome
<1>3. Pairs(list) = f BY <1>1 DEF Pairs
<1>4. f \in [1..n -> Nat \X Nat] BY <1>2
<1>5. f \in Seq(Nat \X Nat) /\ Len(f) = n
  <2> HIDE DEF f, n
  <2> QED BY <1>1, <1>4
<1> QED BY <1>2, <1>3, <1>5

LEMMA PairsAppend ==
  ASSUME NEW list \in Seq(Outcome), NEW r \in Outcome
  PROVE Pairs(Append(list, r)) = Append(Pairs(list), <<r.piece, r.fact>>)
<1> DEFINE n == Len(list)
           t == Append(list, r)
           p == Pairs(list)
           q == Pairs(t)
           x == <<r.piece, r.fact>>
           u == Append(p, x)
<1>1. n \in Nat /\ t \in Seq(Outcome) /\ Len(t) = n + 1 /\ t[n + 1] = r /\ \A i \in 1..n : t[i] = list[i]
  BY AppendEntries
<1>2. p \in Seq(Nat \X Nat) /\ Len(p) = n /\ \A k \in 1..n : p[k] = <<list[k].piece, list[k].fact>> BY PairsAre
<1>3. x \in Nat \X Nat BY DEF Outcome
<1> HIDE DEF t, p, q, n, x
<1>4. q \in Seq(Nat \X Nat) /\ Len(q) = n + 1 /\ \A k \in 1..n + 1 : q[k] = <<t[k].piece, t[k].fact>>
  <2>1. /\ Pairs(t) \in Seq(Nat \X Nat) /\ Len(Pairs(t)) = Len(t)
        /\ \A k \in 1..Len(t) : Pairs(t)[k] = <<t[k].piece, t[k].fact>>
    BY <1>1, PairsAre
  <2> QED BY <1>1, <2>1 DEF q
<1>5. u \in Seq(Nat \X Nat) /\ Len(u) = n + 1 /\ u[n + 1] = x /\ \A i \in 1..n : u[i] = p[i] BY <1>2, <1>3, AppendEntries
<1> HIDE DEF u
<1>6. ASSUME NEW i \in 1..n + 1 PROVE q[i] = u[i]
  <2>1. CASE i = n + 1 BY <1>1, <1>4, <1>5, <2>1 DEF x
  <2>2. CASE i \in 1..n BY <1>1, <1>2, <1>4, <1>5, <2>2
  <2> QED BY <1>1, <2>1, <2>2
<1>7. q = u BY <1>1, <1>4, <1>5, <1>6, SeqEqual
<1> QED BY <1>7 DEF q, u, t, p, x

LEMMA ToldAppend ==
  ASSUME NEW list \in Seq(Outcome), NEW r \in Outcome
  PROVE /\ Told(list) \in Seq(Nat \X Nat)
        /\ Told(Append(list, r)) = IF r.status = "noop" THEN Told(list) ELSE Append(Told(list), <<r.piece, r.fact>>)
<1>1. ASSUME NEW s \in Seq(Outcome)
      PROVE Only(s, {x \in ToSet(s) : x.status # "noop"}) = Only(s, Answering)
  <2>1. ASSUME NEW i \in 1..Len(s) PROVE s[i] \in {x \in ToSet(s) : x.status # "noop"} <=> s[i] \in Answering
    <3>1. s[i] \in Outcome OBVIOUS
    <3>2. s[i] \in ToSet(s) BY DEF ToSet
    <3> QED BY <3>1, <3>2 DEF Answering
  <2> DEFINE S == {x \in ToSet(s) : x.status # "noop"}
  <2>2. \A i \in 1..Len(s) : s[i] \in S <=> s[i] \in Answering BY <2>1
  <2> HIDE DEF S
  <2>3. Only(s, S) = Only(s, Answering) BY <2>2, OnlySame
  <2> QED BY <2>3 DEF S
<1> DEFINE a == Only(list, Answering)
           t == Append(list, r)
<1>2. t \in Seq(Outcome) OBVIOUS
<1>3. a \in Seq(Outcome) /\ Only(t, Answering) = IF r \in Answering THEN Append(a, r) ELSE a BY OnlyAppend
<1>4. r \in Answering <=> r.status # "noop" BY DEF Answering
<1> HIDE DEF a, t
<1>5. Told(list) = Pairs(a) /\ Told(t) = Pairs(Only(t, Answering)) BY <1>1, <1>2 DEF Told, a
<1>6. Pairs(a) \in Seq(Nat \X Nat) /\ Pairs(Append(a, r)) = Append(Pairs(a), <<r.piece, r.fact>>)
  BY <1>3, PairsAre, PairsAppend
<1> QED BY <1>3, <1>4, <1>5, <1>6 DEF t

LEMMA UpToNext ==
  ASSUME NEW i \in Nat, NEW k \in Nat
  PROVE UpTo(i, k) \in Seq(Nat \X Nat) /\ Len(UpTo(i, k)) = k /\ Append(UpTo(i, k), <<i, k + 1>>) = UpTo(i, k + 1)
<1>1. ASSUME NEW m \in Nat
      PROVE UpTo(i, m) \in Seq(Nat \X Nat) /\ Len(UpTo(i, m)) = m /\ \A j \in 1..m : UpTo(i, m)[j] = <<i, j>>
  <2>1. UpTo(i, m) \in [1..m -> Nat \X Nat]
    <3>1. \A j \in 1..m : <<i, j>> \in Nat \X Nat OBVIOUS
    <3> QED BY <3>1 DEF UpTo
  <2>2. \A j \in 1..m : UpTo(i, m)[j] = <<i, j>> BY DEF UpTo
  <2> QED BY <2>1, <2>2
<1> DEFINE n == k + 1
           s == UpTo(i, k)
           t == UpTo(i, n)
           x == <<i, n>>
           u == Append(s, x)
<1>2. n \in Nat /\ n \in 1..n /\ (\A j \in 1..n : j = n \/ j \in 1..k) /\ \A j \in 1..k : j \in 1..n OBVIOUS
<1>3. x \in Nat \X Nat BY <1>2
<1>4. s \in Seq(Nat \X Nat) /\ Len(s) = k /\ \A j \in 1..k : s[j] = <<i, j>> BY <1>1
<1>5. t \in Seq(Nat \X Nat) /\ Len(t) = n /\ \A j \in 1..n : t[j] = <<i, j>>
  <2> HIDE DEF n
  <2> QED BY <1>1, <1>2
<1> HIDE DEF s, t, x
<1>6. u \in Seq(Nat \X Nat) /\ Len(u) = n /\ u[n] = x /\ \A j \in 1..k : u[j] = s[j] BY <1>3, <1>4, AppendEntries
<1> HIDE DEF u, n
<1>7. \A j \in 1..n : u[j] = t[j] BY <1>2, <1>4, <1>5, <1>6 DEF x
<1>8. u = t BY <1>2, <1>5, <1>6, <1>7, SeqEqual
<1> QED BY <1>4, <1>8 DEF u, s, t, x, n

\* One more answer about a piece.
LEMMA AnswersNext ==
  ASSUME NEW list \in Seq(Outcome), NEW r \in Outcome, NEW k \in Nat, AnswersIn(list, r.piece) = UpTo(r.piece, k), r.fact = k + 1
  PROVE /\ Append(list, r) \in Seq(Outcome)
        /\ AnswersIn(Append(list, r), r.piece) = UpTo(r.piece, k + 1)
        /\ \A i \in Nat : i # r.piece => AnswersIn(Append(list, r), i) = AnswersIn(list, i)
<1> DEFINE x == <<r.piece, r.fact>>
           p == Pairs(list)
<1>1. r.piece \in Nat /\ r.fact \in Nat /\ x \in Nat \X Nat BY DEF Outcome
<1>2. p \in Seq(Nat \X Nat) /\ Pairs(Append(list, r)) = Append(p, x) BY PairsAre, PairsAppend
<1>3. Append(UpTo(r.piece, k), x) = UpTo(r.piece, k + 1) BY <1>1, UpToNext
<1>4. \A i \in Nat : x \in {i} \X Nat <=> i = r.piece BY <1>1
<1> HIDE DEF p, x
<1>5. ASSUME NEW i \in Nat
      PROVE AnswersIn(Append(list, r), i) = IF i = r.piece THEN Append(AnswersIn(list, i), x) ELSE AnswersIn(list, i)
  <2> DEFINE S == {i} \X Nat
  <2>1. x \in S <=> i = r.piece BY <1>4
  <2>2. Only(Append(p, x), S) = IF x \in S THEN Append(Only(p, S), x) ELSE Only(p, S)
    <3> DEFINE A == Nat \X Nat
    <3>1. p \in Seq(A) /\ x \in A BY <1>1, <1>2
    <3> HIDE DEF A, S
    <3> QED BY <3>1, OnlyAppend
  <2> HIDE DEF S
  <2> QED BY <1>2, <2>1, <2>2 DEF S, AnswersIn, p
<1>6. Append(list, r) \in Seq(Outcome) OBVIOUS
<1>7. AnswersIn(Append(list, r), r.piece) = UpTo(r.piece, k + 1)
  <2>1. AnswersIn(Append(list, r), r.piece) = Append(AnswersIn(list, r.piece), x) BY <1>1, <1>5
  <2> QED BY <1>3, <2>1
<1>8. \A i \in Nat : i # r.piece => AnswersIn(Append(list, r), i) = AnswersIn(list, i) BY <1>5
<1> QED BY <1>6, <1>7, <1>8

LEMMA AnswerCount ==
  ASSUME NEW list \in Seq(Outcome), NEW p \in Nat
  PROVE /\ Cardinality({i \in DOMAIN list : list[i].piece = p}) = Len(AnswersIn(list, p))
        /\ Len(AnswersIn(list, p)) \in Nat
<1> DEFINE q == Pairs(list)
           S == {p} \X Nat
<1>1. q \in Seq(Nat \X Nat) /\ Len(q) = Len(list)
      /\ \A i \in 1..Len(list) : q[i] = <<list[i].piece, list[i].fact>> /\ list[i].piece \in Nat /\ list[i].fact \in Nat
  BY PairsAre
<1>2. DOMAIN list = 1..Len(list) OBVIOUS
<1> HIDE DEF q
<1>3. {i \in 1..Len(q) : q[i] \in S} = {i \in DOMAIN list : list[i].piece = p} BY <1>1, <1>2
<1> HIDE DEF S
<1>4. Cardinality({i \in 1..Len(q) : q[i] \in S}) = Len(Only(q, S)) /\ Only(q, S) \in Seq(Nat \X Nat)
  BY <1>1, OnlyCounts, OnlyPicks
<1>5. Len(Only(q, S)) \in Nat BY <1>4
<1>6. AnswersIn(list, p) = Only(q, S) BY DEF AnswersIn, q, S
<1> QED BY <1>3, <1>4, <1>5, <1>6

LEMMA SettledCounts ==
  ASSUME results \in Seq(Outcome), piece \in Nat
  PROVE Settled = Len(AnswersIn(results, piece)) /\ Settled \in Nat
BY AnswerCount DEF Settled

LEMMA KeptNumbers == ASSUME NEW answer \in AnswerLists \cup {<< 5 >>} PROVE Kept(answer) \in Seq(Int)
<1>1. answer \in Seq(Int)
  <2>1. CASE answer \in AnswerLists
    <3>1. PICK n \in 0..MaxFacts + 1 : answer \in [1..n -> Answered] BY <2>1 DEF AnswerLists
    <3>2. n \in Nat /\ Answered \subseteq Int BY FactConstants
    <3>3. answer \in [1..n -> Int] BY <3>1, <3>2
    <3> QED BY <3>2, <3>3
  <2>2. CASE answer = <<5>> BY <2>2
  <2> QED BY <2>1, <2>2
<1>2. Descending(answer, answer) \in Seq(Int)
  <2>1. \A i \in 1..Len(answer) : answer[i] \in Int BY <1>1
  <2> QED BY <1>1, <2>1, DescendingPermutes
<1> DEFINE s == Descending(answer, answer)
           t == Take(s, MaxFacts)
           S == {importance \in ToSet(answer) : importance >= MinImportance}
<1> HIDE DEF s, S
<1>3. t \in Seq(Int)
  <2>1. s \in Seq(Int) /\ MaxFacts \in Nat BY <1>2, FactConstants DEF s
  <2> QED BY <2>1, TakeEntries
<1> HIDE DEF t
<1>4. Only(t, S) \in Seq(Int) BY <1>3, OnlyPicks
<1> QED BY <1>4 DEF Kept, s, t, S

FactTypes ==
  /\ text \in [doc : Document, entry : {"chunked", "report"}]
  /\ stage \in {"idle", "extract", "apply", "returned", "raised"}
  /\ pieces \in Seq(Seq(Nat)) /\ piece \in Nat \ {0}
  /\ facts \in Seq(Seq(Int)) /\ results \in Seq(Outcome) /\ factNotes \in Seq(Nat \X Nat)
  /\ replaced \subseteq Known \cup ToSet(factNotes)

\* How far the call is.
FactPlace ==
  /\ piece <= Len(pieces) + 1 /\ piece <= Len(facts) + 1 /\ Len(facts) <= Len(pieces)
  /\ IF stage = "idle" THEN pieces = <<>> /\ facts = <<>> ELSE pieces = Split(text.doc, text.entry)
  /\ stage = "extract" => text.entry = "report" /\ Len(facts) = piece - 1 /\ piece <= Len(pieces)
  /\ stage = "apply" => Len(facts) = piece /\ Settled < Len(facts[piece])
  /\ stage = "returned" => piece = Len(pieces) + 1 /\ Len(facts) = Len(pieces)
  /\ stage \in {"idle", "extract"} => Settled = 0

\* The answers about a piece are about its first facts, in their order: about all of them if the
\* call is past the piece, about none if it has not reached it.
InTurn(list, fs, p) ==
  /\ \A i \in Nat : AnswersIn(list, i) = UpTo(i, Len(AnswersIn(list, i)))
  /\ \A i \in Nat \ {0} : i < p => AnswersIn(list, i) = UpTo(i, Len(fs[i]))
  /\ \A i \in Nat : i > p => AnswersIn(list, i) = UpTo(i, 0)

FactInv ==
  /\ FactTypes /\ FactPlace /\ InTurn(results, facts, piece)
  /\ factNotes = Told(results) \/ (stage = "raised" /\ factNotes = Append(Told(results), Ref))

LEMMA FactStarts == FactInit => FactInv
<1> SUFFICES ASSUME FactInit PROVE FactInv OBVIOUS
<1> USE DEF FactInit
<1>1. <<>> \in Seq(Seq(Nat)) /\ <<>> \in Seq(Seq(Int)) /\ <<>> \in Seq(Outcome) /\ <<>> \in Seq(Nat \X Nat) OBVIOUS
<1>2. FactTypes BY <1>1 DEF FactTypes
<1>3. Pairs(<<>>) = <<>> BY DEF Pairs
<1>4. \A i : AnswersIn(<<>>, i) = <<>> BY <1>3, OnlyEmpty DEF AnswersIn
<1>5. \A i : UpTo(i, 0) = <<>> BY DEF UpTo
<1>6. Len(<<>>) = 0 OBVIOUS
<1>7. InTurn(results, facts, piece) BY <1>4, <1>5, <1>6 DEF InTurn
<1>8. Settled = 0
  <2>1. Settled = Len(AnswersIn(results, piece)) BY <1>1, SettledCounts
  <2> QED BY <1>4, <1>6, <2>1
<1>9. FactPlace BY <1>6, <1>8 DEF FactPlace
<1>10. Told(<<>>) = <<>> BY <1>3, OnlyEmpty DEF Told
<1> QED BY <1>2, <1>7, <1>9, <1>10 DEF FactInv

LEMMA NotesStay ==
  ASSUME NEW A, NEW s \in Seq(A), NEW x \in A
  PROVE ToSet(Append(s, x)) = ToSet(s) \cup {x}
<1> DEFINE n == Len(s)
           t == Append(s, x)
<1>1. n \in Nat /\ t \in Seq(A) /\ Len(t) = n + 1 /\ t[n + 1] = x /\ \A i \in 1..n : t[i] = s[i] BY AppendEntries
<1>2. DOMAIN s = 1..n OBVIOUS
<1> HIDE DEF n, t
<1>3. DOMAIN t = 1..n + 1 BY <1>1
<1>4. \A i \in 1..n + 1 : i = n + 1 \/ i \in 1..n BY <1>1
<1>5. n + 1 \in 1..n + 1 /\ 1..n \subseteq 1..n + 1 BY <1>1
<1> QED BY <1>1, <1>2, <1>3, <1>4, <1>5 DEF ToSet, t

LEMMA StartKeeps == ASSUME FactInv, Start PROVE FactInv'
<1>1. FactTypes /\ FactPlace /\ InTurn(results, facts, piece) BY DEF FactInv
<1>2. stage = "idle" /\ pieces = <<>> /\ facts = <<>> /\ piece \in Nat \ {0} /\ piece <= 1 /\ Settled = 0
  <2>1. Len(<<>>) = 0 OBVIOUS
  <2>2. piece <= Len(pieces) + 1 BY <1>1 DEF FactPlace
  <2> QED BY <1>1, <2>1, <2>2 DEF Start, FactPlace, FactTypes
<1>3. piece = 1 BY <1>2
<1>4. text.doc \in Document /\ text.entry \in {"chunked", "report"} BY <1>1 DEF FactTypes
<1> DEFINE sp == Split(text.doc, text.entry)
<1>5. sp \in Seq(Seq(1..Len(text.doc))) /\ Len(sp) >= 1 /\ Len(sp) \in Nat BY <1>4, SplitFacts
<1> HIDE DEF sp
<1>6. sp \in Seq(Seq(Nat))
  <2>1. \A a \in Seq(1..Len(text.doc)) : a \in Seq(Nat) OBVIOUS
  <2> QED BY <1>5, <2>1
<1>7. /\ pieces' = sp /\ text' = text /\ piece' = 1 /\ results' = results /\ factNotes' = factNotes /\ replaced' = replaced
      /\ stage' \in {"apply", "extract"} /\ stage' # "idle"
      /\ stage' = "apply" => facts' = <<<<MinImportance>>>>
      /\ stage' = "extract" => text.entry = "report" /\ facts' = <<>>
  BY <1>3, <1>4 DEF Start, sp
<1>8. <<<<MinImportance>>>> \in Seq(Seq(Int)) /\ <<>> \in Seq(Seq(Int))
      /\ Len(<<<<MinImportance>>>>) = 1 /\ Len(<<<<MinImportance>>>>[1]) = 1 /\ Len(<<>>) = 0
  BY FactConstants
<1>9. FactTypes'
  <2>1. facts' \in Seq(Seq(Int)) BY <1>7, <1>8
  <2>2. pieces' \in Seq(Seq(Nat)) /\ piece' \in Nat \ {0} BY <1>6, <1>7
  <2>3. text' \in [doc : Document, entry : {"chunked", "report"}] /\ results' \in Seq(Outcome)
        /\ factNotes' \in Seq(Nat \X Nat) /\ replaced' \subseteq Known \cup ToSet(factNotes')
    BY <1>1, <1>7 DEF FactTypes
  <2>4. stage' \in {"idle", "extract", "apply", "returned", "raised"} BY <1>7
  <2> QED BY <2>1, <2>2, <2>3, <2>4 DEF FactTypes
<1>10. Settled' = 0 BY <1>2, <1>3, <1>7 DEF Settled
<1>11. FactPlace'
  <2>1. stage' = "apply" => Len(facts') = 1 /\ Settled' < Len(facts'[1]) BY <1>7, <1>8, <1>10
  <2>2. stage' = "extract" => Len(facts') = 0 BY <1>7, <1>8
  <2>3. pieces' = Split(text'.doc, text'.entry) BY <1>7 DEF sp
  <2> QED BY <1>5, <1>7, <1>10, <2>1, <2>2, <2>3 DEF FactPlace
<1>12. InTurn(results', facts', piece')
  <2>1. \A i \in Nat \ {0} : ~(i < 1) OBVIOUS
  <2> QED BY <1>1, <1>3, <1>7, <2>1 DEF InTurn
<1>13. factNotes' = Told(results') BY <1>2, <1>7 DEF FactInv
<1> QED BY <1>9, <1>11, <1>12, <1>13 DEF FactInv

SameBefore(gs, fs, p) == \A i \in Nat \ {0} : i < p => gs[i] = fs[i]

\* The piece after the one it is at, with all answers about this one given.
LEMMA NextInTurn ==
  ASSUME NEW list \in Seq(Outcome), NEW fs, NEW gs, NEW p \in Nat \ {0}, NEW k \in Nat, InTurn(list, fs, p),
         SameBefore(gs, fs, p), AnswersIn(list, p) = UpTo(p, k), Len(gs[p]) = k
  PROVE InTurn(list, gs, p + 1)
<1> DEFINE q == p + 1
<1>1. (\A i \in Nat \ {0} : i < q => i < p \/ i = p) /\ (\A i \in Nat : i > q => i > p) OBVIOUS
<1> HIDE DEF q
<1> QED BY <1>1 DEF InTurn, SameBefore, q

LEMMA RaiseKeeps == ASSUME FactInv, Refuse \/ ApplyRaises PROVE FactInv'
<1>1. FactTypes /\ FactPlace /\ InTurn(results, facts, piece) BY DEF FactInv
<1>2. /\ stage \in {"extract", "apply"} /\ stage' = "raised" /\ text' = text /\ pieces' = pieces /\ piece' = piece
      /\ facts' = facts /\ results' = results /\ replaced' = replaced
      /\ factNotes' \in {factNotes, Append(factNotes, Ref)}
  BY DEF Refuse, ApplyRaises, Raise
<1>3. factNotes = Told(results) BY <1>2 DEF FactInv
<1>4. Settled \in Nat /\ Settled' = Settled /\ Ref' = Ref
  <2>1. Settled \in Nat BY <1>1, SettledCounts DEF FactTypes
  <2> QED BY <1>2, <2>1 DEF Settled, Ref
<1>5. Ref \in Nat \X Nat BY <1>1, <1>4 DEF Ref, FactTypes
<1>6. factNotes' \in Seq(Nat \X Nat) /\ ToSet(factNotes) \subseteq ToSet(factNotes')
  <2>1. factNotes \in Seq(Nat \X Nat) BY <1>1 DEF FactTypes
  <2> DEFINE A == Nat \X Nat
  <2>2. factNotes \in Seq(A) /\ Ref \in A BY <1>5, <2>1
  <2> HIDE DEF A
  <2>3. Append(factNotes, Ref) \in Seq(A) /\ ToSet(Append(factNotes, Ref)) = ToSet(factNotes) \cup {Ref}
    <3> DEFINE x == Ref
    <3>1. x \in A BY <2>2
    <3> HIDE DEF x
    <3>2. Append(factNotes, x) \in Seq(A) /\ ToSet(Append(factNotes, x)) = ToSet(factNotes) \cup {x} BY <2>2, <3>1, NotesStay
    <3> QED BY <3>2 DEF x
  <2> QED BY <1>2, <2>2, <2>3 DEF A
<1>7. FactTypes' BY <1>1, <1>2, <1>6 DEF FactTypes
<1>8. FactPlace' BY <1>1, <1>2, <1>4 DEF FactPlace
<1>9. InTurn(results', facts', piece') BY <1>1, <1>2
<1>10. factNotes' = Told(results') \/ (stage' = "raised" /\ factNotes' = Append(Told(results'), Ref'))
  BY <1>2, <1>3, <1>4
<1> QED BY <1>7, <1>8, <1>9, <1>10 DEF FactInv

\* The same of the next state.
LEMMA SettledLater ==
  ASSUME results' \in Seq(Outcome), piece' \in Nat, NEW k \in Nat, AnswersIn(results', piece') = UpTo(piece', k)
  PROVE Settled' = k
<1>1. Settled' = Len(AnswersIn(results', piece')) BY AnswerCount DEF Settled
<1> QED BY <1>1, UpToNext

LEMMA ExtractKeeps == ASSUME FactInv, Extract PROVE FactInv'
<1>1. FactTypes /\ FactPlace /\ InTurn(results, facts, piece) BY DEF FactInv
<1>2. PICK answer \in AnswerLists \cup {<<5>>} :
        /\ facts' = Append(facts, Kept(answer))
        /\ IF Kept(answer) = <<>> THEN NextPiece ELSE stage' = "apply" /\ UNCHANGED piece
  BY DEF Extract, Takes
<1>3. stage = "extract" /\ text' = text /\ pieces' = pieces /\ results' = results /\ factNotes' = factNotes /\ replaced' = replaced
  BY DEF Extract
<1> DEFINE kept == Kept(answer)
           n == Len(facts)
<1>4. kept \in Seq(Int) BY KeptNumbers
<1> HIDE DEF kept
<1>5. n = piece - 1 /\ piece <= Len(pieces) /\ Settled = 0 /\ piece \in Nat \ {0} /\ results \in Seq(Outcome)
      /\ facts \in Seq(Seq(Int)) /\ Len(pieces) \in Nat /\ pieces = Split(text.doc, text.entry)
  BY <1>1, <1>3 DEF FactPlace, FactTypes
<1>6. facts' \in Seq(Seq(Int)) /\ Len(facts') = piece /\ facts'[piece] = kept /\ \A i \in Nat \ {0} : i < piece => facts'[i] = facts[i]
  <2>1. facts' = Append(facts, kept) BY <1>2 DEF kept
  <2>2. Append(facts, kept) \in Seq(Seq(Int)) /\ Len(Append(facts, kept)) = n + 1 /\ Append(facts, kept)[n + 1] = kept
        /\ \A i \in 1..n : Append(facts, kept)[i] = facts[i]
    BY <1>4, <1>5, AppendEntries
  <2>3. n + 1 = piece /\ \A i \in Nat \ {0} : i < piece => i \in 1..n BY <1>5
  <2> HIDE DEF n
  <2> QED BY <2>1, <2>2, <2>3
<1>7. AnswersIn(results, piece) = UpTo(piece, 0) BY <1>1, <1>5, SettledCounts DEF InTurn
<1>8. factNotes' = Told(results') BY <1>3 DEF FactInv
<1> HIDE DEF n
<1>9. CASE kept = <<>>
  <2>1. piece' = piece + 1 /\ stage' = IF piece = Len(pieces) THEN "returned" ELSE "extract"
    <3>1. NextPiece BY <1>2, <1>9 DEF kept
    <3>2. text.entry = "report" BY <1>1, <1>3 DEF FactPlace
    <3> QED BY <3>1, <3>2 DEF NextPiece
  <2>2. FactTypes'
    <3>1. piece' \in Nat \ {0} BY <1>5, <2>1
    <3>2. stage' \in {"idle", "extract", "apply", "returned", "raised"} BY <2>1
    <3> QED BY <1>1, <1>3, <1>6, <3>1, <3>2 DEF FactTypes
  <2>3. Len(kept) = 0 BY <1>9
  <2>4. InTurn(results', facts', piece')
    <3> DEFINE gs == facts'
    <3>1. Len(gs[piece]) = 0 /\ SameBefore(gs, facts, piece) BY <1>6, <2>3 DEF SameBefore
    <3>2. results \in Seq(Outcome) /\ piece \in Nat \ {0} BY <1>5
    <3> HIDE DEF gs
    <3>3. InTurn(results, gs, piece + 1) BY <1>1, <1>7, <3>1, <3>2, NextInTurn
    <3> QED BY <1>3, <2>1, <3>3 DEF gs
  <2>5. Settled' = 0
    <3>1. AnswersIn(results', piece') = UpTo(piece', 0)
      <4>1. piece' \in Nat /\ piece' > piece BY <1>5, <2>1
      <4> QED BY <1>1, <1>3, <4>1 DEF InTurn
    <3>2. results' \in Seq(Outcome) /\ piece' \in Nat BY <1>3, <1>5, <2>1
    <3> QED BY <3>1, <3>2, SettledLater
  <2>6. FactPlace'
    <3>1. piece' <= Len(pieces') + 1 /\ piece' <= Len(facts') + 1 /\ Len(facts') <= Len(pieces') /\ Len(facts') = piece' - 1
      BY <1>3, <1>5, <1>6, <2>1
    <3>2. piece # Len(pieces) => piece' <= Len(pieces') BY <1>3, <1>5, <2>1
    <3>3. stage' \in {"returned", "extract"} /\ (stage' = "returned" => piece = Len(pieces)) /\ (stage' = "extract" => piece # Len(pieces))
      BY <2>1
    <3>4. text.entry = "report" BY <1>1, <1>3 DEF FactPlace
    <3>5. piece = Len(pieces) => piece' = Len(pieces') + 1 BY <1>3, <2>1
    <3> QED BY <1>3, <1>5, <2>5, <3>1, <3>2, <3>3, <3>4, <3>5 DEF FactPlace
  <2> QED BY <1>8, <2>2, <2>4, <2>6 DEF FactInv
<1>10. CASE kept # <<>>
  <2>1. piece' = piece /\ stage' = "apply" BY <1>2, <1>10 DEF kept
  <2>2. FactTypes' BY <1>1, <1>3, <1>6, <2>1 DEF FactTypes
  <2>3. Settled' = 0 BY <1>3, <1>5, <2>1 DEF Settled
  <2>4. Len(kept) \in Nat /\ Len(kept) # 0 BY <1>4, <1>10
  <2>5. FactPlace'
    <3>1. Settled' < Len(facts'[piece']) BY <1>6, <2>1, <2>3, <2>4
    <3>2. Len(facts') = piece' /\ piece' <= Len(pieces') /\ piece' <= Len(facts') + 1 /\ piece' <= Len(pieces') + 1
          /\ Len(facts') <= Len(pieces')
      BY <1>3, <1>5, <1>6, <2>1
    <3> QED BY <1>3, <1>5, <2>1, <3>1, <3>2 DEF FactPlace
  <2>6. InTurn(results', facts', piece') BY <1>1, <1>3, <1>6, <2>1 DEF InTurn
  <2> QED BY <1>8, <2>2, <2>5, <2>6 DEF FactInv
<1> QED BY <1>9, <1>10

\* One fact of the piece dealt with.
LEMMA ApplyOne ==
  ASSUME FactInv, Apply
  PROVE /\ results' \in Seq(Outcome) /\ factNotes' = Told(results') /\ factNotes' \in Seq(Nat \X Nat)
        /\ replaced' \subseteq Known \cup ToSet(factNotes')
        /\ AnswersIn(results', piece) = UpTo(piece, Settled + 1) /\ Settled \in Nat
        /\ InTurn(results', facts, piece)
<1>1. FactTypes /\ InTurn(results, facts, piece) BY DEF FactInv
<1>2. PICK status \in Statuses :
        /\ results' = Append(results, [piece |-> piece, fact |-> Settled + 1, status |-> status])
        /\ factNotes' = IF status = "noop" THEN factNotes ELSE Append(factNotes, Ref)
        /\ IF Replaces(status)
           THEN \E other \in Known \cup ToSet(factNotes) : replaced' = replaced \cup {other}
           ELSE UNCHANGED replaced
  BY DEF Apply
<1>3. results \in Seq(Outcome) /\ piece \in Nat /\ Settled \in Nat BY <1>1, SettledCounts DEF FactTypes
<1>4. AnswersIn(results, piece) = UpTo(piece, Settled) BY <1>1, <1>3, SettledCounts DEF InTurn
<1> DEFINE k == Settled
           r == [piece |-> piece, fact |-> k + 1, status |-> status]
<1>5. r \in Outcome /\ r.piece = piece /\ r.fact = k + 1 /\ r.status = status
  <2>1. status \in {"stored", "added", "updated", "corrected", "noop"} BY DEF Statuses
  <2> HIDE DEF k
  <2> QED BY <1>3, <2>1 DEF Outcome, k
<1>6. Ref = <<r.piece, r.fact>> /\ results' = Append(results, r) BY <1>2 DEF Ref
<1> HIDE DEF r, k
<1>7. /\ results' \in Seq(Outcome)
      /\ AnswersIn(results', piece) = UpTo(piece, k + 1)
      /\ \A i \in Nat : i # piece => AnswersIn(results', i) = AnswersIn(results, i)
  <2>1. k \in Nat /\ AnswersIn(results, r.piece) = UpTo(r.piece, k) /\ r.fact = k + 1 BY <1>3, <1>4, <1>5 DEF k
  <2>2. /\ Append(results, r) \in Seq(Outcome)
        /\ AnswersIn(Append(results, r), r.piece) = UpTo(r.piece, k + 1)
        /\ \A i \in Nat : i # r.piece => AnswersIn(Append(results, r), i) = AnswersIn(results, i)
    BY <1>3, <1>5, <2>1, AnswersNext
  <2> QED BY <1>5, <1>6, <2>2
<1>8. factNotes = Told(results)
  <2>1. stage # "raised" BY DEF Apply
  <2> QED BY <2>1 DEF FactInv
<1>9. factNotes' = Told(results') /\ factNotes' \in Seq(Nat \X Nat)
  <2>1. Told(Append(results, r)) = IF r.status = "noop" THEN Told(results) ELSE Append(Told(results), <<r.piece, r.fact>>)
    BY <1>3, <1>5, ToldAppend
  <2>2. factNotes' = Told(results') BY <1>2, <1>5, <1>6, <1>8, <2>1
  <2>3. Told(results') \in Seq(Nat \X Nat) BY <1>7, ToldAppend, <1>5
  <2> QED BY <2>2, <2>3
<1>10. ToSet(factNotes) \subseteq ToSet(factNotes')
  <2> DEFINE A == Nat \X Nat
             x == Ref
  <2>1. x \in A /\ factNotes \in Seq(A) BY <1>1, <1>3 DEF Ref, FactTypes
  <2> HIDE DEF A, x
  <2>2. ToSet(Append(factNotes, x)) = ToSet(factNotes) \cup {x} BY <2>1, NotesStay
  <2> QED BY <1>2, <2>2 DEF x
<1>11. replaced' \subseteq Known \cup ToSet(factNotes') BY <1>1, <1>2, <1>10 DEF FactTypes
<1>12. InTurn(results', facts, piece)
  <2>1. \A i \in Nat : i = piece \/ AnswersIn(results', i) = AnswersIn(results, i) BY <1>7
  <2>2. AnswersIn(results', piece) = UpTo(piece, Len(AnswersIn(results', piece)))
    <3>1. k + 1 \in Nat BY <1>3 DEF k
    <3> DEFINE m == k + 1
    <3>2. m \in Nat BY <3>1
    <3> HIDE DEF m
    <3>3. Len(UpTo(piece, m)) = m BY <1>3, <3>2, UpToNext
    <3> QED BY <1>7, <3>3 DEF m
  <2>3. \A i \in Nat : (i < piece \/ i > piece) => i # piece BY <1>3
  <2>4. \A i \in Nat : AnswersIn(results', i) = UpTo(i, Len(AnswersIn(results', i))) BY <1>1, <2>1, <2>2 DEF InTurn
  <2>5. \A i \in Nat \ {0} : i < piece => AnswersIn(results', i) = UpTo(i, Len(facts[i])) BY <1>1, <2>1, <2>3 DEF InTurn
  <2>6. \A i \in Nat : i > piece => AnswersIn(results', i) = UpTo(i, 0) BY <1>1, <2>1, <2>3 DEF InTurn
  <2> QED BY <2>4, <2>5, <2>6 DEF InTurn
<1> QED BY <1>3, <1>7, <1>9, <1>11, <1>12 DEF k

LEMMA ApplyKeeps == ASSUME FactInv, Apply PROVE FactInv'
<1>1. FactTypes /\ FactPlace BY DEF FactInv
<1>2. /\ results' \in Seq(Outcome) /\ factNotes' = Told(results') /\ factNotes' \in Seq(Nat \X Nat)
      /\ replaced' \subseteq Known \cup ToSet(factNotes')
      /\ AnswersIn(results', piece) = UpTo(piece, Settled + 1) /\ Settled \in Nat
      /\ InTurn(results', facts, piece)
  BY ApplyOne
<1>3. stage = "apply" /\ text' = text /\ pieces' = pieces BY DEF Apply
<1>4. /\ piece \in Nat \ {0} /\ facts \in Seq(Seq(Int)) /\ Len(facts) = piece /\ Settled < Len(facts[piece])
      /\ Len(pieces) \in Nat /\ piece <= Len(pieces) /\ pieces = Split(text.doc, text.entry)
      /\ text.entry \in {"chunked", "report"}
  BY <1>1, <1>3 DEF FactTypes, FactPlace
<1>5. Last(facts) = facts[piece] /\ Len(facts[piece]) \in Nat BY <1>4 DEF Last
<1> DEFINE more == Settled + 1 < Len(Last(facts))
<1>6. CASE more
  <2>1. stage' = stage /\ piece' = piece /\ facts' = facts BY <1>6 DEF Apply
  <2>2. FactTypes' BY <1>1, <1>2, <1>3, <2>1 DEF FactTypes
  <2>3. Settled' = Settled + 1
    <3> DEFINE k == Settled + 1
    <3>1. k \in Nat /\ AnswersIn(results', piece') = UpTo(piece', k) /\ piece' \in Nat BY <1>2, <1>4, <2>1
    <3> HIDE DEF k
    <3>2. Settled' = k BY <1>2, <3>1, SettledLater
    <3> QED BY <3>2 DEF k
  <2>4. FactPlace'
    <3>1. Settled' < Len(facts'[piece']) BY <1>5, <1>6, <2>1, <2>3
    <3> QED BY <1>1, <1>3, <1>4, <2>1, <3>1 DEF FactPlace
  <2>5. InTurn(results', facts', piece') BY <1>2, <2>1
  <2> QED BY <1>2, <2>2, <2>4, <2>5 DEF FactInv
<1>7. CASE ~more
  <2>1. Len(facts[piece]) = Settled + 1 BY <1>2, <1>4, <1>5, <1>7
  <2>2. /\ piece' = piece + 1
        /\ stage' = IF piece = Len(pieces) THEN "returned" ELSE IF text.entry = "chunked" THEN "apply" ELSE "extract"
        /\ facts' = IF text.entry = "chunked" /\ piece < Len(pieces) THEN Append(facts, <<MinImportance>>) ELSE facts
    <3>1. NextPiece BY <1>7 DEF Apply
    <3>2. IF text.entry = "chunked" /\ piece < Len(pieces) THEN facts' = Append(facts, <<MinImportance>>) ELSE facts' = facts
      BY <1>7 DEF Apply
    <3> QED BY <3>1, <3>2 DEF NextPiece
  <2> DEFINE one == <<MinImportance>>
             longer == Append(facts, one)
  <2>3. one \in Seq(Int) /\ Len(one) = 1 BY FactConstants
  <2> HIDE DEF one
  <2>4. longer \in Seq(Seq(Int)) /\ Len(longer) = piece + 1 /\ longer[piece + 1] = one /\ \A i \in 1..piece : longer[i] = facts[i]
    BY <1>4, <2>3, AppendEntries
  <2> HIDE DEF longer
  <2>5. facts' = (IF text.entry = "chunked" /\ piece < Len(pieces) THEN longer ELSE facts) BY <2>2 DEF longer, one
  <2>6. facts' \in Seq(Seq(Int)) /\ \A i \in Nat \ {0} : i <= piece => facts'[i] = facts[i]
    <3>1. \A i \in Nat \ {0} : i <= piece => i \in 1..piece BY <1>4
    <3> QED BY <1>4, <2>4, <2>5, <3>1
  <2>7. piece' \in Nat \ {0} /\ piece' > piece /\ piece' = piece + 1 BY <1>4, <2>2
  <2>8. FactTypes'
    <3>1. stage' \in {"idle", "extract", "apply", "returned", "raised"} BY <2>2
    <3> QED BY <1>1, <1>2, <1>3, <2>6, <2>7, <3>1 DEF FactTypes
  <2>9. InTurn(results', facts', piece')
    <3> DEFINE list == results'
               gs == facts'
               k == Settled + 1
    <3>1. list \in Seq(Outcome) /\ InTurn(list, facts, piece) /\ AnswersIn(list, piece) = UpTo(piece, k) /\ k \in Nat BY <1>2
    <3>2. piece \in Nat \ {0} /\ SameBefore(gs, facts, piece) /\ Len(gs[piece]) = k
      <4>1. \A i \in Nat \ {0} : i < piece => i <= piece BY <1>4
      <4>2. piece \in Nat \ {0} /\ piece <= piece BY <1>4
      <4> QED BY <2>1, <2>6, <4>1, <4>2 DEF SameBefore
    <3> HIDE DEF list, gs, k
    <3>3. InTurn(list, gs, piece + 1) BY <3>1, <3>2, NextInTurn
    <3> QED BY <2>2, <3>3 DEF list, gs
  <2>10. Settled' = 0
    <3>1. AnswersIn(results', piece') = UpTo(piece', 0)
      <4>1. piece' \in Nat BY <2>7
      <4> QED BY <1>2, <2>7, <4>1 DEF InTurn
    <3>2. piece' \in Nat BY <2>7
    <3> QED BY <1>2, <3>1, <3>2, SettledLater
  <2>11. FactPlace'
    <3>1. CASE piece = Len(pieces)
      <4>1. stage' = "returned" /\ facts' = facts BY <1>4, <2>2, <3>1
      <4>2. piece' = Len(pieces') + 1 /\ piece' <= Len(facts') + 1 /\ Len(facts') <= Len(pieces') /\ piece' <= Len(pieces') + 1
        BY <1>3, <1>4, <2>7, <3>1, <4>1
      <4> QED BY <1>3, <1>4, <4>1, <4>2 DEF FactPlace
    <3>2. CASE piece # Len(pieces) /\ text.entry = "chunked"
      <4>1. piece < Len(pieces) BY <1>4, <3>2
      <4>2. stage' = "apply" /\ facts' = longer BY <2>2, <2>5, <3>2, <4>1
      <4>3. Len(facts') = piece' /\ facts'[piece'] = one BY <2>4, <2>7, <4>2
      <4>4. piece' <= Len(facts') + 1 /\ Len(facts') <= Len(pieces') /\ piece' <= Len(pieces') + 1
        BY <1>3, <1>4, <2>7, <4>1, <4>3
      <4>5. Settled' < Len(facts'[piece'])
        <5>1. Len(facts'[piece']) = 1 BY <2>3, <4>3
        <5> HIDE DEF more
        <5> QED BY <2>10, <5>1
      <4> QED BY <1>3, <1>4, <4>2, <4>3, <4>4, <4>5 DEF FactPlace
    <3>3. CASE piece # Len(pieces) /\ text.entry # "chunked"
      <4>1. stage' = "extract" /\ facts' = facts /\ text'.entry = "report" BY <1>3, <1>4, <2>2, <3>3
      <4>2. Len(facts') = piece' - 1 /\ piece' <= Len(pieces') /\ piece' <= Len(facts') + 1 /\ Len(facts') <= Len(pieces')
            /\ piece' <= Len(pieces') + 1
        BY <1>3, <1>4, <2>7, <3>3, <4>1
      <4> QED BY <1>3, <1>4, <2>10, <4>1, <4>2 DEF FactPlace
    <3> QED BY <3>1, <3>2, <3>3
  <2> QED BY <1>2, <2>8, <2>9, <2>11 DEF FactInv
<1> QED BY <1>6, <1>7

-----------------------------------------------------------------------------
(* How much of the text was taken *)

Origin == [from : {"text", "answer", "failure"}, size : Int]
ReachOf(from, i) ==
  CASE from = "text" -> Size(i)
    [] from = "answer" -> Beginning(i, PromptSize)
    [] from = "failure" -> Beginning(i, FallbackSize)
HasFacts(notes, fs) == \A k \in 1..Len(notes) : notes[k][1] \in 1..Len(fs) /\ fs[notes[k][1]] # <<>>
Measured(i) == taken[i].size = IF facts[i] = <<>> THEN 0 ELSE ReachOf(taken[i].from, i)

\* Every piece that was dealt with has its origin and size on record; notes are of pieces with facts.
TakenInv ==
  /\ taken \in Seq(Origin) /\ Len(taken) = Len(facts)
  /\ \A i \in 1..Len(facts) : Measured(i)
  /\ HasFacts(factNotes, facts)

FactAll == FactInv /\ TakenInv

LEMMA LengthIsInt ==
  ASSUME NEW doc \in Seq(Nat), NEW p \in Seq(1..Len(doc)), NEW sep \in Nat
  PROVE PieceLength(doc, p, sep) \in Int
<1>1. TotalCost(doc, p, sep) \in Int
  <2>1. CASE Len(doc) = 0
    <3>1. p = <<>> BY <2>1
    <3> QED BY <3>1, TotalEmpty
  <2>2. CASE Len(doc) # 0
    <3>1. 1 \in 1..Len(doc) BY <2>2
    <3> QED BY <3>1, TotalAppend
  <2> QED BY <2>1, <2>2
<1> QED BY <1>1 DEF PieceLength

LEMMA SplitLengths ==
  ASSUME NEW doc \in Document, NEW entry \in {"chunked", "report"}, NEW i \in 1..Len(Split(doc, entry))
  PROVE PieceLength(doc, Split(doc, entry)[i], Separator(entry)) \in Int
<1>1. Split(doc, entry) \in Seq(Seq(1..Len(doc))) BY SplitFacts
<1>2. Split(doc, entry)[i] \in Seq(1..Len(doc)) BY <1>1
<1>3. doc \in Seq(Nat) /\ Separator(entry) \in Nat BY FactConstants DEF Separator
<1> QED BY <1>2, <1>3, LengthIsInt

LEMMA ReachStays ==
  ASSUME text' = text, pieces' = pieces
  PROVE \A from, i : ReachOf(from, i)' = ReachOf(from, i)
BY DEF ReachOf, Beginning, Size

LEMMA MeasuredThen ==
  ASSUME NEW i, NEW from, NEW size, taken'[i].from = from, taken'[i].size = IF facts'[i] = <<>> THEN 0 ELSE size,
         ReachOf(from, i)' = size
  PROVE Measured(i)'
BY DEF Measured, ReachOf, Beginning, Size

\* What is said of one more piece.
LEMMA TakenGrows ==
  ASSUME FactTypes, TakenInv, text' = text, pieces' = pieces, NEW f \in Seq(Int), NEW t \in Origin,
         facts' = Append(facts, f), taken' = Append(taken, t),
         t.size = IF f = <<>> THEN 0 ELSE ReachOf(t.from, Len(facts) + 1), HasFacts(factNotes', facts)
  PROVE TakenInv'
<1> DEFINE n == Len(facts)
<1>1. facts \in Seq(Seq(Int)) /\ taken \in Seq(Origin) /\ Len(taken) = n /\ n \in Nat BY DEF FactTypes, TakenInv
<1>2. /\ facts' \in Seq(Seq(Int)) /\ Len(facts') = n + 1 /\ facts'[n + 1] = f /\ \A i \in 1..n : facts'[i] = facts[i]
  BY <1>1, AppendEntries
<1>3. /\ taken' \in Seq(Origin) /\ Len(taken') = n + 1 /\ taken'[n + 1] = t /\ \A i \in 1..n : taken'[i] = taken[i]
  BY <1>1, AppendEntries
<1>4. t.size = IF f = <<>> THEN 0 ELSE ReachOf(t.from, n + 1) OBVIOUS
<1>5. \A i \in 1..n : taken[i].size = IF facts[i] = <<>> THEN 0 ELSE ReachOf(taken[i].from, i) BY DEF TakenInv, Measured
<1>6. \A k \in 1..Len(factNotes') : factNotes'[k][1] \in 1..n /\ facts[factNotes'[k][1]] # <<>> BY DEF HasFacts
<1> HIDE DEF n
<1>7. \A i \in 1..n + 1 : i = n + 1 \/ i \in 1..n BY <1>1
<1>8. ASSUME NEW i \in 1..n + 1 PROVE Measured(i)'
  <2>1. PICK from, size : from = taken'[i].from /\ size = ReachOf(from, i) OBVIOUS
  <2>2. taken'[i].size = IF facts'[i] = <<>> THEN 0 ELSE size
    <3>1. CASE i = n + 1 BY <1>2, <1>3, <1>4, <2>1, <3>1
    <3>2. CASE i \in 1..n BY <1>2, <1>3, <1>5, <2>1, <3>2
    <3> QED BY <1>7, <3>1, <3>2
  <2>3. ReachOf(from, i)' = size BY <2>1, ReachStays
  <2> QED BY <2>1, <2>2, <2>3, MeasuredThen
<1>9. HasFacts(factNotes', facts')
  <2>1. \A j \in 1..n : j \in 1..n + 1 BY <1>1
  <2> QED BY <1>2, <1>6, <2>1 DEF HasFacts
<1> QED BY <1>2, <1>3, <1>8, <1>9 DEF TakenInv

LEMMA TakenStays ==
  ASSUME TakenInv, text' = text, pieces' = pieces, facts' = facts, taken' = taken, HasFacts(factNotes', facts)
  PROVE TakenInv'
<1>1. ASSUME NEW i \in 1..Len(facts) PROVE Measured(i)' BY DEF TakenInv, Measured, ReachOf, Beginning, Size
<1>2. HasFacts(factNotes', facts') BY DEF HasFacts
<1> QED BY <1>1, <1>2 DEF TakenInv

\* A note stored while a fact is applied is of a piece with facts.
LEMMA NoteOfFacts ==
  ASSUME FactAll, stage = "apply", factNotes' = factNotes \/ factNotes' = Append(factNotes, Ref)
  PROVE HasFacts(factNotes', facts)
<1>1. FactTypes /\ FactPlace /\ TakenInv BY DEF FactAll, FactInv
<1>2. piece \in Nat \ {0} /\ results \in Seq(Outcome) /\ factNotes \in Seq(Nat \X Nat) /\ facts \in Seq(Seq(Int))
  BY <1>1 DEF FactTypes
<1>3. Len(facts) = piece /\ Settled < Len(facts[piece]) /\ Settled \in Nat BY <1>1, <1>2, SettledCounts DEF FactPlace
<1>4. piece \in 1..Len(facts) /\ facts[piece] # <<>>
  <2>1. Len(<<>>) = 0 OBVIOUS
  <2> QED BY <1>2, <1>3, <2>1
<1>5. HasFacts(factNotes, facts) BY <1>1 DEF TakenInv
<1>6. CASE factNotes' = factNotes BY <1>5, <1>6
<1>7. CASE factNotes' = Append(factNotes, Ref)
  <2> DEFINE n == Len(factNotes)
             x == <<piece, Settled + 1>>
  <2>1. x \in Nat \X Nat /\ x[1] = piece /\ Ref = x BY <1>2, <1>3 DEF Ref
  <2> HIDE DEF x
  <2>2. n \in Nat /\ Len(factNotes') = n + 1 /\ factNotes'[n + 1] = x /\ \A k \in 1..n : factNotes'[k] = factNotes[k]
    BY <1>2, <1>7, <2>1, AppendEntries
  <2>3. \A k \in 1..n + 1 : k = n + 1 \/ k \in 1..n BY <2>2
  <2> QED BY <1>4, <1>5, <2>1, <2>2, <2>3 DEF HasFacts
<1> QED BY <1>6, <1>7

LEMMA StartTakes == ASSUME FactAll, Start PROVE TakenInv'
<1>1. FactTypes /\ FactPlace /\ TakenInv BY DEF FactAll, FactInv
<1>2. text.doc \in Document /\ text.entry \in {"chunked", "report"} BY <1>1 DEF FactTypes
<1>3. text' = text /\ factNotes' = factNotes /\ pieces' = Split(text.doc, text.entry) /\ facts = <<>>
  BY <1>1 DEF Start, FactPlace
<1>4. factNotes = <<>>
  <2>1. factNotes \in Seq(Nat \X Nat) /\ Len(facts) = 0 BY <1>1, <1>3 DEF FactTypes
  <2>2. Len(factNotes) \in Nat /\ \A k \in 1..Len(factNotes) : k \notin 1..Len(factNotes)
    <3>1. \A k \in 1..Len(factNotes) : factNotes[k][1] \in 1..0 BY <1>1, <2>1 DEF TakenInv, HasFacts
    <3> QED BY <2>1, <3>1
  <2>3. Len(factNotes) = 0
    <3>1. ASSUME Len(factNotes) # 0 PROVE FALSE
      <4>1. 1 \in 1..Len(factNotes) BY <2>2, <3>1
      <4> QED BY <2>2, <4>1
    <3> QED BY <3>1
  <2> QED BY <2>1, <2>3
<1>5. HasFacts(factNotes', facts')
  <2>1. \A k : k \notin 1..Len(<<>>) OBVIOUS
  <2> QED BY <1>3, <1>4, <2>1 DEF HasFacts
<1>6. CASE text.entry = "chunked"
  <2> DEFINE t == Whole(text.doc, pieces'[1])
             f == <<MinImportance>>
  <2>1. taken' = <<t>> /\ facts' = <<f>> BY <1>6 DEF Start
  <2>2. 1 \in 1..Len(Split(text.doc, text.entry))
    <3>1. Len(Split(text.doc, text.entry)) >= 1 /\ Split(text.doc, text.entry) \in Seq(Seq(1..Len(text.doc))) BY <1>2, SplitFacts
    <3>2. Len(Split(text.doc, text.entry)) \in Nat BY <3>1
    <3> QED BY <3>1, <3>2
  <2>3. PieceLength(text.doc, pieces'[1], Separator(text.entry)) \in Int BY <1>2, <1>3, <2>2, SplitLengths
  <2>4. t \in Origin /\ t.from = "text" /\ t.size = Size(1)' BY <1>3, <1>6, <2>3 DEF Whole, Origin, Size
  <2>5. f # <<>> OBVIOUS
  <2> HIDE DEF t, f
  <2>6. /\ taken' \in Seq(Origin) /\ Len(taken') = 1 /\ Len(facts') = 1 /\ taken'[1] = t /\ facts'[1] = f
    BY <2>1, <2>4
  <2>7. Measured(1)' BY <2>4, <2>5, <2>6 DEF Measured, ReachOf
  <2>8. \A i \in 1..1 : i = 1 OBVIOUS
  <2>9. \A i \in 1..Len(facts') : Measured(i)'
    <3>1. \A i \in 1..Len(facts') : i = 1 BY <2>6, <2>8
    <3> QED BY <2>7, <3>1
  <2> QED BY <1>5, <2>6, <2>9 DEF TakenInv
<1>7. CASE text.entry # "chunked"
  <2>1. taken' = <<>> /\ facts' = <<>> BY <1>7 DEF Start
  <2>2. <<>> \in Seq(Origin) /\ Len(<<>>) = 0 /\ \A i : i \notin 1..0 OBVIOUS
  <2> QED BY <1>5, <2>1, <2>2 DEF TakenInv
<1> QED BY <1>6, <1>7

LEMMA ExtractTakes == ASSUME FactAll, Extract PROVE TakenInv'
<1>1. FactTypes /\ FactPlace /\ TakenInv BY DEF FactAll, FactInv
<1>2. PICK answer \in AnswerLists \cup {<<5>>}, from \in {"answer", "failure"} :
        Takes(answer, from, IF from = "answer" THEN PromptSize ELSE FallbackSize)
  <2>1. (\E answer \in AnswerLists : Takes(answer, "answer", PromptSize)) \/ Takes(<<5>>, "failure", FallbackSize)
    BY DEF Extract
  <2>2. "failure" # "answer" OBVIOUS
  <2> QED BY <2>1, <2>2
<1>3. stage = "extract" /\ text' = text /\ pieces' = pieces /\ factNotes' = factNotes BY DEF Extract
<1> DEFINE f == Kept(answer)
           most == IF from = "answer" THEN PromptSize ELSE FallbackSize
           size == IF f = <<>> THEN 0 ELSE Beginning(piece, most)
           t == [from |-> from, size |-> size]
<1>4. facts' = Append(facts, f) /\ taken' = Append(taken, t) BY <1>2 DEF Takes
<1>5. f \in Seq(Int) BY KeptNumbers
<1>6. Len(facts) + 1 = piece /\ piece \in 1..Len(pieces)
  <2>1. Len(facts) = piece - 1 /\ piece <= Len(pieces) /\ piece \in Nat \ {0} /\ Len(pieces) \in Nat
    BY <1>1, <1>3 DEF FactPlace, FactTypes
  <2> QED BY <2>1
<1>7. Size(piece) \in Int
  <2>1. pieces = Split(text.doc, text.entry) /\ text.doc \in Document /\ text.entry \in {"chunked", "report"}
    BY <1>1, <1>3 DEF FactPlace, FactTypes
  <2> QED BY <1>6, <2>1, SplitLengths DEF Size
<1>8. most \in Int BY FactConstants
<1> HIDE DEF f, most
<1>9. size \in Int BY <1>7, <1>8 DEF Beginning
<1>10. size = IF f = <<>> THEN 0 ELSE ReachOf(from, piece)
  <2>1. "failure" # "answer" /\ "text" # "answer" /\ "text" # "failure" OBVIOUS
  <2>2. CASE from = "answer"
    <3>1. most = PromptSize /\ ReachOf(from, piece) = Beginning(piece, PromptSize) BY <2>1, <2>2 DEF most, ReachOf
    <3> QED BY <3>1
  <2>3. CASE from = "failure"
    <3>1. most = FallbackSize /\ ReachOf(from, piece) = Beginning(piece, FallbackSize) BY <2>1, <2>3 DEF most, ReachOf
    <3> QED BY <3>1
  <2> QED BY <2>2, <2>3
<1> HIDE DEF size
<1>11. t \in Origin /\ t.from = from /\ t.size = size BY <1>9 DEF Origin
<1>12. HasFacts(factNotes', facts) BY <1>1, <1>3 DEF TakenInv
<1> HIDE DEF t
<1>13. t.size = IF f = <<>> THEN 0 ELSE ReachOf(t.from, Len(facts) + 1) BY <1>6, <1>10, <1>11
<1> QED BY <1>1, <1>3, <1>4, <1>5, <1>11, <1>12, <1>13, TakenGrows

LEMMA ApplyTakes == ASSUME FactAll, Apply PROVE TakenInv'
<1>1. FactTypes /\ FactPlace /\ TakenInv BY DEF FactAll, FactInv
<1>2. stage = "apply" /\ text' = text /\ pieces' = pieces BY DEF Apply
<1>3. HasFacts(factNotes', facts)
  <2>1. factNotes' = factNotes \/ factNotes' = Append(factNotes, Ref) BY DEF Apply
  <2> QED BY <1>2, <2>1, NoteOfFacts
<1>4. \/ facts' = facts /\ taken' = taken
      \/ /\ text.entry = "chunked" /\ piece < Len(pieces)
         /\ facts' = Append(facts, <<MinImportance>>) /\ taken' = Append(taken, Whole(text.doc, pieces[piece + 1]))
  <2> DEFINE more == Settled + 1 < Len(Last(facts))
             next == text.entry = "chunked" /\ piece < Len(pieces)
  <2>1. IF more THEN UNCHANGED <<stage, piece, facts, taken>>
        ELSE /\ NextPiece
             /\ IF next THEN /\ facts' = Append(facts, <<MinImportance>>)
                             /\ taken' = Append(taken, Whole(text.doc, pieces[piece + 1]))
                ELSE UNCHANGED <<facts, taken>>
    BY DEF Apply
  <2>2. CASE more BY <2>1, <2>2
  <2>3. CASE ~more /\ next BY <2>1, <2>3
  <2>4. CASE ~more /\ ~next BY <2>1, <2>4
  <2> QED BY <2>2, <2>3, <2>4
<1>5. CASE facts' = facts /\ taken' = taken BY <1>1, <1>2, <1>3, <1>5, TakenStays
<1>6. CASE /\ text.entry = "chunked" /\ piece < Len(pieces)
           /\ facts' = Append(facts, <<MinImportance>>) /\ taken' = Append(taken, Whole(text.doc, pieces[piece + 1]))
  <2> DEFINE f == <<MinImportance>>
             t == Whole(text.doc, pieces[piece + 1])
  <2>1. f \in Seq(Int) /\ f # <<>> BY FactConstants
  <2>2. Len(facts) = piece /\ piece + 1 \in 1..Len(pieces)
    <3>1. Len(facts) = piece /\ piece \in Nat \ {0} /\ Len(pieces) \in Nat BY <1>1, <1>2 DEF FactPlace, FactTypes
    <3> QED BY <1>6, <3>1
  <2>3. Size(piece + 1) \in Int
    <3>1. pieces = Split(text.doc, text.entry) /\ text.doc \in Document /\ text.entry \in {"chunked", "report"}
      BY <1>1, <1>2 DEF FactPlace, FactTypes
    <3> QED BY <2>2, <3>1, SplitLengths DEF Size
  <2>4. t \in Origin /\ t.from = "text" /\ t.size = Size(piece + 1) BY <1>6, <2>3 DEF Whole, Origin, Size
  <2>5. facts' = Append(facts, f) /\ taken' = Append(taken, t) BY <1>6
  <2> HIDE DEF f, t
  <2>6. t.size = IF f = <<>> THEN 0 ELSE ReachOf(t.from, Len(facts) + 1) BY <2>1, <2>2, <2>4 DEF ReachOf
  <2> QED BY <1>1, <1>2, <1>3, <2>1, <2>4, <2>5, <2>6, TakenGrows
<1> QED BY <1>4, <1>5, <1>6

LEMMA RaiseTakes == ASSUME FactAll, Refuse \/ ApplyRaises PROVE TakenInv'
<1>1. TakenInv BY DEF FactAll
<1>2. text' = text /\ pieces' = pieces /\ facts' = facts /\ taken' = taken BY DEF Refuse, ApplyRaises, Raise
<1>3. HasFacts(factNotes', facts)
  <2>1. CASE Refuse
    <3>1. factNotes' = factNotes BY <2>1 DEF Refuse
    <3> QED BY <1>1, <3>1 DEF TakenInv
  <2>2. CASE ApplyRaises
    <3>1. stage = "apply" /\ (factNotes' = factNotes \/ factNotes' = Append(factNotes, Ref)) BY <2>2 DEF ApplyRaises
    <3> QED BY <3>1, NoteOfFacts
  <2> QED BY <2>1, <2>2
<1> QED BY <1>1, <1>2, <1>3, TakenStays

LEMMA FactAllStarts == FactInit => FactAll
<1> SUFFICES ASSUME FactInit PROVE FactAll OBVIOUS
<1>1. taken = <<>> /\ facts = <<>> /\ factNotes = <<>> BY DEF FactInit
<1>2. <<>> \in Seq(Origin) /\ Len(<<>>) = 0 /\ \A i : i \notin 1..0 OBVIOUS
<1>3. TakenInv BY <1>1, <1>2 DEF TakenInv, HasFacts
<1> QED BY <1>3, FactStarts DEF FactAll

LEMMA FactKeeps == FactAll /\ [FactNext]_factVars => FactAll'
<1> SUFFICES ASSUME FactAll, [FactNext]_factVars PROVE FactAll' OBVIOUS
<1>0. FactInv /\ TakenInv BY DEF FactAll
<1>1. CASE Start BY <1>0, <1>1, StartKeeps, StartTakes DEF FactAll
<1>2. CASE Extract BY <1>0, <1>2, ExtractKeeps, ExtractTakes DEF FactAll
<1>3. CASE Refuse \/ ApplyRaises BY <1>0, <1>3, RaiseKeeps, RaiseTakes DEF FactAll
<1>4. CASE Apply BY <1>0, <1>4, ApplyKeeps, ApplyTakes DEF FactAll
<1>5. CASE UNCHANGED factVars
  <2>1. /\ text' = text /\ stage' = stage /\ pieces' = pieces /\ piece' = piece /\ facts' = facts /\ taken' = taken
        /\ results' = results /\ factNotes' = factNotes /\ replaced' = replaced
    BY <1>5 DEF factVars
  <2>2. Settled' = Settled /\ Ref' = Ref BY <2>1 DEF Settled, Ref
  <2>3. FactTypes' BY <1>0, <2>1 DEF FactInv, FactTypes
  <2>4. FactPlace' BY <1>0, <2>1, <2>2 DEF FactInv, FactPlace
  <2>5. FactInv' BY <1>0, <2>1, <2>2, <2>3, <2>4 DEF FactInv
  <2>6. HasFacts(factNotes', facts) BY <1>0, <2>1 DEF TakenInv
  <2>7. TakenInv' BY <1>0, <2>1, <2>6, TakenStays
  <2> QED BY <2>5, <2>7 DEF FactAll
<1> QED BY <1>1, <1>2, <1>3, <1>4, <1>5 DEF FactNext

LEMMA FactInvTypes == FactAll => FactTypeOK
<1> SUFFICES ASSUME FactAll PROVE FactTypeOK OBVIOUS
<1>1. FactTypes /\ FactPlace /\ TakenInv BY DEF FactAll, FactInv
<1>2. text.doc \in Document /\ text.entry \in {"chunked", "report"} BY <1>1 DEF FactTypes
<1>3. piece \in 1..Len(pieces) + 1
  <2>1. Len(pieces) \in Nat /\ piece \in Nat \ {0} /\ piece <= Len(pieces) + 1 BY <1>1 DEF FactTypes, FactPlace
  <2> QED BY <2>1
<1>4. ASSUME NEW i \in DOMAIN results PROVE results[i].status \in {"stored", "added", "updated", "corrected", "noop"}
  <2>1. results \in Seq(Outcome) BY <1>1 DEF FactTypes
  <2>2. results[i] \in Outcome BY <2>1
  <2> QED BY <2>2 DEF Outcome
<1>5. ASSUME NEW i \in DOMAIN taken PROVE taken[i].from \in {"text", "answer", "failure"} /\ taken[i].size \in Int
  <2>1. taken \in Seq(Origin) BY <1>1 DEF TakenInv
  <2>2. taken[i] \in Origin BY <2>1
  <2> QED BY <2>2 DEF Origin
<1> QED BY <1>1, <1>2, <1>3, <1>4, <1>5 DEF FactTypeOK, FactTypes, FactPlace

LEMMA FactInvTaken == FactAll => TextTakenInUpToAPoint
<1> SUFFICES ASSUME FactAll PROVE TextTakenInUpToAPoint OBVIOUS
<1>1. FactInv /\ FactTypes /\ FactPlace /\ InTurn(results, facts, piece) /\ TakenInv BY DEF FactAll, FactInv
<1>2. ASSUME stage # "idle"
      PROVE /\ FlattenSeq(pieces) = Sentences(text.doc)
            /\ \A i \in DOMAIN pieces : Fits(text.doc, pieces[i], Separator(text.entry))
  <2>1. pieces = Split(text.doc, text.entry) /\ pieces \in Seq(Seq(Nat)) BY <1>1, <1>2 DEF FactPlace, FactTypes
  <2>2. text.doc \in Document /\ text.entry \in {"chunked", "report"} BY <1>1 DEF FactTypes
  <2>3. DOMAIN pieces = 1..Len(pieces) BY <2>1
  <2>4. FlattenSeq(Split(text.doc, text.entry)) = Sentences(text.doc)
        /\ \A i \in 1..Len(Split(text.doc, text.entry)) : Fits(text.doc, Split(text.doc, text.entry)[i], Separator(text.entry))
    BY <2>2, SplitFacts
  <2> QED BY <2>1, <2>3, <2>4
<1>3. ASSUME stage = "returned"
      PROVE Len(facts) = Len(pieces) /\
            \A i \in DOMAIN pieces :
              [j \in 1..Len(facts[i]) |-> <<i, j>>] =
              Only([k \in DOMAIN results |-> <<results[k].piece, results[k].fact>>], {i} \X Nat)
  <2>1. DOMAIN pieces = 1..Len(pieces) /\ Len(pieces) \in Nat BY <1>1 DEF FactTypes
  <2>2. piece = Len(pieces) + 1 /\ Len(facts) = Len(pieces) BY <1>1, <1>3 DEF FactPlace
  <2>3. ASSUME NEW i \in DOMAIN pieces
        PROVE [j \in 1..Len(facts[i]) |-> <<i, j>>] =
              Only([k \in DOMAIN results |-> <<results[k].piece, results[k].fact>>], {i} \X Nat)
    <3>1. i \in Nat \ {0} /\ i < piece BY <2>1, <2>2
    <3>2. AnswersIn(results, i) = UpTo(i, Len(facts[i])) BY <1>1, <3>1 DEF InTurn
    <3> QED BY <3>2 DEF AnswersIn, UpTo, Pairs
  <2> QED BY <2>2, <2>3
<1>4. LET told == [i \in DOMAIN StoredResults |-> <<StoredResults[i].piece, StoredResults[i].fact>>] IN
      factNotes = told \/ (stage = "raised" /\ factNotes = Append(told, Ref))
  BY <1>1 DEF FactInv, Told, Pairs, StoredResults
<1>5. DOMAIN facts = 1..Len(facts) /\ DOMAIN factNotes = 1..Len(factNotes) BY <1>1 DEF FactTypes
<1>6. Len(taken) = Len(facts) /\ \A i \in DOMAIN facts : taken[i].size = IF facts[i] = <<>> THEN 0 ELSE Reach(i)
  <2>1. \A i : Reach(i) = ReachOf(taken[i].from, i) BY DEF Reach, ReachOf
  <2> QED BY <1>1, <1>5, <2>1 DEF TakenInv, Measured
<1>7. \A i \in DOMAIN facts : facts[i] = <<>> => \A k \in DOMAIN factNotes : factNotes[k][1] # i
  BY <1>1, <1>5 DEF TakenInv, HasFacts
<1> QED BY <1>2, <1>3, <1>4, <1>6, <1>7 DEF TextTakenInUpToAPoint

-----------------------------------------------------------------------------
\* The call of a long text keeps its variables well formed.
THEOREM FactTypeCorrect == FactSpec => []FactTypeOK
<1>1. FactInit => FactAll BY FactAllStarts
<1>2. FactAll /\ [FactNext]_factVars => FactAll' BY FactKeeps
<1>3. FactAll => FactTypeOK BY FactInvTypes
<1> QED BY <1>1, <1>2, <1>3, PTL DEF FactSpec

\* For texts of any number of sentences of any lengths, any answers of the LLM and any sizes of
\* piece, prompt and fallback: the pieces are the text, in order; a call that returns has asked
\* about each of them and dealt with every fact it kept, and one that raises leaves the facts
\* before that point; what no note can be about is the end of a piece that the prompt or the
\* fallback cut off, and the pieces without a fact.
THEOREM TextTakenInCorrect == FactSpec => []TextTakenInUpToAPoint
<1>1. FactInit => FactAll BY FactAllStarts
<1>2. FactAll /\ [FactNext]_factVars => FactAll' BY FactKeeps
<1>3. FactAll => TextTakenInUpToAPoint BY FactInvTaken
<1> QED BY <1>1, <1>2, <1>3, PTL DEF FactSpec
=============================================================================
