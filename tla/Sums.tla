-------------------------------- MODULE Sums --------------------------------
(***************************************************************************)
(* Facts about finite sets and sequences that proofs of several components *)
(* need.  Sums over a finite set of numbers, which several of the models   *)
(* bound: the bytes of a store, the passages of an index; they do not      *)
(* depend on the order in which the elements are taken.  What a sequence   *)
(* has, weighs and is joined to.                                           *)
(***************************************************************************)
EXTENDS Integers, SequencesExt, FiniteSetTheorems, SequenceTheorems, TLAPS

(* Sums over a finite set.  MapThenSumSet takes the elements one by one, by a
   function on the subsets of the set; that there is such a function, and what
   it returns, is shown by taking a least counterexample. *)

\* Of a set of subsets of a finite set one has no other below it.
LEMMA MinimalSubset ==
    ASSUME NEW S, IsFiniteSet(S), NEW T, T \subseteq SUBSET S, T # {}
    PROVE  \E x \in T : \A y \in T : ~ (y \subseteq x /\ y # x)
<1>1. IsWellFoundedOn(StrictSubsetOrdering(S), SUBSET S)
  BY FS_StrictSubsetOrderingWellFounded, FS_FiniteSubsetsOfFinite
<1>2. PICK x \in T : \A y \in T : ~ (<<y, x>> \in StrictSubsetOrdering(S))
  BY <1>1, WFMin
<1> QED
  BY <1>2 DEF StrictSubsetOrdering

LEMMA LeastNumber ==
    ASSUME NEW N \in Nat, NEW T \in SUBSET (0..N), T # {}
    PROVE  \E x \in T : \A y \in T : x <= y
<1> DEFINE R == 0..N
           U == {0..x : x \in T}
<1>1. IsFiniteSet(R)
  BY FS_Interval
<1>2. U \subseteq SUBSET R
  BY SMT
<1>n. U # {}
  OBVIOUS
<1>3. \E u \in U : \A v \in U : ~(v \subseteq u /\ v # u)
  <2> HIDE DEF U, R
  <2> QED
    BY <1>1, <1>2, <1>n, MinimalSubset
<1>4. PICK u \in U : \A v \in U : ~(v \subseteq u /\ v # u)
  BY <1>3
<1>5. PICK x \in T : u = 0..x
  OBVIOUS
<1>6. ASSUME NEW y \in T, y < x PROVE FALSE
  <2>1. 0..y \in U /\ 0..y \subseteq u /\ x \notin 0..y /\ x \in 0..x
    BY <1>5, <1>6
  <2> QED
    BY <1>4, <1>5, <2>1
<1> QED
  BY <1>6

Pick(s) == CHOOSE x \in s : TRUE

LEMMA PickIn == ASSUME NEW s, s # {} PROVE Pick(s) \in s
BY Zenon DEF Pick

\* h adds F up over the subset s, element by element.
Adds(h, F, s) == h[s] = IF s = {} THEN 0 ELSE F[Pick(s)] + h[s \ {Pick(s)}]

LEMMA SumExists ==
    ASSUME NEW S, IsFiniteSet(S), NEW F \in [S -> Nat]
    PROVE  \E h \in [SUBSET S -> Nat] : \A s \in SUBSET S : Adds(h, F, s)
<1> DEFINE N == Cardinality(S)
           Up(n) == \E h \in [SUBSET S -> Nat] :
                       \A s \in SUBSET S : Cardinality(s) <= n => Adds(h, F, s)
<1>1. /\ N \in Nat
      /\ \A s \in SUBSET S : IsFiniteSet(s) /\ Cardinality(s) \in Nat /\ Cardinality(s) <= N
  BY FS_CardinalityType, FS_Subset
<1>2. Up(0)
  <2>1. [s \in SUBSET S |-> 0] \in [SUBSET S -> Nat]
    OBVIOUS
  <2>2. \A s \in SUBSET S : Cardinality(s) <= 0 => s = {}
    BY <1>1, FS_EmptySet
  <2>3. \A s \in SUBSET S : Cardinality(s) <= 0 => Adds([t \in SUBSET S |-> 0], F, s)
    BY <2>2 DEF Adds
  <2> QED
    BY <2>1, <2>3
<1>3. ASSUME NEW n \in Nat, Up(n) PROVE Up(n + 1)
  <2>1. PICK h \in [SUBSET S -> Nat] :
               \A s \in SUBSET S : Cardinality(s) <= n => Adds(h, F, s)
    BY <1>3
  <2> DEFINE g == [s \in SUBSET S |-> IF Cardinality(s) = n + 1
                                      THEN F[Pick(s)] + h[s \ {Pick(s)}] ELSE h[s]]
  <2>2. ASSUME NEW s \in SUBSET S, s # {}
        PROVE  /\ Pick(s) \in S /\ s \ {Pick(s)} \in SUBSET S
               /\ Cardinality(s \ {Pick(s)}) = Cardinality(s) - 1
    BY <1>1, <2>2, PickIn, FS_RemoveElement
  <2>3. ASSUME NEW s \in SUBSET S, Cardinality(s) = n + 1 PROVE s # {}
    <3>1. Cardinality({}) = 0 /\ n + 1 # 0
      BY FS_EmptySet
    <3> QED
      BY <2>3, <3>1, Zenon
  <2>4. g \in [SUBSET S -> Nat]
    <3>1. ASSUME NEW s \in SUBSET S, Cardinality(s) = n + 1
          PROVE  F[Pick(s)] + h[s \ {Pick(s)}] \in Nat
      <4>1. F[Pick(s)] \in Nat /\ h[s \ {Pick(s)}] \in Nat
        BY <2>2, <2>3, <3>1
      <4> QED
        BY <4>1
    <3> QED
      BY <3>1
  <2>5. ASSUME NEW s \in SUBSET S, Cardinality(s) <= n + 1 PROVE Adds(g, F, s)
    <3>1. CASE s = {}
      <4>1. Cardinality(s) = 0 /\ g[s] = h[s]
        BY <3>1, FS_EmptySet
      <4>2. Adds(h, F, s)
        BY <2>1, <4>1
      <4> QED
        BY <3>1, <4>1, <4>2 DEF Adds
    <3>2. CASE s # {}
      <4>1. /\ Pick(s) \in S /\ s \ {Pick(s)} \in SUBSET S
            /\ Cardinality(s \ {Pick(s)}) = Cardinality(s) - 1
        BY <2>2, <3>2
      <4>2. g[s \ {Pick(s)}] = h[s \ {Pick(s)}]
        BY <1>1, <2>5, <4>1
      <4>3. g[s] = F[Pick(s)] + h[s \ {Pick(s)}]
        <5>1. CASE Cardinality(s) = n + 1
          BY <5>1
        <5>2. CASE Cardinality(s) # n + 1
          <6>1. Adds(h, F, s) /\ g[s] = h[s]
            BY <1>1, <2>1, <2>5, <5>2
          <6> QED
            BY <3>2, <6>1 DEF Adds
        <5> QED
          BY <5>1, <5>2
      <4> HIDE DEF g
      <4> QED
        BY <3>2, <4>2, <4>3 DEF Adds
    <3> QED
      BY <3>1, <3>2
  <2> HIDE DEF g
  <2> QED
    BY <2>4, <2>5
<1>4. Up(N)
  <2> SUFFICES ASSUME ~Up(N) PROVE FALSE
    OBVIOUS
  <2> DEFINE Bad == {n \in 0..N : ~Up(n)}
  <2> HIDE DEF Up
  <2>1. PICK n \in Bad : \A m \in Bad : n <= m
    <3>1. Bad \in SUBSET (0..N) /\ N \in Bad
      BY <1>1
    <3> HIDE DEF Bad
    <3> QED
      BY <1>1, <3>1, LeastNumber
  <2>2. n # 0
    BY <1>2, <2>1
  <2>3. n - 1 \in 0..N /\ n - 1 \notin Bad
    BY <1>1, <2>1, <2>2
  <2>4. Up(n - 1 + 1)
    BY <1>1, <1>3, <2>1, <2>2, <2>3
  <2> QED
    BY <1>1, <2>1, <2>4
<1> QED
  BY <1>1, <1>4

\* The sums of F, for every subset of its domain.
SumOver(F) == CHOOSE h \in [SUBSET DOMAIN F -> Nat] : \A s \in SUBSET DOMAIN F : Adds(h, F, s)

LEMMA SumType ==
    ASSUME NEW S, IsFiniteSet(S), NEW F \in [S -> Nat]
    PROVE  /\ SumOver(F) \in [SUBSET S -> Nat]
           /\ \A s \in SUBSET S : Adds(SumOver(F), F, s)
BY SumExists, Zenon DEF SumOver

LEMMA SumIsNat ==
    ASSUME NEW S, IsFiniteSet(S), NEW F \in [S -> Nat], NEW s \in SUBSET S
    PROVE  SumOver(F)[s] \in Nat
<1>1. SumOver(F) \in [SUBSET S -> Nat]
  BY SumType
<1> QED
  BY <1>1

\* What adds F up over the subsets of T is the sum of F there.
LEMMA SumUnique ==
    ASSUME NEW S, IsFiniteSet(S), NEW F \in [S -> Nat], NEW T \in SUBSET S,
           NEW g, \A s \in SUBSET T : Adds(g, F, s)
    PROVE  \A s \in SUBSET T : g[s] = SumOver(F)[s]
<1> DEFINE h == SumOver(F)
           Bad == {s \in SUBSET T : g[s] # h[s]}
<1>1. \A s \in SUBSET S : Adds(h, F, s)
  BY SumType
<1> HIDE DEF h
<1> SUFFICES ASSUME Bad # {} PROVE FALSE
  BY DEF h
<1>2. IsFiniteSet(T)
  BY FS_Subset
<1>3. PICK s \in Bad : \A t \in Bad : ~(t \subseteq s /\ t # s)
  <2>1. Bad \subseteq SUBSET T
    OBVIOUS
  <2> HIDE DEF Bad
  <2> QED
    BY <1>2, <2>1, MinimalSubset
<1>4. s \in SUBSET T /\ s # {}
  BY <1>1, <1>3 DEF Adds
<1>5. s \ {Pick(s)} \notin Bad /\ s \ {Pick(s)} \in SUBSET T
  BY <1>3, <1>4, PickIn
<1>6. g[s \ {Pick(s)}] = h[s \ {Pick(s)}]
  BY <1>5
<1>7. g[s] = h[s]
  BY <1>1, <1>4, <1>6 DEF Adds
<1> QED
  BY <1>3, <1>7

\* Any element may be taken first.
LEMMA SumSplit ==
    ASSUME NEW S, IsFiniteSet(S), NEW F \in [S -> Nat], NEW s \in SUBSET S, NEW x \in s
    PROVE  SumOver(F)[s] = F[x] + SumOver(F)[s \ {x}]
<1> DEFINE h == SumOver(F)
           Bad == {u \in SUBSET S : \E y \in u : h[u] # F[y] + h[u \ {y}]}
<1>1. h \in [SUBSET S -> Nat] /\ \A u \in SUBSET S : Adds(h, F, u)
  BY SumType
<1> HIDE DEF h
<1> SUFFICES ASSUME Bad # {} PROVE FALSE
  BY DEF h
<1>2. PICK u \in Bad : \A t \in Bad : ~(t \subseteq u /\ t # u)
  <2>1. Bad \subseteq SUBSET S
    OBVIOUS
  <2> HIDE DEF Bad
  <2> QED
    BY <2>1, MinimalSubset
<1>3. PICK y \in u : h[u] # F[y] + h[u \ {y}]
  BY <1>2
<1> DEFINE p == Pick(u)
<1>4. p \in u /\ h[u] = F[p] + h[u \ {p}] /\ y # p
  BY <1>1, <1>2, <1>3, PickIn DEF Adds
<1> HIDE DEF p
<1>5. u \ {p} \notin Bad /\ u \ {y} \notin Bad
  BY <1>2, <1>3, <1>4
<1>6. u \ {p} \in SUBSET S /\ u \ {y} \in SUBSET S /\ u \ {p, y} \in SUBSET S
  BY <1>2
<1>7. y \in u \ {p} /\ (u \ {p}) \ {y} = u \ {p, y}
  BY <1>3, <1>4
<1>8. p \in u \ {y} /\ (u \ {y}) \ {p} = u \ {p, y}
  BY <1>3, <1>4
<1>9. h[u \ {p}] = F[y] + h[u \ {p, y}]
  BY <1>5, <1>6, <1>7
<1>10. h[u \ {y}] = F[p] + h[u \ {p, y}]
  BY <1>5, <1>6, <1>8
<1>11. F[y] \in Nat /\ F[p] \in Nat /\ h[u \ {p, y}] \in Nat
  BY <1>1, <1>2, <1>3, <1>4, <1>6
<1> QED
  BY <1>3, <1>4, <1>9, <1>10, <1>11

\* Numbers that are no greater, one by one, are no greater together.
LEMMA SumMonotone ==
    ASSUME NEW S, IsFiniteSet(S), NEW F \in [S -> Nat], NEW G \in [S -> Nat],
           NEW s \in SUBSET S, \A x \in s : F[x] <= G[x]
    PROVE  SumOver(F)[s] <= SumOver(G)[s]
<1> DEFINE f == SumOver(F)
           g == SumOver(G)
           Bad == {u \in SUBSET s : ~(f[u] <= g[u])}
<1>1. /\ f \in [SUBSET S -> Nat] /\ \A u \in SUBSET S : Adds(f, F, u)
      /\ g \in [SUBSET S -> Nat] /\ \A u \in SUBSET S : Adds(g, G, u)
  BY SumType
<1> HIDE DEF f, g
<1> SUFFICES ASSUME Bad # {} PROVE FALSE
  BY DEF f, g
<1>2. IsFiniteSet(s)
  BY FS_Subset
<1>3. PICK u \in Bad : \A t \in Bad : ~(t \subseteq u /\ t # u)
  <2>1. Bad \subseteq SUBSET s
    OBVIOUS
  <2> HIDE DEF Bad
  <2> QED
    BY <1>2, <2>1, MinimalSubset
<1>4. u \in SUBSET S /\ u \in SUBSET s
  BY <1>3
<1>5. u # {}
  <2> SUFFICES ASSUME u = {} PROVE FALSE
    OBVIOUS
  <2>1. f[u] = 0 /\ g[u] = 0
    BY <1>1, <1>4, Zenon DEF Adds
  <2> QED
    BY <1>3, <2>1
<1> DEFINE p == Pick(u)
<1>6. p \in u /\ f[u] = F[p] + f[u \ {p}] /\ g[u] = G[p] + g[u \ {p}]
  BY <1>1, <1>4, <1>5, PickIn DEF Adds
<1> HIDE DEF p
<1>7. u \ {p} \notin Bad /\ u \ {p} \in SUBSET s /\ u \ {p} \in SUBSET S
  BY <1>3, <1>4, <1>6
<1>8. f[u \ {p}] <= g[u \ {p}]
  BY <1>7
<1>9. /\ F[p] \in Nat /\ G[p] \in Nat /\ F[p] <= G[p]
      /\ f[u \ {p}] \in Nat /\ g[u \ {p}] \in Nat
  BY <1>1, <1>4, <1>6, <1>7
<1>10. f[u] <= g[u]
  BY <1>6, <1>8, <1>9
<1> QED
  BY <1>3, <1>10

LEMMA SumOfZeros ==
    ASSUME NEW S, IsFiniteSet(S), NEW F \in [S -> Nat], \A x \in S : F[x] = 0
    PROVE  SumOver(F)[S] = 0
<1> DEFINE Z == [x \in S |-> 0]
           h == [s \in SUBSET S |-> 0]
<1>1. F = Z
  OBVIOUS
<1>2. \A s \in SUBSET S : s # {} => Pick(s) \in S /\ s \ {Pick(s)} \in SUBSET S
  BY PickIn
<1>3. \A s \in SUBSET S : Adds(h, F, s)
  BY <1>2 DEF Adds
<1>4. h[S] = SumOver(F)[S]
  <2>1. S \in SUBSET S
    OBVIOUS
  <2> HIDE DEF h, Z
  <2> QED
    BY <1>3, <2>1, SumUnique
<1> QED
  BY <1>4

\* A set can be filled up to any size its superset allows.
LEMMA FilledUp ==
    ASSUME NEW S, IsFiniteSet(S), NEW T \in SUBSET S, NEW n \in Nat,
           Cardinality(T) <= n, n <= Cardinality(S)
    PROVE  \E U \in SUBSET S : T \subseteq U /\ Cardinality(U) = n
<1> DEFINE Larger == {U \in SUBSET S : T \subseteq U /\ n <= Cardinality(U)}
<1>1. Larger \subseteq SUBSET S /\ Larger # {}
  OBVIOUS
<1>2. \E U \in Larger : \A V \in Larger : ~(V \subseteq U /\ V # U)
  <2> HIDE DEF Larger
  <2> QED
    BY <1>1, MinimalSubset
<1>a. PICK U \in Larger : \A V \in Larger : ~(V \subseteq U /\ V # U)
  BY <1>2
<1>3. IsFiniteSet(U) /\ IsFiniteSet(T) /\ Cardinality(U) \in Nat /\ Cardinality(T) \in Nat
  BY FS_Subset, FS_CardinalityType
<1>4. CASE U = T
  BY <1>3, <1>4
<1>5. CASE U # T
  <2>1. PICK x \in U : x \notin T
    BY <1>5
  <2>2. Cardinality(U \ {x}) = Cardinality(U) - 1 /\ U \ {x} \in SUBSET S
    BY <1>3, <2>1, FS_RemoveElement
  <2>3. U \ {x} \notin Larger
    BY <1>a, <2>1
  <2>4. Cardinality(U) = n
    BY <1>3, <2>1, <2>2, <2>3
  <2> QED
    BY <2>4
<1> QED
  BY <1>4, <1>5

-----------------------------------------------------------------------------
(* What is left of a sequence without one of its elements *)

LEMMA WithoutShape ==
    ASSUME NEW S, NEW s \in Seq(S), NEW i \in DOMAIN s
    PROVE  /\ RemoveAt(s, i) \in Seq(S)
           /\ Len(RemoveAt(s, i)) = Len(s) - 1
           /\ \A n \in 1 .. Len(s) - 1 :
                 RemoveAt(s, i)[n] = IF n < i THEN s[n] ELSE s[n + 1]
<1> DEFINE u == SubSeq(s, 1, i - 1)
           v == SubSeq(s, i + 1, Len(s))
<1>0. i \in 1 .. Len(s) /\ Len(s) \in Nat
  OBVIOUS
<1>1. /\ u \in Seq(S) /\ Len(u) = i - 1
      /\ \A n \in 1 .. i - 1 : u[n] = s[n]
  BY <1>0
<1>2. /\ v \in Seq(S) /\ Len(v) = Len(s) - i
      /\ \A n \in 1 .. Len(s) - i : v[n] = s[n + i]
  BY <1>0
<1>3. RemoveAt(s, i) = u \o v
  BY DEF RemoveAt
<1> HIDE DEF u, v
<1>4. /\ u \o v \in Seq(S) /\ Len(u \o v) = Len(s) - 1
      /\ \A n \in 1 .. i - 1 : (u \o v)[n] = u[n]
      /\ \A n \in i .. Len(s) - 1 : (u \o v)[n] = v[n - (i - 1)]
  BY <1>0, <1>1, <1>2
<1>5. \A n \in i .. Len(s) - 1 : v[n - (i - 1)] = s[n + 1]
  BY <1>0, <1>2
<1> DEFINE t == RemoveAt(s, i)
<1>6. /\ t \in Seq(S) /\ Len(t) = Len(s) - 1
      /\ \A n \in 1 .. i - 1 : t[n] = u[n]
      /\ \A n \in i .. Len(s) - 1 : t[n] = v[n - (i - 1)]
  BY <1>3, <1>4
<1> HIDE DEF t
<1>7. ASSUME NEW n \in 1 .. Len(s) - 1 PROVE t[n] = IF n < i THEN s[n] ELSE s[n + 1]
  <2>1. CASE n < i
    <3>1. n \in 1 .. i - 1
      BY <1>0, <2>1
    <3> QED
      BY <1>1, <1>6, <2>1, <3>1
  <2>2. CASE ~(n < i)
    <3>1. n \in i .. Len(s) - 1
      BY <1>0, <2>2
    <3> QED
      BY <1>5, <1>6, <2>2, <3>1
  <2> QED
    BY <2>1, <2>2
<1> QED
  BY <1>6, <1>7 DEF t

-----------------------------------------------------------------------------
(* How often a sequence has an element *)

\* Where a sequence has one of these elements, and how often.
Hits(s, T) == {n \in DOMAIN s : s[n] \in T}
Times(s, T) == Cardinality(Hits(s, T))

LEMMA TimesType ==
    ASSUME NEW S, NEW s \in Seq(S), NEW T
    PROVE  IsFiniteSet(Hits(s, T)) /\ Times(s, T) \in Nat
<1>1. Hits(s, T) \in SUBSET (1 .. Len(s)) /\ IsFiniteSet(1 .. Len(s))
  BY FS_Interval DEF Hits
<1> QED
  BY <1>1, FS_Subset, FS_CardinalityType DEF Times

LEMMA TimesAppended ==
    ASSUME NEW S, NEW s \in Seq(S), NEW x \in S, NEW T
    PROVE  Times(Append(s, x), T) = Times(s, T) + (IF x \in T THEN 1 ELSE 0)
<1>1. Times(s, T) \in Nat /\ IsFiniteSet(Hits(s, T))
  BY TimesType
<1>2. /\ Append(s, x) \in Seq(S) /\ Len(Append(s, x)) = Len(s) + 1
      /\ \A n \in 1 .. Len(s) : Append(s, x)[n] = s[n]
      /\ Append(s, x)[Len(s) + 1] = x
  OBVIOUS
<1>3. Len(s) + 1 \notin Hits(s, T)
  BY DEF Hits
<1>4. CASE x \in T
  <2>1. Hits(Append(s, x), T) = Hits(s, T) \cup {Len(s) + 1}
    BY <1>2, <1>4 DEF Hits
  <2> QED
    BY <1>1, <1>3, <1>4, <2>1, FS_AddElement DEF Times
<1>5. CASE x \notin T
  <2>1. Hits(Append(s, x), T) = Hits(s, T)
    BY <1>2, <1>5 DEF Hits
  <2> QED
    BY <1>1, <1>5, <2>1 DEF Times
<1> QED
  BY <1>4, <1>5

LEMMA TimesReplaced ==
    ASSUME NEW S, NEW s \in Seq(S), NEW i \in DOMAIN s, NEW x \in S, NEW T, s[i] \notin T
    PROVE  Times([s EXCEPT ![i] = x], T) = Times(s, T) + (IF x \in T THEN 1 ELSE 0)
<1>1. Times(s, T) \in Nat /\ IsFiniteSet(Hits(s, T))
  BY TimesType
<1>2. i \notin Hits(s, T)
  BY DEF Hits
<1>3. CASE x \in T
  <2>1. Hits([s EXCEPT ![i] = x], T) = Hits(s, T) \cup {i}
    BY <1>3 DEF Hits
  <2> QED
    BY <1>1, <1>2, <1>3, <2>1, FS_AddElement DEF Times
<1>4. CASE x \notin T
  <2>1. Hits([s EXCEPT ![i] = x], T) = Hits(s, T)
    BY <1>4 DEF Hits
  <2> QED
    BY <1>1, <1>4, <2>1 DEF Times
<1> QED
  BY <1>3, <1>4

-----------------------------------------------------------------------------
(* Functions that are made step by step *)

\* Counting up to n.
LEMMA Upwards ==
    ASSUME NEW n \in Nat, NEW T, 0 \in T, \A i \in 1..n : i - 1 \in T => i \in T
    PROVE  \A i \in 0..n : i \in T
<1> DEFINE B == {i \in 0..n : i \notin T}
<1>1. SUFFICES ASSUME B # {} PROVE FALSE
  OBVIOUS
<1>2. \E x \in B : \A y \in B : x <= y
  <2>1. B \in SUBSET (0..n)
    OBVIOUS
  <2> HIDE DEF B
  <2> QED
    BY <1>1, <2>1, LeastNumber
<1>3. PICK i \in B : \A y \in B : i <= y
  BY <1>2
<1>4. i \in 0..n /\ i \notin T /\ i # 0
  BY <1>3
<1>5. i \in 1..n /\ i - 1 \in 0..n /\ i - 1 < i
  BY <1>4
<1>6. i - 1 \in T
  <2>1. i - 1 \notin B
    <3> HIDE DEF B
    <3> QED
      BY <1>3, <1>5
  <2> QED
    BY <1>5, <2>1
<1> QED
  BY <1>4, <1>5, <1>6

\* A function that is made step by step from its first value exists.
LEMMA Iterates ==
    ASSUME NEW S, NEW z \in S, NEW n \in Nat, NEW g \in [1..n -> [S -> S]]
    PROVE  \E f \in [0..n -> S] : f[0] = z /\ \A i \in 1..n : f[i] = g[i][f[i - 1]]
<1> DEFINE Made(f, m) == /\ f \in [0..m -> S] /\ f[0] = z
                         /\ \A i \in 1..m : f[i] = g[i][f[i - 1]]
           T == {m \in 0..n : ~ \E f : Made(f, m)}
<1>1. SUFFICES ASSUME T # {} PROVE FALSE
  <2>1. n \in 0..n
    OBVIOUS
  <2>2. \E f : Made(f, n)
    BY <2>1
  <2> QED
    BY <2>2
<1>2. \E x \in T : \A y \in T : x <= y
  <2>1. T \in SUBSET (0..n)
    OBVIOUS
  <2> HIDE DEF T
  <2> QED
    BY <1>1, <2>1, LeastNumber
<1>3. PICK m \in T : \A y \in T : m <= y
  BY <1>2
<1>4. m \in Nat /\ m \in 0..n /\ ~ \E f : Made(f, m)
  BY <1>3
<1>5. CASE m = 0
  <2> DEFINE f == [i \in 0..0 |-> z]
  <2>1. Made(f, 0)
    OBVIOUS
  <2> QED
    BY <1>4, <1>5, <2>1
<1>6. CASE m # 0
  <2>1. m - 1 \in 0..n /\ m - 1 \in Nat /\ m - 1 < m /\ m \in 1..n
    BY <1>4, <1>6
  <2>2. m - 1 \notin T
    <3> HIDE DEF T
    <3> QED
      BY <1>3, <1>4, <2>1
  <2>3. PICK h : Made(h, m - 1)
    BY <2>1, <2>2
  <2> DEFINE f == [i \in 0..m |-> IF i = m THEN g[m][h[m - 1]] ELSE h[i]]
  <2>4. h \in [0..(m - 1) -> S] /\ h[0] = z /\ \A i \in 1..(m - 1) : h[i] = g[i][h[i - 1]]
    BY <2>3
  <2>5. m - 1 \in 0..(m - 1) /\ h[m - 1] \in S
    BY <2>1, <2>4
  <2>6. g[m] \in [S -> S]
    BY <2>1
  <2>7. g[m][h[m - 1]] \in S
    BY <2>5, <2>6
  <2>8. \A i \in 0..m : i # m => i \in 0..(m - 1)
    BY <2>1
  <2>9. \A i \in 0..m : f[i] = IF i = m THEN g[m][h[m - 1]] ELSE h[i]
    OBVIOUS
  <2>10. f \in [0..m -> S]
    BY <2>4, <2>7, <2>8
  <2> HIDE DEF f
  <2>11. f[0] = z
    BY <1>4, <1>6, <2>4, <2>9
  <2>12. ASSUME NEW i \in 1..m PROVE f[i] = g[i][f[i - 1]]
    <3>1. i \in 0..m /\ i - 1 \in 0..m /\ i - 1 # m
      BY <1>4
    <3>2. f[i - 1] = h[i - 1]
      BY <2>9, <3>1
    <3>3. CASE i = m
      BY <2>9, <3>1, <3>2, <3>3
    <3>4. CASE i # m
      <4>1. i \in 1..(m - 1)
        BY <1>4, <3>4
      <4> QED
        BY <2>4, <2>9, <3>1, <3>2, <3>4, <4>1
    <3> QED
      BY <3>3, <3>4
  <2>13. Made(f, m)
    BY <2>10, <2>11, <2>12
  <2> QED
    BY <1>4, <2>13
<1> QED
  BY <1>5, <1>6

\* Such a function stays where its steps stay.
LEMMA Iteration ==
    ASSUME NEW S, NEW n \in Nat, NEW f, f[0] \in S,
           \A i \in 1..n : f[i - 1] \in S => f[i] \in S
    PROVE  \A i \in 0..n : f[i] \in S
<1> DEFINE T == {i \in 0..n : f[i] \notin S}
<1>1. SUFFICES ASSUME T # {} PROVE FALSE
  OBVIOUS
<1>2. \E x \in T : \A y \in T : x <= y
  <2>1. T \in SUBSET (0..n)
    OBVIOUS
  <2> HIDE DEF T
  <2> QED
    BY <1>1, <2>1, LeastNumber
<1>3. PICK i \in T : \A y \in T : i <= y
  BY <1>2
<1>4. i \in 0..n /\ f[i] \notin S
  BY <1>3
<1>5. i # 0
  BY <1>4
<1>6. i \in 1..n /\ i - 1 \in 0..n /\ i - 1 < i
  BY <1>4, <1>5
<1>7. i - 1 \notin T
  BY <1>3, <1>6
<1>8. f[i - 1] \in S
  BY <1>6, <1>7
<1> QED
  BY <1>4, <1>6, <1>8

-----------------------------------------------------------------------------
(* What a sequence of sequences is joined to *)

\* The first i members of s, one after the other.
Joined(s, i) == FlattenSeq([k \in 1..i |-> s[k]])

\* f joins up to m members of s.
Joins(f, s, m) ==
    f = [i \in 1..m |-> IF i = 1 THEN s[i] ELSE f[i - 1] \o s[i]]

LEMMA JoinsAt ==
    ASSUME NEW f, NEW s, NEW m \in Nat, Joins(f, s, m)
    PROVE  /\ DOMAIN f = 1..m
           /\ m >= 1 => f[1] = s[1]
           /\ \A i \in 2..m : f[i] = f[i - 1] \o s[i]
<1>1. /\ f = [i \in 1..m |-> IF i = 1 THEN s[i] ELSE f[i - 1] \o s[i]]
  BY DEF Joins
<1>2. DOMAIN f = 1..m
  BY <1>1
<1>3. \A i \in 1..m : f[i] = IF i = 1 THEN s[i] ELSE f[i - 1] \o s[i]
  BY <1>1
<1>4. m >= 1 => 1 \in 1..m
  OBVIOUS
<1>5. ASSUME NEW i \in 2..m PROVE i \in 1..m /\ i # 1
  OBVIOUS
<1>6. ASSUME NEW i \in 2..m PROVE f[i] = f[i - 1] \o s[i]
  BY <1>3, <1>5
<1>7. m >= 1 => f[1] = s[1]
  BY <1>3, <1>4
<1> QED
  BY <1>2, <1>6, <1>7

LEMMA JoinsFrom ==
    ASSUME NEW f, NEW s, NEW m \in Nat, f = [i \in 1..m |-> f[i]],
           \A i \in 1..m : f[i] = IF i = 1 THEN s[i] ELSE f[i - 1] \o s[i]
    PROVE  Joins(f, s, m)
BY DEF Joins

\* There is such a function for every number of members.
LEMMA JoinsExists ==
    ASSUME NEW s, NEW n \in Nat
    PROVE  \E f : Joins(f, s, n)
<1> DEFINE T == {m \in 0..n : ~ \E f : Joins(f, s, m)}
<1>1. SUFFICES ASSUME T # {} PROVE FALSE
  OBVIOUS
<1>2. \E x \in T : \A y \in T : x <= y
  <2>1. T \in SUBSET (0..n)
    OBVIOUS
  <2> HIDE DEF T
  <2> QED
    BY <1>1, <2>1, LeastNumber
<1>3. PICK m \in T : \A y \in T : m <= y
  BY <1>2
<1>4. m \in Nat /\ m \in 0..n /\ ~ \E f : Joins(f, s, m)
  BY <1>3
<1>5. CASE m = 0
  <2> DEFINE f == [i \in 1..0 |-> s[i]]
  <2>1. Joins(f, s, 0)
    BY DEF Joins
  <2> QED
    BY <1>4, <1>5, <2>1
<1>6. CASE m # 0
  <2>1. m - 1 \in 0..n /\ m - 1 \in Nat /\ m - 1 < m
    BY <1>4, <1>6
  <2>2. m - 1 \notin T
    BY <1>3, <2>1
  <2>3. PICK g : Joins(g, s, m - 1)
    BY <2>1, <2>2
  <2> DEFINE f == [i \in 1..m |-> IF i = m THEN (IF m = 1 THEN s[1] ELSE g[m - 1] \o s[m]) ELSE g[i]]
  <2>4. \A i \in 1..m : f[i] = IF i = m THEN (IF m = 1 THEN s[1] ELSE g[m - 1] \o s[m]) ELSE g[i]
    OBVIOUS
  <2>5. /\ m - 1 >= 1 => g[1] = s[1]
        /\ \A i \in 2..(m - 1) : g[i] = g[i - 1] \o s[i]
    BY <2>1, <2>3, JoinsAt
  <2>6. f = [i \in 1..m |-> f[i]]
    OBVIOUS
  <2> HIDE DEF f
  <2>7. ASSUME NEW i \in 1..m PROVE f[i] = IF i = 1 THEN s[i] ELSE f[i - 1] \o s[i]
    <3>1. CASE i = 1 /\ m = 1
      BY <2>4, <3>1
    <3>2. CASE i = 1 /\ m # 1
      <4>1. m - 1 >= 1 /\ i # m
        BY <1>4, <1>6, <3>2
      <4> QED
        BY <2>4, <2>5, <3>2, <4>1
    <3>3. CASE i # 1 /\ i = m
      <4>1. m # 1 /\ i - 1 \in 1..m /\ i - 1 # m
        BY <1>4, <3>3
      <4> QED
        BY <2>4, <3>3, <4>1
    <3>4. CASE i # 1 /\ i # m
      <4>1. i \in 2..(m - 1) /\ i - 1 \in 1..m /\ i - 1 # m
        BY <1>4, <3>4
      <4> QED
        BY <2>4, <2>5, <3>4, <4>1
    <3> QED
      BY <3>1, <3>2, <3>3, <3>4
  <2>8. Joins(f, s, m)
    BY <1>4, <2>6, <2>7, JoinsFrom
  <2> QED
    BY <1>4, <2>8
<1> QED
  BY <1>5, <1>6

\* Two of them agree as far as both go.
LEMMA JoinsAgree ==
    ASSUME NEW s, NEW m \in Nat, NEW n \in Nat, NEW f, NEW g, Joins(f, s, m), Joins(g, s, n)
    PROVE  \A i \in 1..m : i <= n => f[i] = g[i]
<1> DEFINE T == {i \in 0..m : i \in 1..m /\ i <= n /\ f[i] # g[i]}
<1>1. SUFFICES ASSUME T # {} PROVE FALSE
  OBVIOUS
<1>2. \E x \in T : \A y \in T : x <= y
  <2>1. T \in SUBSET (0..m)
    OBVIOUS
  <2> HIDE DEF T
  <2> QED
    BY <1>1, <2>1, LeastNumber
<1>3. PICK i \in T : \A y \in T : i <= y
  BY <1>2
<1>4. i \in 1..m /\ i <= n /\ f[i] # g[i]
  BY <1>3
<1>5. CASE i = 1
  <2>1. m >= 1 /\ n >= 1
    BY <1>4, <1>5
  <2>2. f[1] = s[1] /\ g[1] = s[1]
    <3> HIDE DEF T
    <3> QED
      BY ZenonT(30), <2>1, JoinsAt
  <2> QED
    BY <1>4, <1>5, <2>2
<1>6. CASE i # 1
  <2>1. i \in 2..m /\ i \in 2..n /\ i - 1 \in 0..m /\ i - 1 \in 1..m /\ i - 1 <= n /\ i - 1 < i
    BY <1>4, <1>6
  <2>2. i - 1 \notin T
    BY <1>3, <2>1
  <2>3. f[i - 1] = g[i - 1]
    BY <2>1, <2>2
  <2>4. f[i] = f[i - 1] \o s[i] /\ g[i] = g[i - 1] \o s[i]
    BY <2>1, JoinsAt
  <2>5. f[i] = g[i]
    BY <2>3, <2>4
  <2> QED
    BY <1>4, <2>5
<1> QED
  BY <1>5, <1>6

\* FlattenSeq joins: what it returns is the last value of such a function.
LEMMA JoinedLast ==
    ASSUME NEW s, NEW n \in Nat, n >= 1, NEW f, Joins(f, s, n)
    PROVE  Joined(s, n) = f[n]
<1> DEFINE t == [k \in 1..n |-> s[k]]
<1>1. Len(t) = n /\ n # 0 /\ \A i \in 1..n : t[i] = s[i]
  OBVIOUS
<1> DEFINE g == CHOOSE g : g = [i \in 1..Len(t) |-> IF i = 1 THEN t[i] ELSE g[i - 1] \o t[i]]
<1>2. FlattenSeq(t) = g[Len(t)]
  <2> HIDE DEF t
  <2> QED
    BY <1>1 DEF FlattenSeq
<1>3. \E h : Joins(h, t, n)
  <2> HIDE DEF t
  <2> QED
    BY JoinsExists
<1>4. g = [i \in 1..Len(t) |-> IF i = 1 THEN t[i] ELSE g[i - 1] \o t[i]]
  <2> HIDE DEF t
  <2>1. \E h : h = [i \in 1..Len(t) |-> IF i = 1 THEN t[i] ELSE h[i - 1] \o t[i]]
    BY <1>1, <1>3 DEF Joins
  <2> QED
    BY <2>1, Zenon
<1>5. Joins(g, t, n)
  <2> HIDE DEF t, g
  <2> QED
    BY <1>1, <1>4 DEF Joins
<1>6. Joins(f, t, n)
  <2>1. \A i \in 1..n : f[i] = IF i = 1 THEN t[i] ELSE f[i - 1] \o t[i]
    <3> HIDE DEF t
    <3>1. f = [i \in 1..n |-> IF i = 1 THEN s[i] ELSE f[i - 1] \o s[i]]
      BY DEF Joins
    <3>2. \A i \in 1..n : f[i] = IF i = 1 THEN s[i] ELSE f[i - 1] \o s[i]
      BY <3>1
    <3> QED
      BY <1>1, <3>2
  <2>2. f = [i \in 1..n |-> f[i]]
    BY DEF Joins
  <2> HIDE DEF t
  <2> QED
    BY <2>1, <2>2, JoinsFrom
<1>7. f[n] = g[n]
  <2>1. n \in 1..n /\ n <= n
    OBVIOUS
  <2> HIDE DEF t, g
  <2> QED
    BY <1>5, <1>6, <2>1, JoinsAgree
<1> QED
  BY <1>1, <1>2, <1>7 DEF Joined

LEMMA JoinedNone == \A s : Joined(s, 0) = <<>>
<1> TAKE s
<1> DEFINE t == [k \in 1..0 |-> s[k]]
<1>1. Len(t) = 0 /\ t = <<>>
  OBVIOUS
<1> HIDE DEF t
<1>2. FlattenSeq(t) = t
  BY <1>1 DEF FlattenSeq
<1> QED
  BY <1>1, <1>2 DEF Joined, t

\* The next member comes behind.
LEMMA JoinedNext ==
    ASSUME NEW S, NEW n \in Nat, NEW s \in [1..n -> Seq(S)], NEW i \in 1..n
    PROVE  Joined(s, i) = Joined(s, i - 1) \o s[i]
<1>1. i \in Nat /\ i >= 1 /\ i - 1 \in Nat
  OBVIOUS
<1>2. PICK f : Joins(f, s, i)
  BY <1>1, JoinsExists
<1>3. Joined(s, i) = f[i]
  BY <1>1, <1>2, JoinedLast
<1>4. CASE i = 1
  <2>1. f[1] = s[1] /\ Joined(s, 0) = <<>>
    BY <1>1, <1>2, <1>4, JoinsAt, JoinedNone
  <2>2. s[1] \in Seq(S)
    BY <1>4
  <2>3. <<>> \o s[1] = s[1]
    BY <2>2
  <2> QED
    BY <1>3, <1>4, <2>1, <2>3
<1>5. CASE i # 1
  <2>1. PICK g : Joins(g, s, i - 1)
    BY <1>1, JoinsExists
  <2>2. i - 1 >= 1 /\ i - 1 \in 1..i /\ i - 1 <= i - 1 /\ i \in 2..i
    BY <1>1, <1>5
  <2>3. Joined(s, i - 1) = g[i - 1]
    BY <1>1, <2>1, <2>2, JoinedLast
  <2>4. f[i - 1] = g[i - 1]
    BY <1>1, <1>2, <2>1, <2>2, JoinsAgree
  <2>5. f[i] = f[i - 1] \o s[i]
    BY <1>1, <1>2, <2>2, JoinsAt
  <2> QED
    BY <1>3, <2>3, <2>4, <2>5
<1> QED
  BY <1>4, <1>5

LEMMA JoinedType ==
    ASSUME NEW S, NEW n \in Nat, NEW s \in [1..n -> Seq(S)]
    PROVE  \A i \in 0..n : Joined(s, i) \in Seq(S) /\ Len(Joined(s, i)) \in Nat
<1> DEFINE T == {i \in 0..n : Joined(s, i) \notin Seq(S)}
<1>1. T = {}
  <2>1. SUFFICES ASSUME T # {} PROVE FALSE
    OBVIOUS
  <2>2. \E x \in T : \A y \in T : x <= y
    <3>1. T \in SUBSET (0..n)
      OBVIOUS
    <3> HIDE DEF T
    <3> QED
      BY <2>1, <3>1, LeastNumber
  <2>3. PICK i \in T : \A y \in T : i <= y
    BY <2>2
  <2>4. i \in 0..n /\ Joined(s, i) \notin Seq(S)
    BY <2>3
  <2>5. i # 0
    <3>1. Joined(s, 0) = <<>> /\ <<>> \in Seq(S)
      BY JoinedNone
    <3> QED
      BY <2>4, <3>1
  <2>6. i \in 1..n /\ i - 1 \in 0..n /\ i - 1 < i
    BY <2>4, <2>5
  <2>7. Joined(s, i - 1) \in Seq(S)
    BY <2>3, <2>6
  <2>8. Joined(s, i) = Joined(s, i - 1) \o s[i] /\ s[i] \in Seq(S)
    BY <2>6, JoinedNext
  <2> QED
    BY <2>4, <2>7, <2>8
<1>2. \A i \in 0..n : Joined(s, i) \in Seq(S)
  BY <1>1
<1> HIDE DEF T
<1> QED
  BY <1>2

\* What was joined stays where it is.
LEMMA JoinedGrows ==
    ASSUME NEW S, NEW n \in Nat, NEW s \in [1..n -> Seq(S)], NEW i \in 0..n
    PROVE  \A k \in i..n : /\ Len(Joined(s, i)) <= Len(Joined(s, k))
                           /\ \A x \in 1..Len(Joined(s, i)) : Joined(s, k)[x] = Joined(s, i)[x]
<1> DEFINE Keeps(k) == /\ Len(Joined(s, i)) <= Len(Joined(s, k))
                       /\ \A x \in 1..Len(Joined(s, i)) : Joined(s, k)[x] = Joined(s, i)[x]
           T == {k \in 0..n : k \in i..n /\ ~Keeps(k)}
<1>1. SUFFICES ASSUME T # {} PROVE FALSE
  <2>1. \A k \in i..n : k \in 0..n
    OBVIOUS
  <2> QED
    BY <2>1
<1>2. \E x \in T : \A y \in T : x <= y
  <2>1. T \in SUBSET (0..n)
    OBVIOUS
  <2> HIDE DEF T
  <2> QED
    BY <1>1, <2>1, LeastNumber
<1>3. PICK k \in T : \A y \in T : k <= y
  BY <1>2
<1>4. k \in 0..n /\ k \in i..n /\ ~Keeps(k)
  BY <1>3
<1>5. Joined(s, i) \in Seq(S) /\ Len(Joined(s, i)) \in Nat
  BY JoinedType
<1>6. k # i
  BY <1>4, <1>5
<1>7. k \in 1..n /\ k - 1 \in 0..n /\ k - 1 \in i..n /\ k - 1 < k
  BY <1>4, <1>6
<1>8. Keeps(k - 1)
  <2> HIDE DEF Keeps
  <2> QED
    BY <1>3, <1>7
<1>9. /\ Joined(s, k) = Joined(s, k - 1) \o s[k] /\ s[k] \in Seq(S)
      /\ Joined(s, k - 1) \in Seq(S) /\ Len(Joined(s, k - 1)) \in Nat
  BY <1>7, JoinedNext, JoinedType
<1>10. /\ Len(Joined(s, k)) = Len(Joined(s, k - 1)) + Len(s[k]) /\ Len(s[k]) \in Nat
       /\ \A x \in 1..Len(Joined(s, k - 1)) : Joined(s, k)[x] = Joined(s, k - 1)[x]
  BY <1>9, ConcatProperties
<1>11. Keeps(k)
  <2>1. Len(Joined(s, i)) <= Len(Joined(s, k))
    <3>1. Len(Joined(s, i)) <= Len(Joined(s, k - 1))
      BY <1>8
    <3>2. \A x \in Nat, y \in Nat, z \in Nat, w \in Nat : (x <= y /\ z = y + w) => x <= z
      OBVIOUS
    <3>3. Len(Joined(s, k)) = Len(Joined(s, k - 1)) + Len(s[k]) /\ Len(s[k]) \in Nat
      BY <1>10
    <3>4. Len(Joined(s, k)) \in Nat /\ Len(Joined(s, k - 1)) \in Nat
      <4> HIDE DEF T, Keeps
      <4> QED
        BY <1>4, <1>7, JoinedType
    <3> HIDE DEF T, Keeps
    <3> QED
      BY <1>5, <3>1, <3>2, <3>3, <3>4
  <2>2. ASSUME NEW x \in 1..Len(Joined(s, i)) PROVE Joined(s, k)[x] = Joined(s, i)[x]
    <3>1. x \in 1..Len(Joined(s, k - 1)) /\ Joined(s, k - 1)[x] = Joined(s, i)[x]
      BY <1>5, <1>8, <1>9
    <3> QED
      BY <1>10, <3>1
  <2> QED
    BY <2>1, <2>2
<1> QED
  BY <1>4, <1>11

LEMMA JoinedStays ==
    ASSUME NEW S, NEW n \in Nat, NEW s \in [1..n -> Seq(S)]
    PROVE  \A i \in 0..n : /\ Len(Joined(s, i)) <= Len(Joined(s, n))
                           /\ \A x \in 1..Len(Joined(s, i)) : Joined(s, n)[x] = Joined(s, i)[x]
<1> TAKE i \in 0..n
<1>1. n \in i..n
  OBVIOUS
<1>2. \A k \in i..n : /\ Len(Joined(s, i)) <= Len(Joined(s, k))
                      /\ \A x \in 1..Len(Joined(s, i)) : Joined(s, k)[x] = Joined(s, i)[x]
  BY SMTT(30), JoinedGrows
<1> QED
  BY <1>1, <1>2

-----------------------------------------------------------------------------
(* What the numbers of a sequence add up to *)

\* The sums of the first members of a sequence of numbers.
LEMMA NumbersAdd ==
    ASSUME NEW n \in Nat, NEW s, \A i \in 1..n : s[i] \in Nat
    PROVE  \E f \in [0..n -> Nat] : f[0] = 0 /\ \A i \in 1..n : f[i] = f[i - 1] + s[i]
<1> DEFINE g == [i \in 1..n |-> [x \in Nat |-> x + s[i]]]
<1>1. g \in [1..n -> [Nat -> Nat]]
  OBVIOUS
<1>2. \A i \in 1..n : \A x \in Nat : g[i][x] = x + s[i]
  OBVIOUS
<1> HIDE DEF g
<1>3. PICK f \in [0..n -> Nat] : f[0] = 0 /\ \A i \in 1..n : f[i] = g[i][f[i - 1]]
  <2> DEFINE N == Nat
  <2>1. 0 \in N /\ g \in [1..n -> [N -> N]]
    BY <1>1
  <2> HIDE DEF N
  <2>2. \E f \in [0..n -> N] : f[0] = 0 /\ \A i \in 1..n : f[i] = g[i][f[i - 1]]
    BY <2>1, Iterates
  <2> QED
    BY <2>2 DEF N
<1>4. ASSUME NEW i \in 1..n PROVE f[i] = f[i - 1] + s[i]
  <2>1. i - 1 \in 0..n
    OBVIOUS
  <2>2. f[i - 1] \in Nat
    BY <1>3, <2>1
  <2>3. f[i] = g[i][f[i - 1]]
    BY <1>3
  <2> QED
    BY <1>2, <2>2, <2>3
<1> QED
  BY <1>3, <1>4

\* What the members of a sequence of numbers add up to.
TotalOf(numbers) ==
    LET sum[i \in 0..Len(numbers)] == IF i = 0 THEN 0 ELSE sum[i - 1] + numbers[i]
    IN sum[Len(numbers)]

LEMMA TotalRuns ==
    ASSUME NEW s \in Seq(Nat)
    PROVE  \E f \in [0..Len(s) -> Nat] :
              /\ f[0] = 0 /\ \A i \in 1..Len(s) : f[i] = f[i - 1] + s[i]
              /\ TotalOf(s) = f[Len(s)]
<1> DEFINE n == Len(s)
           f == CHOOSE f : f = [i \in 0..Len(s) |-> IF i = 0 THEN 0 ELSE f[i - 1] + s[i]]
<1>1. n \in Nat /\ s \in [1..n -> Nat] /\ \A i \in 1..n : s[i] \in Nat
  OBVIOUS
<1>2. \E h \in [0..n -> Nat] : h[0] = 0 /\ \A i \in 1..n : h[i] = h[i - 1] + s[i]
  <2> HIDE DEF n, f
  <2> QED
    BY <1>1, NumbersAdd
<1>3. PICK h \in [0..n -> Nat] : h[0] = 0 /\ \A i \in 1..n : h[i] = h[i - 1] + s[i]
  BY <1>2
<1>6. h = [i \in 0..n |-> IF i = 0 THEN 0 ELSE h[i - 1] + s[i]]
  <2>1. \A i \in 0..n : i # 0 => i \in 1..n
    BY <1>1
  <2> HIDE DEF n
  <2> QED
    BY <1>3, <2>1
<1>7. f = [i \in 0..Len(s) |-> IF i = 0 THEN 0 ELSE f[i - 1] + s[i]]
  <2>1. \E k : k = [i \in 0..Len(s) |-> IF i = 0 THEN 0 ELSE k[i - 1] + s[i]]
    BY <1>6
  <2> QED
    BY <2>1, Zenon
<1>8. TotalOf(s) = f[n]
  BY DEF TotalOf
<1> HIDE DEF f
<1>9. f[0] = 0 /\ \A i \in 1..n : f[i] = f[i - 1] + s[i]
  <2>1. \A i \in 0..n : f[i] = IF i = 0 THEN 0 ELSE f[i - 1] + s[i]
    BY <1>7
  <2>2. 0 \in 0..n /\ \A i \in 1..n : i \in 0..n /\ i # 0
    BY <1>1
  <2> QED
    BY <2>1, <2>2
<1>10. \A i \in 1..n : f[i - 1] \in Nat => f[i] \in Nat
  <2> HIDE DEF n
  <2> TAKE i \in 1..n
  <2>1. f[i] = f[i - 1] + s[i] /\ s[i] \in Nat
    BY <1>1, <1>9
  <2> QED
    BY <2>1
<1>11. \A i \in 0..n : f[i] \in Nat
  <2>1. f[0] \in Nat
    BY <1>9
  <2> HIDE DEF n
  <2> QED
    BY <1>1, <1>10, <2>1, Iteration, Zenon
<1>12. f \in [0..n -> Nat]
  BY <1>7, <1>11
<1> QED
  BY <1>8, <1>9, <1>12

LEMMA TotalType == ASSUME NEW s \in Seq(Nat) PROVE TotalOf(s) \in Nat
<1>1. PICK f \in [0..Len(s) -> Nat] : TotalOf(s) = f[Len(s)]
  BY TotalRuns
<1>2. Len(s) \in 0..Len(s)
  OBVIOUS
<1> QED
  BY <1>1, <1>2

\* What grows by the members has grown by their total.
LEMMA RunningTotal ==
    ASSUME NEW s \in Seq(Nat), NEW f, f[0] \in Nat,
           \A i \in 1..Len(s) : f[i] = f[i - 1] + s[i]
    PROVE  f[Len(s)] = f[0] + TotalOf(s)
<1> DEFINE n == Len(s)
<1>1. n \in Nat /\ \A i \in 1..n : s[i] \in Nat
  OBVIOUS
<1>2. PICK g \in [0..n -> Nat] : /\ g[0] = 0 /\ \A i \in 1..n : g[i] = g[i - 1] + s[i]
                                 /\ TotalOf(s) = g[n]
  BY TotalRuns
<1> DEFINE S == {i \in 0..n : f[i] = f[0] + g[i]}
           h == [i \in 0..n |-> i]
<1>3. \A i \in 0..n : h[i] \in S
  <2>1. h[0] \in S
    BY <1>1, <1>2
  <2>2. ASSUME NEW i \in 1..n, h[i - 1] \in S PROVE h[i] \in S
    <3>1. i - 1 \in 0..n /\ i \in 0..n
      BY <1>1
    <3>2. f[i - 1] = f[0] + g[i - 1] /\ g[i - 1] \in Nat
      BY <1>2, <2>2, <3>1
    <3>3. f[i] = f[i - 1] + s[i] /\ g[i] = g[i - 1] + s[i] /\ s[i] \in Nat
      BY <1>1, <1>2
    <3>4. f[i] = f[0] + g[i]
      BY <3>2, <3>3
    <3> QED
      BY <3>1, <3>4
  <2> HIDE DEF S, h, n
  <2> QED
    BY <1>1, <2>1, <2>2, Iteration
<1>4. n \in 0..n
  BY <1>1
<1>5. n \in S
  BY <1>3, <1>4
<1> QED
  BY <1>2, <1>5

LEMMA TotalNone == TotalOf(<<>>) = 0
<1> DEFINE s == <<>>
<1>1. s \in Seq(Nat) /\ Len(s) = 0
  OBVIOUS
<1> HIDE DEF s
<1>2. PICK f \in [0..Len(s) -> Nat] : f[0] = 0 /\ TotalOf(s) = f[Len(s)]
  BY <1>1, TotalRuns
<1> QED
  BY <1>1, <1>2 DEF s

LEMMA TotalConcat ==
    ASSUME NEW s \in Seq(Nat), NEW t \in Seq(Nat)
    PROVE  TotalOf(s \o t) = TotalOf(s) + TotalOf(t)
<1> DEFINE m == Len(s)
           n == Len(t)
<1>1. /\ m \in Nat /\ n \in Nat /\ s \o t \in Seq(Nat) /\ Len(s \o t) = m + n
      /\ \A i \in 1..m : (s \o t)[i] = s[i]
      /\ \A i \in 1..n : (s \o t)[m + i] = t[i]
  BY ConcatProperties
<1>2. PICK h \in [0..Len(s \o t) -> Nat] :
         /\ h[0] = 0 /\ \A i \in 1..Len(s \o t) : h[i] = h[i - 1] + (s \o t)[i]
         /\ TotalOf(s \o t) = h[Len(s \o t)]
  BY <1>1, TotalRuns
<1>3. h[m] = TotalOf(s)
  <2>1. \A i \in 1..m : h[i] = h[i - 1] + s[i]
    <3> TAKE i \in 1..m
    <3>1. i \in 1..Len(s \o t)
      BY <1>1
    <3> QED
      BY <1>1, <1>2, <3>1
  <2>2. h[0] = 0 /\ h[0] \in Nat
    BY <1>2
  <2>3. h[m] = h[0] + TotalOf(s)
    BY <2>1, <2>2, RunningTotal
  <2> QED
    BY <2>2, <2>3, TotalType
<1> DEFINE k == [i \in 0..n |-> h[m + i]]
<1>4. k[n] = k[0] + TotalOf(t)
  <2>1. ASSUME NEW i \in 1..n PROVE k[i] = k[i - 1] + t[i]
    <3>1. m + i \in 1..Len(s \o t) /\ (m + i) - 1 = m + (i - 1) /\ i \in 0..n /\ i - 1 \in 0..n
      BY <1>1
    <3>2. h[m + i] = h[(m + i) - 1] + (s \o t)[m + i]
      BY <1>2, <3>1
    <3> QED
      BY <1>1, <3>1, <3>2
  <2>2. k[0] \in Nat
    <3>1. 0 \in 0..n /\ m + 0 = m
      BY <1>1
    <3>2. k[0] = h[m]
      BY <3>1
    <3> QED
      BY <1>3, <3>2, TotalType
  <2> HIDE DEF k
  <2> QED
    BY <2>1, <2>2, RunningTotal
<1>5. k[n] = h[m + n] /\ k[0] = h[m]
  BY <1>1
<1> QED
  BY <1>1, <1>2, <1>3, <1>4, <1>5

LEMMA TotalZeros ==
    ASSUME NEW s \in Seq(Nat), \A i \in 1..Len(s) : s[i] = 0
    PROVE  TotalOf(s) = 0
<1> DEFINE f == [i \in 0..Len(s) |-> 0]
<1>1. f[0] = 0 /\ f[Len(s)] = 0 /\ \A i \in 1..Len(s) : f[i] = f[i - 1] + s[i]
  OBVIOUS
<1> HIDE DEF f
<1>2. f[0] \in Nat
  BY <1>1
<1>3. f[Len(s)] = f[0] + TotalOf(s)
  BY <1>1, <1>2, RunningTotal
<1> QED
  BY <1>1, <1>3, TotalType

\* If one member alone is not zero it is the total.
LEMMA TotalOnly ==
    ASSUME NEW s \in Seq(Nat), NEW k \in 1..Len(s), \A i \in 1..Len(s) : i # k => s[i] = 0
    PROVE  TotalOf(s) = s[k]
<1> DEFINE f == [i \in 0..Len(s) |-> IF i < k THEN 0 ELSE s[k]]
<1>1. Len(s) \in Nat /\ k \in Nat /\ 1 <= k /\ k <= Len(s) /\ s[k] \in Nat
  OBVIOUS
<1>2. f[0] = 0 /\ f[Len(s)] = s[k]
  BY <1>1
<1>3. ASSUME NEW i \in 1..Len(s) PROVE f[i] = f[i - 1] + s[i]
  <2>1. i \in 0..Len(s) /\ i - 1 \in 0..Len(s)
    BY <1>1
  <2>2. f[i] = (IF i < k THEN 0 ELSE s[k]) /\ f[i - 1] = (IF i - 1 < k THEN 0 ELSE s[k])
    BY <2>1
  <2>3. CASE i = k
    BY <1>1, <2>2, <2>3
  <2>4. CASE i # k
    <3>1. s[i] = 0
      BY <2>4
    <3>2. i < k <=> i - 1 < k
      BY <1>1, <2>4
    <3> QED
      BY <1>1, <2>2, <3>1, <3>2
  <2> QED
    BY <2>3, <2>4
<1> HIDE DEF f
<1>4. f[0] \in Nat
  BY <1>2
<1>5. f[Len(s)] = f[0] + TotalOf(s)
  BY <1>3, <1>4, RunningTotal
<1> QED
  BY <1>1, <1>2, <1>5, TotalType

-----------------------------------------------------------------------------
(* What the members of a sequence weigh together *)

Weigh(W, s) == TotalOf([i \in 1..Len(s) |-> W[s[i]]])

LEMMA WeighType ==
    ASSUME NEW S, NEW W \in [S -> Nat], NEW s \in Seq(S)
    PROVE  [i \in 1..Len(s) |-> W[s[i]]] \in Seq(Nat) /\ Weigh(W, s) \in Nat
<1> DEFINE t == [i \in 1..Len(s) |-> W[s[i]]]
<1>1. Len(s) \in Nat /\ \A i \in 1..Len(s) : s[i] \in S
  OBVIOUS
<1>2. t \in [1..Len(s) -> Nat]
  BY <1>1
<1>3. t \in Seq(Nat)
  <2> HIDE DEF t
  <2> QED
    BY <1>1, <1>2, IsASeq
<1>4. TotalOf(t) \in Nat
  BY <1>3, TotalType
<1> QED
  BY <1>3, <1>4 DEF Weigh

LEMMA WeighNone == ASSUME NEW W PROVE Weigh(W, <<>>) = 0
<1> DEFINE t == [i \in 1..Len(<<>>) |-> W[<<>>[i]]]
<1>1. t = <<>>
  OBVIOUS
<1> HIDE DEF t
<1>2. TotalOf(t) = 0
  BY <1>1, TotalNone
<1> QED
  BY <1>2 DEF Weigh, t

LEMMA WeighConcat ==
    ASSUME NEW S, NEW W \in [S -> Nat], NEW s \in Seq(S), NEW t \in Seq(S)
    PROVE  Weigh(W, s \o t) = Weigh(W, s) + Weigh(W, t)
<1> DEFINE u == [i \in 1..Len(s) |-> W[s[i]]]
           v == [i \in 1..Len(t) |-> W[t[i]]]
           w == [i \in 1..Len(s \o t) |-> W[(s \o t)[i]]]
<1>1. /\ Len(s) \in Nat /\ Len(t) \in Nat /\ Len(s \o t) = Len(s) + Len(t)
      /\ \A i \in 1..Len(s \o t) : (s \o t)[i] = IF i <= Len(s) THEN s[i] ELSE t[i - Len(s)]
  <2>1. /\ s \o t \in Seq(S) /\ Len(s \o t) = Len(s) + Len(t)
        /\ \A i \in 1..Len(s \o t) : (s \o t)[i] = IF i <= Len(s) THEN s[i] ELSE t[i - Len(s)]
    BY ConcatProperties
  <2> QED
    BY <2>1
<1>2. u \in Seq(Nat) /\ v \in Seq(Nat) /\ Len(u) = Len(s) /\ Len(v) = Len(t)
  <2>1. u \in Seq(Nat) /\ v \in Seq(Nat)
    BY WeighType
  <2>2. DOMAIN u = 1..Len(s) /\ DOMAIN v = 1..Len(t)
    OBVIOUS
  <2> HIDE DEF u, v
  <2> QED
    BY <1>1, <2>1, <2>2, LenProperties
<1>3. /\ u \o v \in Seq(Nat) /\ Len(u \o v) = Len(s) + Len(t)
      /\ \A i \in 1..Len(u \o v) : (u \o v)[i] = IF i <= Len(u) THEN u[i] ELSE v[i - Len(u)]
  <2> HIDE DEF u, v
  <2>1. \A p, q \in Seq(Nat) :
           /\ p \o q \in Seq(Nat) /\ Len(p \o q) = Len(p) + Len(q)
           /\ \A i \in 1..Len(p \o q) : (p \o q)[i] = IF i <= Len(p) THEN p[i] ELSE q[i - Len(p)]
    BY ConcatProperties, Zenon
  <2> QED
    BY <1>2, <2>1
<1>4. w = u \o v
  <2>1. \A i \in 1..Len(s) + Len(t) : (u \o v)[i] = w[i]
    <3> TAKE i \in 1..Len(s) + Len(t)
    <3>1. CASE i <= Len(s)
      <4>1. i \in 1..Len(s)
        BY <1>1, <3>1
      <4>2. (u \o v)[i] = u[i] /\ u[i] = W[s[i]]
        BY <1>2, <1>3, <3>1, <4>1
      <4>3. w[i] = W[s[i]]
        BY <1>1, <3>1
      <4> QED
        BY <4>2, <4>3
    <3>2. CASE ~(i <= Len(s))
      <4>1. i - Len(s) \in 1..Len(t)
        BY <1>1, <3>2
      <4>2. (u \o v)[i] = v[i - Len(s)] /\ v[i - Len(s)] = W[t[i - Len(s)]]
        BY <1>2, <1>3, <3>2, <4>1
      <4>3. w[i] = W[t[i - Len(s)]]
        BY <1>1, <3>2
      <4> QED
        BY <4>2, <4>3
    <3> QED
      BY <3>1, <3>2
  <2>2. u \o v = [i \in 1..Len(s) + Len(t) |-> (u \o v)[i]]
    <3> HIDE DEF u, v
    <3> DEFINE x == u \o v
    <3>1. x \in Seq(Nat) /\ Len(x) = Len(s) + Len(t)
      BY <1>3
    <3> HIDE DEF x
    <3>2. x = [i \in 1..Len(x) |-> x[i]]
      BY <3>1
    <3> QED
      BY <3>1, <3>2 DEF x
  <2>3. w = [i \in 1..Len(s) + Len(t) |-> w[i]]
    BY <1>1
  <2> HIDE DEF u, v, w
  <2> QED
    BY <2>1, <2>2, <2>3
<1>5. TotalOf(u \o v) = TotalOf(u) + TotalOf(v)
  <2> HIDE DEF u, v
  <2> QED
    BY <1>2, TotalConcat
<1> QED
  BY <1>4, <1>5 DEF Weigh

LEMMA WeighOne ==
    ASSUME NEW S, NEW W \in [S -> Nat], NEW x \in S
    PROVE  Weigh(W, <<x>>) = W[x]
<1> DEFINE s == <<x>>
           t == [i \in 1..Len(s) |-> W[s[i]]]
<1>1. s \in Seq(S) /\ Len(s) = 1 /\ s[1] = x
  OBVIOUS
<1>2. t \in Seq(Nat)
  <2> HIDE DEF s
  <2> QED
    BY <1>1, WeighType
<1>3. Len(t) = 1 /\ t[1] = W[x]
  BY <1>1
<1> HIDE DEF t
<1>4. TotalOf(t) = t[1]
  BY <1>2, <1>3, TotalOnly
<1> QED
  BY <1>3, <1>4 DEF Weigh, t

LEMMA WeighZero ==
    ASSUME NEW S, NEW W \in [S -> Nat], NEW s \in Seq(S), \A i \in 1..Len(s) : W[s[i]] = 0
    PROVE  Weigh(W, s) = 0
<1> DEFINE t == [i \in 1..Len(s) |-> W[s[i]]]
<1>1. t \in Seq(Nat)
  BY WeighType
<1>2. Len(s) \in Nat /\ Len(t) = Len(s) /\ \A i \in 1..Len(s) : t[i] = 0
  OBVIOUS
<1> HIDE DEF t
<1>3. TotalOf(t) = 0
  BY <1>1, <1>2, TotalZeros
<1> QED
  BY <1>3 DEF Weigh, t

\* t has the weights of n sequences.
Weighed(S, W, n, ss, t) ==
    /\ W \in [S -> Nat] /\ n \in Nat /\ ss \in [1..n -> Seq(S)]
    /\ t \in Seq(Nat) /\ Len(t) = n /\ \A j \in 1..n : t[j] = Weigh(W, ss[j])

\* Sequences that are joined weigh what they weigh one by one.
LEMMA WeighJoined ==
    ASSUME NEW S, NEW W, NEW n, NEW ss, NEW t, Weighed(S, W, n, ss, t)
    PROVE  Weigh(W, Joined(ss, n)) = TotalOf(t)
<1> DEFINE f == [i \in 0..n |-> Weigh(W, Joined(ss, i))]
<1>0. /\ W \in [S -> Nat] /\ n \in Nat /\ ss \in [1..n -> Seq(S)]
      /\ t \in Seq(Nat) /\ Len(t) = n /\ \A j \in 1..n : t[j] = Weigh(W, ss[j])
  BY DEF Weighed
<1>1. \A i \in 0..n : Joined(ss, i) \in Seq(S)
  BY <1>0, JoinedType
<1>2. f[0] = 0
  <2>1. Joined(ss, 0) = <<>>
    BY JoinedNone
  <2>2. f[0] = Weigh(W, Joined(ss, 0))
    BY <1>0
  <2> QED
    BY <2>1, <2>2, WeighNone
<1>3. ASSUME NEW i \in 1..n PROVE f[i] = f[i - 1] + t[i]
  <2>1. i - 1 \in 0..n /\ i \in 0..n
    BY <1>0
  <2>2. Joined(ss, i) = Joined(ss, i - 1) \o ss[i]
    BY <1>0, JoinedNext
  <2>3. Joined(ss, i - 1) \in Seq(S) /\ ss[i] \in Seq(S)
    BY <1>0, <1>1, <2>1
  <2>4. Weigh(W, Joined(ss, i - 1) \o ss[i]) = Weigh(W, Joined(ss, i - 1)) + Weigh(W, ss[i])
    BY <1>0, <2>3, WeighConcat
  <2>5. f[i] = Weigh(W, Joined(ss, i)) /\ f[i - 1] = Weigh(W, Joined(ss, i - 1)) /\ t[i] = Weigh(W, ss[i])
    BY <1>0, <2>1
  <2> HIDE DEF f
  <2> QED
    BY <2>2, <2>4, <2>5
<1>4. f[n] = Weigh(W, Joined(ss, n))
  BY <1>0
<1> HIDE DEF f
<1>5. f[0] \in Nat /\ \A i \in 1..Len(t) : f[i] = f[i - 1] + t[i]
  BY <1>0, <1>2, <1>3
<1>6. f[Len(t)] = f[0] + TotalOf(t)
  BY <1>0, <1>5, RunningTotal
<1> QED
  BY <1>0, <1>2, <1>4, <1>6, TotalType

=============================================================================
