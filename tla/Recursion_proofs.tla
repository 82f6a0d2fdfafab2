---------------------------- MODULE Recursion_proofs ----------------------------
(***************************************************************************)
(* Induction over numbers up to a bound, the functions that recursion over  *)
(* 0..n defines, and sequences that grow: what the other proofs rest on.    *)
(* Induction is by the least number of a set: the induction theorems of the *)
(* library take an operator, and that a set of numbers has a least element  *)
(* does not.                                                                *)
(***************************************************************************)
EXTENDS Integers, SequencesExt, FiniteSetTheorems, WellFoundedInduction, TLAPS

-----------------------------------------------------------------------------
(* Induction, and functions defined by recursion over 0..n.                 *)

(* Every nonempty set of natural numbers has a least element. *)
LEMMA LeastOf ==
    ASSUME NEW T \in SUBSET Nat, T # {}
    PROVE  \E x \in T : \A y \in T : x <= y
<1> DEFINE R == {ss \in Nat \X Nat : ss[1] < ss[2]}
<1>1. IsWellFoundedOn(R, Nat)
  BY NatLessThanWellFounded DEF OpToRel
<1>2. \E x \in T : \A y \in T : ~(<<y, x>> \in R)
  <2> HIDE DEF R
  <2> QED  BY <1>1, WFMin
<1>3. ASSUME NEW x \in T, NEW y \in T, ~(<<y, x>> \in R)  PROVE x <= y
  BY <1>3
<1> QED  BY <1>2, <1>3

(* ... and every nonempty set of numbers up to n a greatest. *)
LEMMA GreatestOf ==
    ASSUME NEW n \in Nat, NEW T \in SUBSET (0..n), T # {}
    PROVE  \E x \in T : \A y \in T : y <= x
<1> DEFINE K == {n - i : i \in T}
<1>1. K \in SUBSET Nat /\ K # {}
  <2>1. \A i \in T : n - i \in Nat
    OBVIOUS
  <2>2. \E i : i \in T
    OBVIOUS
  <2>3. \E j : j \in K
    BY <2>2
  <2> QED  BY <2>1, <2>3
<1>2. PICK k \in K : \A j \in K : k <= j
  <2> HIDE DEF K
  <2> QED  BY <1>1, LeastOf
<1>3. PICK x \in T : k = n - x
  BY <1>2
<1>4. ASSUME NEW y \in T  PROVE y <= x
  <2>1. n - y \in K
    OBVIOUS
  <2> HIDE DEF K
  <2>2. n - x <= n - y /\ x \in Nat /\ y \in Nat
    BY <1>2, <1>3, <2>1
  <2> QED  BY <2>2
<1> QED  BY <1>4

(* Induction up to a bound, over a set of numbers. *)
LEMMA UpTo ==
    ASSUME NEW n \in Nat, NEW T, 0 \in T, \A k \in 1..n : k - 1 \in T => k \in T
    PROVE  0..n \subseteq T
<1> SUFFICES ASSUME (0..n) \ T # {}  PROVE FALSE
  OBVIOUS
<1> DEFINE U == (0..n) \ T
<1>1. PICK x \in U : \A y \in U : x <= y
  <2>1. U \in SUBSET Nat /\ U # {}
    OBVIOUS
  <2> HIDE DEF U
  <2> QED  BY <2>1, LeastOf
<1>2. x # 0 /\ x - 1 \in 0..n /\ x - 1 \notin T
  BY <1>1
<1> QED  BY <1>1, <1>2

\* f goes through n steps from a, the k-th of which is F[k].
Steps(n, S) == [1..n -> [S -> S]]
Iterated(f, n, S, a, F) ==
    /\ f \in [0..n -> S] /\ f[0] = a
    /\ \A k \in 1..n : f[k] = F[k][f[k - 1]]

(* A recursion over 0..n has a solution. *)
LEMMA Iterates ==
    ASSUME NEW n \in Nat, NEW S, NEW a \in S, NEW F \in Steps(n, S)
    PROVE  \E f : Iterated(f, n, S, a, F)
<1> DEFINE Solves(f, m) == /\ f \in [0..m -> S] /\ f[0] = a
                           /\ \A k \in 1..m : f[k] = F[k][f[k - 1]]
           T == {m \in 0..n : \E f : Solves(f, m)}
<1>0. F \in [1..n -> [S -> S]]
  BY DEF Steps
<1>1. 0 \in T
  <2>1. Solves([k \in 0..0 |-> a], 0)
    OBVIOUS
  <2> HIDE DEF Solves
  <2> QED  BY <2>1
<1>2. ASSUME NEW k \in 1..n, k - 1 \in T  PROVE k \in T
  <2>1. PICK f : Solves(f, k - 1)
    BY <1>2
  <2> DEFINE g == [i \in 0..k |-> IF i = k THEN F[k][f[k - 1]] ELSE f[i]]
  <2>2. f[k - 1] \in S
    BY <2>1
  <2>3. F[k][f[k - 1]] \in S
    BY <1>0, <2>2
  <2>4. g \in [0..k -> S] /\ g[0] = a
    BY <2>1, <2>3
  <2>5. ASSUME NEW i \in 1..k  PROVE g[i] = F[i][g[i - 1]]
    BY <2>1
  <2>6. Solves(g, k)
    BY <2>4, <2>5
  <2> HIDE DEF Solves, g
  <2> QED  BY <2>6
<1> HIDE DEF T
<1>3. 0..n \subseteq T
  BY <1>1, <1>2, UpTo
<1>4. n \in T
  BY <1>3
<1> QED  BY <1>4 DEF T, Iterated

\* f and g start alike, and whenever they agree they agree a step later.
Alike(f, g, n) ==
    f[0] = g[0] /\ \A k \in 1..n : f[k - 1] = g[k - 1] => f[k] = g[k]

(* ... and only one. *)
LEMMA SameIterates ==
    ASSUME NEW n \in Nat, NEW f, NEW g, Alike(f, g, n)
    PROVE  \A k \in 0..n : f[k] = g[k]
<1> DEFINE T == {k \in 0..n : f[k] = g[k]}
<1>1. 0 \in T /\ \A k \in 1..n : k - 1 \in T => k \in T
  BY DEF Alike
<1> HIDE DEF T
<1>2. 0..n \subseteq T
  BY <1>1, UpTo
<1> QED  BY <1>2 DEF T

(* A sequence of sequences laid end to end is a sequence. *)
LEMMA FlattenType ==
    ASSUME NEW R, NEW s \in Seq(Seq(R))
    PROVE  FlattenSeq(s) \in Seq(R)
<1> DEFINE n == Len(s) - 1
           S == Seq(R)
           F == [k \in 1..n |-> [x \in S |-> x \o s[k + 1]]]
           body(f) == [i \in 1..Len(s) |-> IF i = 1 THEN s[i] ELSE f[i - 1] \o s[i]]
           G == CHOOSE f : f = body(f)
<1>1. CASE Len(s) = 0
  <2>1. s = << >>
    BY <1>1
  <2> QED  BY <1>1, <2>1 DEF FlattenSeq
<1>2. CASE Len(s) # 0
  <2>1. n \in Nat /\ s[1] \in S /\ \A k \in 1..n : s[k + 1] \in S
    BY <1>2
  <2>2. F \in Steps(n, S)
    BY <2>1 DEF Steps
  <2>3. PICK f : Iterated(f, n, S, s[1], F)
    <3> HIDE DEF F, n, S
    <3> QED  BY <2>1, <2>2, Iterates
  <2> DEFINE g == [i \in 1..Len(s) |-> f[i - 1]]
  <2>4. g \in [1..Len(s) -> S]
    <3>1. \A i \in 1..Len(s) : i - 1 \in 0..n
      OBVIOUS
    <3> HIDE DEF n, S
    <3> QED  BY <2>3, <3>1 DEF Iterated
  <2>5. g = body(g)
    <3>1. ASSUME NEW i \in 1..Len(s), i # 1  PROVE g[i] = g[i - 1] \o s[i]
      <4>1. i - 1 \in 1..n /\ (i - 1) - 1 \in 0..n /\ i - 1 \in 1..Len(s) /\ (i - 1) + 1 = i
        BY <3>1
      <4>2. f[i - 1] = F[i - 1][f[(i - 1) - 1]] /\ f[(i - 1) - 1] \in S
        <5> HIDE DEF F, n, S
        <5> QED  BY <2>3, <4>1 DEF Iterated
      <4>3. f[i - 1] = f[(i - 1) - 1] \o s[i]
        <5>1. F[i - 1] = [x \in S |-> x \o s[(i - 1) + 1]]
          BY <4>1
        <5> HIDE DEF F
        <5> QED  BY <4>1, <4>2, <5>1
      <4> QED  BY <4>1, <4>3
    <3>2. g[1] = s[1]
      <4>1. f[0] = s[1]
        <5> HIDE DEF F, n, S
        <5> QED  BY <2>3 DEF Iterated
      <4> QED  BY <1>2, <4>1
    <3> HIDE DEF g
    <3>3. \A i \in 1..Len(s) : g[i] = IF i = 1 THEN s[i] ELSE g[i - 1] \o s[i]
      BY <3>1, <3>2
    <3>4. DOMAIN g = 1..Len(s) /\ g = [i \in 1..Len(s) |-> g[i]]
      BY DEF g
    <3> QED  BY <3>3, <3>4
  <2>6. G = body(G)
    <3> HIDE DEF body, g
    <3> QED  BY <2>5
  <2>7. FlattenSeq(s) = G[Len(s)]
    BY <1>2 DEF FlattenSeq
  <2> DEFINE T == {k \in 0..n : G[k + 1] = g[k + 1]}
  <2>8. 0 \in T /\ \A k \in 1..n : k - 1 \in T => k \in T
    <3>1. \A i \in 1..Len(s) : /\ G[i] = (IF i = 1 THEN s[i] ELSE G[i - 1] \o s[i])
                               /\ g[i] = (IF i = 1 THEN s[i] ELSE g[i - 1] \o s[i])
      <4> HIDE DEF G, g
      <4> QED  BY <2>5, <2>6
    <3> HIDE DEF G, g
    <3>2. G[1] = g[1]
      BY <1>2, <3>1
    <3>3. ASSUME NEW k \in 1..n, G[(k - 1) + 1] = g[(k - 1) + 1]  PROVE G[k + 1] = g[k + 1]
      <4>1. k + 1 \in 1..Len(s) /\ k + 1 # 1 /\ (k + 1) - 1 = (k - 1) + 1
        OBVIOUS
      <4> QED  BY <3>1, <3>3, <4>1
    <3>4. 0 \in 0..n /\ \A k \in 1..n : k \in 0..n
      BY <2>1
    <3> HIDE DEF n
    <3> QED  BY <3>2, <3>3, <3>4
  <2>9. n \in T
    <3> HIDE DEF T, n
    <3>1. 0..n \subseteq T
      BY <2>1, <2>8, UpTo
    <3> QED  BY <2>1, <3>1
  <2>10. G[Len(s)] = g[Len(s)]
    <3>1. n + 1 = Len(s)
      OBVIOUS
    <3> HIDE DEF G, g, n
    <3> QED  BY <2>9, <3>1
  <2>11. Len(s) \in 1..Len(s)
    BY <1>2
  <2> HIDE DEF g, G
  <2> QED  BY <2>4, <2>7, <2>10, <2>11
<1> QED  BY <1>1, <1>2

-----------------------------------------------------------------------------
(* Least closed sets.                                                       *)

(* A loop that starts from nothing and finds more with more comes to rest in *)
(* as many turns as there is to find: it adds something in each turn, or has *)
(* all that it will ever add.  What it has then is in every closed set.      *)
LEMMA LeastClosed ==
    ASSUME NEW N, IsFiniteSet(N), NEW D \in [SUBSET N -> SUBSET N],
           \A U, V \in SUBSET N : U \subseteq V => D[U] \subseteq D[V]
    PROVE  \E f : /\ f \in [0..Cardinality(N) -> SUBSET N]
                  /\ f[0] = {}
                  /\ \A k \in 1..Cardinality(N) : f[k] = D[f[k - 1]]
                  /\ D[f[Cardinality(N)]] \subseteq f[Cardinality(N)]
                  /\ \A S \in SUBSET N : D[S] \subseteq S => f[Cardinality(N)] \subseteq S
<1> DEFINE n == Cardinality(N)
           F == [k \in 1..n |-> D]
<1>1. n \in Nat
  BY FS_CardinalityType
<1>2. PICK f : Iterated(f, n, SUBSET N, {}, F)
  <2>1. {} \in SUBSET N /\ F \in Steps(n, SUBSET N)
    BY DEF Steps
  <2> HIDE DEF F, n
  <2> QED  BY <1>1, <2>1, Iterates
<1>3. /\ f \in [0..n -> SUBSET N] /\ f[0] = {}
      /\ \A k \in 1..n : f[k] = D[f[k - 1]]
  BY <1>2 DEF Iterated
<1> HIDE DEF n
<1>4. \A k \in 0..n : f[k] \in SUBSET N /\ IsFiniteSet(f[k]) /\ Cardinality(f[k]) \in Nat
  BY <1>3, FS_Subset, FS_CardinalityType
<1> DEFINE Grows == {k \in 0..n : k = 0 \/ f[k - 1] \subseteq f[k]}
<1>5. 0 \in Grows /\ \A k \in 1..n : k - 1 \in Grows => k \in Grows
  <2>1. 0 \in Grows
    BY <1>1
  <2>2. ASSUME NEW k \in 1..n, k - 1 \in Grows  PROVE f[k - 1] \subseteq f[k]
    <3>1. CASE k = 1
      BY <1>3, <1>4, <3>1
    <3>2. CASE k # 1
      <4>1. k - 1 \in 1..n /\ (k - 1) - 1 = k - 2 /\ k - 1 \in 0..n /\ k - 2 \in 0..n
        BY <1>1, <3>2
      <4>2. f[k - 2] \subseteq f[k - 1]
        BY <2>2, <4>1
      <4>3. f[k - 1] = D[f[k - 2]] /\ f[k] = D[f[k - 1]]
        BY <1>3, <4>1
      <4> QED  BY <1>4, <4>1, <4>2, <4>3
    <3> QED  BY <3>1, <3>2
  <2> QED  BY <1>1, <2>1, <2>2
<1>6. \A k \in 1..n : f[k - 1] \subseteq f[k]
  <2> HIDE DEF Grows
  <2>1. 0..n \subseteq Grows
    BY <1>1, <1>5, UpTo
  <2> QED  BY <1>1, <2>1 DEF Grows
<1> DEFINE Rests == {k \in 0..n : D[f[k]] \subseteq f[k] \/ Cardinality(f[k]) >= k}
<1>7. 0 \in Rests
  BY <1>1, <1>4
<1>8. ASSUME NEW k \in 1..n, k - 1 \in Rests  PROVE k \in Rests
  <2>1. /\ f[k - 1] \subseteq f[k] /\ k \in 0..n /\ k - 1 \in 0..n
        /\ f[k] = D[f[k - 1]]
    BY <1>1, <1>3, <1>6
  <2>2. CASE f[k] = f[k - 1]
    BY <2>1, <2>2
  <2>3. CASE f[k] # f[k - 1]
    <3>1. ~(D[f[k - 1]] \subseteq f[k - 1])
      BY <2>1, <2>3
    <3>2. Cardinality(f[k - 1]) >= k - 1
      BY <1>8, <3>1
    <3>3. Cardinality(f[k - 1]) <= Cardinality(f[k]) /\ Cardinality(f[k - 1]) # Cardinality(f[k])
      BY <1>4, <2>1, <2>3, FS_Subset
    <3> QED  BY <1>1, <1>4, <2>1, <3>2, <3>3
  <2> QED  BY <2>2, <2>3
<1>9. n \in Rests
  <2> HIDE DEF Rests
  <2>1. 0..n \subseteq Rests
    BY <1>1, <1>7, <1>8, UpTo
  <2> QED  BY <1>1, <2>1
<1>10. D[f[n]] \subseteq f[n]
  <2>1. n \in 0..n /\ f[n] \in SUBSET N /\ Cardinality(f[n]) \in Nat
    BY <1>1, <1>4
  <2>2. CASE Cardinality(f[n]) >= n
    <3>1. Cardinality(f[n]) <= Cardinality(N)
      BY <2>1, FS_Subset
    <3>2. Cardinality(N) = Cardinality(f[n])
      BY <1>1, <2>1, <2>2, <3>1 DEF n
    <3>3. N = f[n]
      BY <2>1, <3>2, FS_Subset
    <3> QED  BY <2>1, <3>3
  <2> QED  BY <1>9, <2>2
<1>11. ASSUME NEW S \in SUBSET N, D[S] \subseteq S  PROVE f[n] \subseteq S
  <2> DEFINE T == {k \in 0..n : f[k] \subseteq S}
  <2>1. 0 \in T
    BY <1>1, <1>3
  <2>2. ASSUME NEW k \in 1..n, k - 1 \in T  PROVE k \in T
    <3>1. k \in 0..n /\ k - 1 \in 0..n /\ f[k] = D[f[k - 1]]
      BY <1>1, <1>3
    <3>2. f[k - 1] \in SUBSET N /\ f[k - 1] \subseteq S
      BY <1>4, <2>2, <3>1
    <3> QED  BY <1>11, <3>1, <3>2
  <2> HIDE DEF T
  <2>3. 0..n \subseteq T
    BY <1>1, <2>1, <2>2, UpTo
  <2> QED  BY <1>1, <2>3 DEF T
<1> QED  BY <1>3, <1>10, <1>11 DEF n

-----------------------------------------------------------------------------
(* Finite orders.                                                           *)

(* In a finite strict order of which any two elements are related, the       *)
(* numbers of the elements before each one are all the numbers there can be. *)
LEMMA RankExists ==
    ASSUME NEW D, IsFiniteSet(D), NEW b \in [D -> SUBSET D],
           \A u \in D : u \notin b[u],
           \A u, v \in D : u \in b[v] => b[u] \subseteq b[v],
           \A u, v \in D : u # v => u \in b[v] \/ v \in b[u]
    PROVE  \A k \in 1 .. Cardinality(D) : \E u \in D : Cardinality(b[u]) = k - 1
<1> DEFINE n == Cardinality(D)
           r == [u \in D |-> Cardinality(b[u])]
<1>1. n \in Nat
  BY FS_CardinalityType
<1>2. \A u \in D : IsFiniteSet(b[u]) /\ Cardinality(b[u]) \in Nat
  BY FS_Subset, FS_CardinalityType
<1>3. ASSUME NEW u \in D  PROVE Cardinality(b[u]) \in 0 .. n - 1
  <2>1. b[u] \in SUBSET D /\ b[u] # D
    OBVIOUS
  <2>2. Cardinality(b[u]) <= n /\ Cardinality(b[u]) # n
    BY <2>1, FS_Subset
  <2> QED  BY <1>1, <1>2, <2>2
<1>4. ASSUME NEW u \in D, NEW v \in D, u \in b[v]  PROVE Cardinality(b[u]) < Cardinality(b[v])
  <2>1. b[u] \in SUBSET b[v] /\ b[u] # b[v]
    BY <1>4
  <2>2. Cardinality(b[u]) <= Cardinality(b[v]) /\ Cardinality(b[u]) # Cardinality(b[v])
    BY <1>2, <2>1, FS_Subset
  <2> QED  BY <1>2, <2>2
<1>5. r \in Injection(D, 0 .. n - 1)
  <2>1. r \in [D -> 0 .. n - 1]
    <3> HIDE DEF n
    <3> QED  BY <1>3
  <2>2. ASSUME NEW u \in D, NEW v \in D, r[u] = r[v]  PROVE u = v
    <3>1. Cardinality(b[u]) = Cardinality(b[v])
      BY <2>2
    <3>2. u \notin b[v] /\ v \notin b[u]
      BY <1>2, <1>4, <3>1
    <3> QED  BY <3>2
  <2> HIDE DEF r, n
  <2> QED  BY <2>1, <2>2 DEF Injection, IsInjective
<1>6. IsFiniteSet(0 .. n - 1) /\ Cardinality(0 .. n - 1) = n
  <2> HIDE DEF n
  <2> QED  BY <1>1, FS_Interval
<1>7. r \in Surjection(D, 0 .. n - 1)
  <2> HIDE DEF r
  <2> QED  BY <1>5, <1>6, FS_Injection
<1>8. ASSUME NEW k \in 1 .. n  PROVE \E u \in D : Cardinality(b[u]) = k - 1
  <2>1. k - 1 \in 0 .. n - 1
    BY <1>1
  <2>2. \E u \in D : r[u] = k - 1
    <3> HIDE DEF r, n
    <3> QED  BY <1>7, <2>1 DEF Surjection
  <2> QED  BY <2>2
<1> QED  BY <1>8
=============================================================================
