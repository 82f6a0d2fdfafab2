---------------------------- MODULE Approval_proofs ----------------------------
(***************************************************************************)
(* What the proposal commands apply and preview, for every set of proposals, *)
(* processes and moves of the session.  The proofs rest on two facts about  *)
(* Proposal: a candidate is known from the set of its operations when no    *)
(* two of them have one target, and a batch whose attestations hold both    *)
(* the first and the last group of an id has only one group of that id.     *)
(***************************************************************************)
EXTENDS Approval, SequenceTheorems, Recursion_proofs

-----------------------------------------------------------------------------
(* The order of the operations.                                             *)

\* Proposals of which the proofs speak.
Proper(p) ==
    /\ p \in Seq(ToSet(p))
    /\ \A i \in DOMAIN p :
          /\ p[i].ops \in Seq(Ops(p[i]))
          /\ \A op \in Ops(p[i]) : op.target \in Targets /\ op.id \in Nat

(* The places of the operations of a proposal. *)
LEMMA PlaceFacts ==
    ASSUME NEW p, Proper(p)
    PROVE  \A u \in Places(p) :
              /\ u = <<u[1], u[2]>> /\ u[1] \in DOMAIN p /\ u[2] \in DOMAIN p[u[1]].ops
              /\ u[1] \in Nat /\ u[2] \in Nat
              /\ At(p, u) \in Ops(p[u[1]])
              /\ At(p, u).target \in Targets /\ At(p, u).id \in Nat
<1> SUFFICES ASSUME NEW u \in Places(p)
             PROVE  /\ u = <<u[1], u[2]>> /\ u[1] \in DOMAIN p /\ u[2] \in DOMAIN p[u[1]].ops
                    /\ u[1] \in Nat /\ u[2] \in Nat
                    /\ At(p, u) \in Ops(p[u[1]])
                    /\ At(p, u).target \in Targets /\ At(p, u).id \in Nat
  OBVIOUS
<1>1. PICK i \in DOMAIN p : u \in {i} \X DOMAIN p[i].ops
  BY DEF Places
<1>2. PICK j \in DOMAIN p[i].ops : u = <<i, j>>
  BY <1>1
<1>3. DOMAIN p \subseteq Nat /\ DOMAIN p[i].ops \subseteq Nat
  <2>1. \A q, S : q \in Seq(S) => DOMAIN q \subseteq Nat
    OBVIOUS
  <2> QED  BY <2>1, <1>1 DEF Proper
<1>4. u[1] = i /\ u[2] = j
  BY <1>2
<1>5. At(p, u) \in Ops(p[i])
  BY <1>2, <1>4 DEF At, Ops, ToSet
<1> QED  BY <1>1, <1>2, <1>3, <1>4, <1>5 DEF Proper

(* There are finitely many of them. *)
LEMMA PlacesFinite ==
    ASSUME NEW p, Proper(p)
    PROVE  IsFiniteSet(Places(p))
<1> DEFINE n == Len(p)
           Upto(k) == {u \in Places(p) : u[1] <= k}
           T == {k \in 0..n : IsFiniteSet(Upto(k))}
<1>1. n \in Nat /\ DOMAIN p = 1..n
  BY DEF Proper
<1>2. \A u \in Places(p) : u[1] \in 1..n /\ u = <<u[1], u[2]>> /\ u[2] \in DOMAIN p[u[1]].ops
  BY <1>1, PlaceFacts
<1>3. 0 \in T
  <2>1. Upto(0) = {}
    BY <1>1, <1>2
  <2> HIDE DEF Upto, n
  <2>2. IsFiniteSet(Upto(0))
    BY <2>1, FS_EmptySet
  <2> QED  BY <1>1, <2>2
<1>4. ASSUME NEW k \in 1..n, k - 1 \in T  PROVE k \in T
  <2> DEFINE m == Len(p[k].ops)
             f == [j \in 1..m |-> <<k, j>>]
             R == {u \in Places(p) : u[1] = k}
  <2>1. m \in Nat /\ DOMAIN p[k].ops = 1..m
    BY <1>1 DEF Proper
  <2>2. R \subseteq {f[j] : j \in 1..m}
    BY <1>2, <2>1
  <2>3. f \in Surjection(1..m, {f[j] : j \in 1..m})
    BY DEF Surjection
  <2>4. IsFiniteSet({f[j] : j \in 1..m})
    <3> HIDE DEF f, m
    <3> QED  BY <2>1, <2>3, FS_Surjection, FS_Interval
  <2>5. IsFiniteSet(R)
    <3> HIDE DEF f, m, R
    <3> QED  BY <2>2, <2>4, FS_Subset
  <2>6. Upto(k) = Upto(k - 1) \cup R
    <3>1. \A u \in Places(p) : u[1] <= k <=> (u[1] <= k - 1 \/ u[1] = k)
      BY <1>1, <1>2
    <3> QED  BY <3>1
  <2>7. k \in 0..n
    BY <1>1
  <2>8. IsFiniteSet(Upto(k - 1))
    BY <1>4
  <2> HIDE DEF Upto, R, n
  <2>9. IsFiniteSet(Upto(k))
    <3>1. IsFiniteSet(Upto(k - 1) \cup R)
      <4> DEFINE U == Upto(k - 1)
      <4>1. IsFiniteSet(U)
        BY <2>8
      <4> HIDE DEF U
      <4>2. IsFiniteSet(U \cup R)
        BY <2>5, <4>1, FS_Union
      <4> QED  BY <4>2 DEF U
    <3> QED  BY <2>6, <3>1
  <2> QED  BY <2>7, <2>9
<1>5. n \in T
  <2> HIDE DEF T, n
  <2> QED  BY <1>1, <1>3, <1>4, UpTo
<1>6. Upto(n) = Places(p)
  BY <1>1, <1>2
<1> HIDE DEF Upto
<1> QED  BY <1>5, <1>6

(* The operations of all groups in order: each is the one at a place, and   *)
(* different positions have different places. *)
LEMMA AllOpsFacts ==
    ASSUME NEW p, Proper(p)
    PROVE  /\ AllOps(p) \in Seq({At(p, u) : u \in Places(p)})
           /\ \E place \in [DOMAIN AllOps(p) -> Places(p)] :
                 /\ \A k \in DOMAIN AllOps(p) : AllOps(p)[k] = At(p, place[k])
                 /\ \A k, l \in DOMAIN AllOps(p) : k # l => place[k] # place[l]
<1> DEFINE D == Places(p)
           b == [u \in D |-> {v \in D : Sooner(p, v, u)}]
           n == Cardinality(D)
           place == [k \in 1..n |->
               CHOOSE u \in D : Cardinality({v \in D : Sooner(p, v, u)}) = k - 1]
<1>1. \A u \in D : u = <<u[1], u[2]>> /\ u[1] \in Nat /\ u[2] \in Nat /\ At(p, u).id \in Nat
  BY PlaceFacts
<1>2. IsFiniteSet(D) /\ n \in Nat
  BY PlacesFinite, FS_CardinalityType
<1>3. b \in [D -> SUBSET D]
  OBVIOUS
<1>4. \A u \in D : u \notin b[u]
  BY <1>1 DEF Sooner
<1>5. ASSUME NEW u \in D, NEW v \in D, u \in b[v]  PROVE b[u] \subseteq b[v]
  <2> SUFFICES ASSUME NEW w \in D, Sooner(p, w, u)  PROVE Sooner(p, w, v)
    OBVIOUS
  <2>1. Sooner(p, u, v)
    BY <1>5
  <2>2. \A x \in {u, v, w} : x[1] \in Nat /\ x[2] \in Nat /\ At(p, x).id \in Nat
    BY <1>1
  <2> HIDE DEF b, D
  <2> QED  BY <2>1, <2>2 DEF Sooner
<1>6. ASSUME NEW u \in D, NEW v \in D, u # v  PROVE u \in b[v] \/ v \in b[u]
  <2>1. u[1] # v[1] \/ u[2] # v[2]
    BY <1>1, <1>6
  <2>2. Sooner(p, u, v) \/ Sooner(p, v, u)
    BY <1>1, <2>1 DEF Sooner
  <2> QED  BY <2>2
<1>7. \A k \in 1..n : \E u \in D : Cardinality(b[u]) = k - 1
  <2> HIDE DEF b, D
  <2> QED  BY <1>2, <1>3, <1>4, <1>5, <1>6, RankExists
<1>8. ASSUME NEW k \in 1..n
      PROVE  place[k] \in D /\ Cardinality(b[place[k]]) = k - 1
  <2>1. \E u \in D : Cardinality({v \in D : Sooner(p, v, u)}) = k - 1
    BY <1>7
  <2>2. place[k] = CHOOSE u \in D : Cardinality({v \in D : Sooner(p, v, u)}) = k - 1
    OBVIOUS
  <2>3. place[k] \in D /\ Cardinality({v \in D : Sooner(p, v, place[k])}) = k - 1
    <3> HIDE DEF place, D
    <3> QED  BY <2>1, <2>2
  <2>4. b[place[k]] = {v \in D : Sooner(p, v, place[k])}
    <3> HIDE DEF place, D
    <3> QED  BY <2>3
  <2> HIDE DEF place, D, b
  <2> QED  BY <2>3, <2>4
<1>9. AllOps(p) = [k \in 1..n |-> At(p, place[k])]
  BY DEF AllOps
<1> HIDE DEF place, n, b
<1>10. DOMAIN AllOps(p) = 1..n /\ \A k \in 1..n : AllOps(p)[k] = At(p, place[k])
  BY <1>9
<1>11. AllOps(p) \in Seq({At(p, u) : u \in D})
  <2>1. \A k \in 1..n : At(p, place[k]) \in {At(p, u) : u \in D}
    BY <1>8
  <2> HIDE DEF D
  <2> QED  BY <1>2, <1>9, <2>1
<1>12. place \in [1..n -> D]
  BY <1>8 DEF place
<1>13. \A k, l \in 1..n : k # l => place[k] # place[l]
  <2> SUFFICES ASSUME NEW k \in 1..n, NEW l \in 1..n, place[k] = place[l]  PROVE k = l
    OBVIOUS
  <2>1. Cardinality(b[place[k]]) = k - 1 /\ Cardinality(b[place[k]]) = l - 1
    BY <1>8
  <2> HIDE DEF D
  <2> QED  BY <1>2, <2>1
<1> QED  BY <1>10, <1>11, <1>12, <1>13

-----------------------------------------------------------------------------
(* The candidate.                                                           *)

\* An operation creates what exists or changes what does not.
OpFails(base, op) == Creates(op) <=> base[op.target] # Absent

\* The tree that operations of different targets make of another one: it is
\* known from their set.
Result(base, D) ==
    IF \E op \in D : OpFails(base, op) THEN Failed
    ELSE [t \in Targets |->
             IF \E op \in D : op.target = t
               THEN Outcome(CHOOSE op \in D : op.target = t, base[t]) ELSE base[t]]

\* No two of the operations have one target.
Disjoint(ops) ==
    /\ ops \in Seq(ToSet(ops))
    /\ \A k \in DOMAIN ops : ops[k].target \in Targets
    /\ \A k, l \in DOMAIN ops : k # l => ops[k].target # ops[l].target

(* One operation more. *)
LEMMA ResultOfOneMore ==
    ASSUME NEW base, NEW D, NEW op, op.target \in Targets,
           \A o \in D : o.target # op.target,
           \A o1, o2 \in D : o1.target = o2.target => o1 = o2
    PROVE  ApplyOp(Result(base, D), op) = Result(base, D \cup {op})
<1> DEFINE E == D \cup {op}
<1>1. CASE \E o \in D : OpFails(base, o)
  <2>1. Result(base, D) = Failed
    BY <1>1 DEF Result
  <2>2. \E o \in E : OpFails(base, o)
    BY <1>1
  <2>3. Result(base, E) = Failed
    BY <2>2 DEF Result
  <2>4. ApplyOp(Failed, op) = Failed
    BY DEF ApplyOp
  <2> HIDE DEF E
  <2>5. ApplyOp(Result(base, D), op) = Result(base, E)
    BY <2>1, <2>3, <2>4
  <2> QED  BY <2>5 DEF E
<1>2. CASE ~ \E o \in D : OpFails(base, o)
  <2> DEFINE r == Result(base, D)
             t0 == op.target
  <2>1. r = [t \in Targets |->
               IF \E o \in D : o.target = t
                 THEN Outcome(CHOOSE o \in D : o.target = t, base[t]) ELSE base[t]]
    BY <1>2 DEF Result
  <2>2. DOMAIN r = Targets /\ r # Failed /\ r[t0] = base[t0]
    <3>1. DOMAIN Failed = {}
      BY DEF Failed
    <3>2. DOMAIN r = Targets
      BY <2>1
    <3>3. r[t0] = base[t0]
      BY <2>1
    <3> HIDE DEF r
    <3> QED  BY <3>1, <3>2, <3>3
  <2>3. CASE OpFails(base, op)
    <3>1. ApplyOp(r, op) = Failed
      <4> HIDE DEF r
      <4> QED  BY <2>2, <2>3 DEF ApplyOp, OpFails
    <3>2. \E o \in E : OpFails(base, o)
      BY <2>3
    <3>3. Result(base, E) = Failed
      BY <3>2 DEF Result
    <3> HIDE DEF E
    <3>4. ApplyOp(Result(base, D), op) = Result(base, E)
      BY <3>1, <3>3
    <3> QED  BY <3>4 DEF E
  <2>4. CASE ~OpFails(base, op)
    <3>1. ApplyOp(r, op) = [r EXCEPT ![t0] = Outcome(op, @)]
      <4> HIDE DEF r
      <4> QED  BY <2>2, <2>4 DEF ApplyOp, OpFails
    <3>2. ~ \E o \in E : OpFails(base, o)
      BY <1>2, <2>4
    <3>3. Result(base, E) =
             [t \in Targets |->
                IF \E o \in E : o.target = t
                  THEN Outcome(CHOOSE o \in E : o.target = t, base[t]) ELSE base[t]]
      BY <3>2 DEF Result
    <3> DEFINE q == Result(base, E)
    <3>4. q[t0] = Outcome(op, base[t0])
      <4>1. (CHOOSE o \in E : o.target = t0) = op
        OBVIOUS
      <4>2. \E o \in E : o.target = t0
        OBVIOUS
      <4>3. q[t0] = Outcome(CHOOSE o \in E : o.target = t0, base[t0])
        BY <3>3, <4>2
      <4> HIDE DEF q, t0, E
      <4> QED  BY <4>1, <4>3
    <3>5. ASSUME NEW t \in Targets, t # t0  PROVE q[t] = r[t]
      <4>1. CASE \E o \in D : o.target = t
        <5>1. PICK o1 \in D : o1.target = t
          BY <4>1
        <5>2. (CHOOSE o \in D : o.target = t) = o1
          BY <5>1
        <5>3. (CHOOSE o \in E : o.target = t) = o1
          BY <3>5, <5>1
        <5>4. q[t] = Outcome(CHOOSE o \in E : o.target = t, base[t])
          BY <3>3, <5>1
        <5>5. r[t] = Outcome(CHOOSE o \in D : o.target = t, base[t])
          BY <2>1, <4>1
        <5> HIDE DEF q, r, E
        <5> QED  BY <5>2, <5>3, <5>4, <5>5
      <4>2. CASE ~ \E o \in D : o.target = t
        <5>1. ~ \E o \in E : o.target = t
          BY <3>5, <4>2
        <5>2. q[t] = base[t]
          BY <3>3, <5>1
        <5>3. r[t] = base[t]
          BY <2>1, <4>2
        <5> HIDE DEF q, r
        <5> QED  BY <5>2, <5>3
      <4> QED  BY <4>1, <4>2
    <3>6. DOMAIN q = Targets /\ q = [t \in Targets |-> q[t]]
      BY <3>3
    <3>7. [r EXCEPT ![t0] = Outcome(op, @)] =
             [t \in Targets |-> IF t = t0 THEN Outcome(op, base[t0]) ELSE r[t]]
      <4> HIDE DEF r
      <4> QED  BY <2>2
    <3>8. q = [t \in Targets |-> IF t = t0 THEN Outcome(op, base[t0]) ELSE r[t]]
      <4> HIDE DEF q, r, t0
      <4> QED  BY <3>4, <3>5, <3>6
    <3>9. ApplyOp(r, op) = q
      <4> HIDE DEF q, r, t0
      <4> QED  BY <3>1, <3>7, <3>8
    <3> QED  BY <3>9
  <2> QED  BY <2>3, <2>4
<1> QED  BY <1>1, <1>2

(* Operations of different targets make one tree in whatever order. *)
LEMMA PatchedIsResult ==
    ASSUME NEW base, base = [t \in Targets |-> base[t]], NEW ops, Disjoint(ops)
    PROVE  Patched(base, ops) = Result(base, ToSet(ops))
<1> DEFINE n == Len(ops)
           First(k) == {ops[i] : i \in 1..k}
           body(f) == [k \in 0..n |-> IF k = 0 THEN base ELSE ApplyOp(f[k - 1], ops[k])]
           G == CHOOSE f : f = body(f)
           g == [k \in 0..n |-> Result(base, First(k))]
<1>1. n \in Nat /\ DOMAIN ops = 1..n
  BY DEF Disjoint
<1>2. g[0] = base
  <2>1. First(0) = {}
    OBVIOUS
  <2>2. Result(base, {}) = [t \in Targets |-> base[t]]
    BY DEF Result
  <2>3. g[0] = Result(base, First(0))
    BY <1>1
  <2> HIDE DEF g, First
  <2> QED  BY <2>1, <2>2, <2>3
<1>3. ASSUME NEW k \in 1..n  PROVE g[k] = ApplyOp(g[k - 1], ops[k])
  <2>1. First(k) = First(k - 1) \cup {ops[k]}
    <3>1. \A i : i \in 1..k <=> (i \in 1..(k - 1) \/ i = k)
      BY <1>1
    <3> QED  BY <3>1
  <2>2. g[k] = Result(base, First(k)) /\ g[k - 1] = Result(base, First(k - 1))
    BY <1>1
  <2>3. ops[k].target \in Targets
    BY <1>1 DEF Disjoint
  <2>4. \A o \in First(k - 1) : o.target # ops[k].target
    <3>1. \A i \in 1..(k - 1) : i \in 1..n /\ i # k
      BY <1>1
    <3> QED  BY <1>1, <3>1 DEF Disjoint
  <2>5. \A o1, o2 \in First(k - 1) : o1.target = o2.target => o1 = o2
    <3>1. \A i \in 1..(k - 1) : i \in 1..n
      BY <1>1
    <3> QED  BY <1>1, <3>1 DEF Disjoint
  <2> DEFINE D == First(k - 1)
             o == ops[k]
  <2>6. ApplyOp(Result(base, D), o) = Result(base, D \cup {o})
    <3> HIDE DEF g, First
    <3> QED  BY <2>3, <2>4, <2>5, ResultOfOneMore
  <2> HIDE DEF g, First
  <2> QED  BY <2>1, <2>2, <2>6
<1>4. g = body(g)
  <2>1. \A k \in 0..n : k = 0 \/ k \in 1..n
    BY <1>1
  <2>2. DOMAIN g = 0..n /\ g = [k \in 0..n |-> g[k]]
    OBVIOUS
  <2> HIDE DEF g, n
  <2>3. \A k \in 0..n : g[k] = IF k = 0 THEN base ELSE ApplyOp(g[k - 1], ops[k])
    BY <1>2, <1>3, <2>1
  <2> QED  BY <2>2, <2>3
<1>5. G = body(G)
  <2> HIDE DEF body, g
  <2> QED  BY <1>4
<1>6. Patched(base, ops) = G[n]
  BY DEF Patched
<1>7. Alike(G, g, n)
  <2>1. G[0] = base
    <3>1. 0 \in 0..n
      BY <1>1
    <3> HIDE DEF G, n
    <3>2. G[0] = body(G)[0]
      BY <1>5
    <3> QED  BY <3>1, <3>2
  <2>2. ASSUME NEW k \in 1..n  PROVE G[k] = ApplyOp(G[k - 1], ops[k])
    <3>1. k \in 0..n /\ k # 0
      BY <1>1
    <3> HIDE DEF G, n
    <3>2. G[k] = body(G)[k]
      BY <1>5
    <3> QED  BY <3>1, <3>2
  <2> HIDE DEF G, g, n
  <2> QED  BY <1>2, <1>3, <2>1, <2>2 DEF Alike
<1>8. G[n] = g[n]
  <2>1. n \in 0..n
    BY <1>1
  <2> HIDE DEF G, g, n
  <2> QED  BY <1>1, <1>7, <2>1, SameIterates
<1>9. g[n] = Result(base, First(n)) /\ First(n) = ToSet(ops)
  BY <1>1 DEF ToSet
<1> HIDE DEF G, g, First
<1> QED  BY <1>6, <1>8, <1>9

(* The same for the operations turned around. *)
LEMMA ReverseDisjoint ==
    ASSUME NEW ops, Disjoint(ops)
    PROVE  Disjoint(Reverse(ops)) /\ ToSet(Reverse(ops)) = ToSet(ops)
<1> DEFINE n == Len(ops)
           r == Reverse(ops)
<1>1. n \in Nat /\ DOMAIN ops = 1..n
  BY DEF Disjoint
<1>2. DOMAIN r = 1..n /\ r = [i \in 1..n |-> ops[(n - i) + 1]]
  BY DEF Reverse
<1>3. \A i \in 1..n : /\ (n - i) + 1 \in 1..n /\ (n - ((n - i) + 1)) + 1 = i
                     /\ r[i] = ops[(n - i) + 1]
  BY <1>1, <1>2
<1> HIDE DEF n, r
<1>4. ToSet(r) = ToSet(ops)
  <2>1. \A i \in 1..n : \E k \in 1..n : r[i] = ops[k]
    BY <1>3
  <2>2. \A i \in 1..n : \E k \in 1..n : ops[i] = r[k]
    BY <1>3
  <2>3. ToSet(r) = {r[i] : i \in 1..n} /\ ToSet(ops) = {ops[i] : i \in 1..n}
    BY <1>1, <1>2 DEF ToSet
  <2>4. {r[i] : i \in 1..n} \subseteq {ops[i] : i \in 1..n}
    BY <2>1
  <2>5. {ops[i] : i \in 1..n} \subseteq {r[i] : i \in 1..n}
    BY <2>2
  <2> QED  BY <2>3, <2>4, <2>5
<1>5. r \in Seq(ToSet(r))
  <2>1. r \in [1..n -> ToSet(r)]
    BY <1>2 DEF ToSet
  <2> QED  BY <1>1, <2>1
<1>6. \A k \in 1..n : r[k].target \in Targets
  BY <1>1, <1>3 DEF Disjoint
<1>7. ASSUME NEW k \in 1..n, NEW l \in 1..n, k # l  PROVE r[k].target # r[l].target
  <2>1. (n - k) + 1 # (n - l) + 1
    BY <1>1, <1>7
  <2> QED  BY <1>1, <1>3, <2>1 DEF Disjoint
<1>8. Disjoint(r)
  BY <1>2, <1>5, <1>6, <1>7 DEF Disjoint
<1> QED  BY <1>4, <1>8 DEF r

(* What a candidate has changed is what an operation leaves of the base. *)
LEMMA ChangedByOperation ==
    ASSUME NEW base, base = [t \in Targets |-> base[t]], NEW ops, Disjoint(ops),
           Patched(base, ops) # Failed,
           NEW t \in Targets, Patched(base, ops)[t] # base[t]
    PROVE  \E op \in ToSet(ops) :
              op.target = t /\ Patched(base, ops)[t] = Outcome(op, base[t])
<1> DEFINE D == ToSet(ops)
           c == Patched(base, ops)
<1>1. c = Result(base, D)
  BY PatchedIsResult
<1>2. c = [u \in Targets |->
             IF \E op \in D : op.target = u
               THEN Outcome(CHOOSE op \in D : op.target = u, base[u]) ELSE base[u]]
  <2> HIDE DEF D
  <2> QED  BY <1>1 DEF Result
<1>3. \E op \in D : op.target = t
  <2>1. c[t] # base[t]
    OBVIOUS
  <2> HIDE DEF c, D
  <2> QED  BY <1>2, <2>1
<1> DEFINE op == CHOOSE o \in D : o.target = t
<1>4. op \in D /\ op.target = t
  <2> HIDE DEF D
  <2> QED  BY <1>3
<1>5. c[t] = Outcome(op, base[t])
  <2> HIDE DEF c, D
  <2> QED  BY <1>2, <1>3
<1> HIDE DEF c, D, op
<1>6. \E o \in D : o.target = t /\ c[t] = Outcome(o, base[t])
  BY <1>4, <1>5
<1> QED  BY <1>6 DEF c, D

-----------------------------------------------------------------------------
(* Proposals.                                                               *)

\* The groups of the stored proposals.
StoredGroups == UNION {ToSet(Stored(ProposalIn(f))) : f \in Files}

(* What is stored has the groups of the file, with their dependencies and    *)
(* operations. *)
LEMMA StoredFacts ==
    ASSUME NEW f \in Files
    PROVE  /\ Stored(ProposalIn(f)) \in Seq(StoredGroups)
           /\ DOMAIN Stored(ProposalIn(f)) = DOMAIN ProposalIn(f)
           /\ \A i \in DOMAIN ProposalIn(f) :
                 /\ Stored(ProposalIn(f))[i].id = ProposalIn(f)[i].id
                 /\ Stored(ProposalIn(f))[i].deps = ProposalIn(f)[i].deps
                 /\ Stored(ProposalIn(f))[i].ops = ProposalIn(f)[i].ops
<1> DEFINE p == ProposalIn(f)
           q == Stored(p)
<1>1. p \in Seq(ToSet(p)) /\ DOMAIN p = 1..Len(p) /\ Len(p) \in Nat
  BY ApprovalAssumption
<1>2. DOMAIN q = DOMAIN p
  BY DEF Stored
<1>3. q \in Seq(StoredGroups)
  <2>1. \A i \in DOMAIN q : q[i] \in ToSet(q)
    BY DEF ToSet
  <2>2. ToSet(q) \subseteq StoredGroups
    BY DEF StoredGroups
  <2>3. q = [i \in 1..Len(p) |-> q[i]]
    BY <1>1 DEF Stored
  <2> DEFINE m == Len(p)
  <2>4. m \in Nat /\ \A i \in 1..m : q[i] \in StoredGroups
    <3> HIDE DEF q
    <3> QED  BY <1>1, <1>2, <2>1, <2>2
  <2>5. q = [i \in 1..m |-> q[i]]
    BY <2>3
  <2> HIDE DEF q, p, m
  <2> QED  BY <2>4, <2>5
<1>4. ASSUME NEW i \in DOMAIN p
      PROVE  q[i].id = p[i].id /\ q[i].deps = p[i].deps /\ q[i].ops = p[i].ops
  <2> DEFINE g == p[i]
             cs == [j \in DOMAIN g.cases |->
                      [g.cases[j] EXCEPT !.metrics = {}, !.dimensions = {},
                                         !.expected = "", !.bound = Absent]]
  <2>1. g \in ToSet(p)
    BY DEF ToSet
  <2>2. g = [id |-> g.id, deps |-> g.deps, ops |-> g.ops, claims |-> g.claims,
             gates |-> g.gates, cases |-> g.cases]
    BY <2>1, ApprovalAssumption
  <2>3. q[i] = [g EXCEPT !.cases = cs]
    BY DEF Stored
  <2> HIDE DEF g, q, cs
  <2>4. q[i].id = g.id /\ q[i].deps = g.deps /\ q[i].ops = g.ops
    BY <2>2, <2>3
  <2> QED  BY <2>4 DEF g
<1> QED  BY <1>2, <1>3, <1>4

(* The groups that are stored. *)
LEMMA GroupFacts ==
    ASSUME NEW g \in StoredGroups
    PROVE  /\ g.ops \in Seq(Ops(g))
           /\ g.id \in Ids
           /\ \A op \in Ops(g) : op.target \in Targets /\ op.id \in Nat
<1>1. PICK f \in Files : g \in ToSet(Stored(ProposalIn(f)))
  BY DEF StoredGroups
<1>2. PICK i \in DOMAIN ProposalIn(f) : g = Stored(ProposalIn(f))[i]
  BY <1>1, StoredFacts DEF ToSet
<1>3. g.id = ProposalIn(f)[i].id /\ g.ops = ProposalIn(f)[i].ops
  BY <1>2, StoredFacts
<1>4. Ops(g) = Ops(ProposalIn(f)[i])
  BY <1>3 DEF Ops
<1>5. g.id \in Ids
  BY <1>3 DEF Ids, GroupIds
<1>6. g.ops \in Seq(Ops(g))
  <2>1. ProposalIn(f)[i] \in ToSet(ProposalIn(f))
    BY DEF ToSet
  <2> QED  BY <1>3, <1>4, <2>1, ApprovalAssumption
<1>7. Ops(g) \subseteq Operations
  BY <1>4 DEF Operations
<1> QED  BY <1>5, <1>6, <1>7, ApprovalAssumption

(* Proposals of stored groups are proper. *)
LEMMA StoredProper ==
    ASSUME NEW p \in Seq(StoredGroups)
    PROVE  Proper(p)
<1>1. \A i \in DOMAIN p : p[i] \in StoredGroups
  OBVIOUS
<1>2. p \in Seq(ToSet(p))
  BY DEF ToSet
<1> QED  BY <1>1, <1>2, GroupFacts DEF Proper

(* The groups asked for: stored ones, with the ids asked for. *)
LEMMA SelectFacts ==
    ASSUME NEW p \in Seq(StoredGroups), NEW ids
    PROVE  /\ Select(p, ids) \in Seq(StoredGroups)
           /\ GroupIds(Select(p, ids)) \subseteq ids
<1> DEFINE R == {g \in StoredGroups : g.id \in ids}
           s == [i \in DOMAIN p |-> IF p[i].id \in ids THEN <<p[i]>> ELSE <<>>]
<1>1. s \in Seq(Seq(R))
  <2>1. \A i \in DOMAIN p : (IF p[i].id \in ids THEN <<p[i]>> ELSE <<>>) \in Seq(R)
    <3>1. \A i \in DOMAIN p : p[i].id \in ids => p[i] \in R
      OBVIOUS
    <3> HIDE DEF R
    <3> QED  BY <3>1
  <2>2. DOMAIN p = 1..Len(p) /\ Len(p) \in Nat
    OBVIOUS
  <2> HIDE DEF R
  <2> QED  BY <2>1, <2>2
<1>2. Select(p, ids) = FlattenSeq(s)
  BY DEF Select
<1>3. Select(p, ids) \in Seq(R)
  <2> HIDE DEF R, s
  <2> QED  BY <1>1, <1>2, FlattenType
<1>4. \A i \in DOMAIN Select(p, ids) : Select(p, ids)[i] \in R
  <2> HIDE DEF R
  <2> QED  BY <1>3
<1>5. GroupIds(Select(p, ids)) \subseteq ids
  BY <1>4 DEF GroupIds
<1>6. Select(p, ids) \in Seq(StoredGroups)
  <2>1. R \subseteq StoredGroups
    OBVIOUS
  <2> HIDE DEF R
  <2> QED  BY <1>3, <2>1
<1> QED  BY <1>5, <1>6

(* If the first and the last group of an id are the same, they are one: two *)
(* equal groups would have one operation twice, and NoOverlap sees that. *)
LEMMA OneOfId ==
    ASSUME NEW p \in Seq(StoredGroups), ValidProposal(p),
           NEW i \in DOMAIN p, GroupOf(p, p[i].id) = ById(p, p[i].id)
    PROVE  /\ \A j \in DOMAIN p : p[j].id = p[i].id => j = i
           /\ p[i] = ById(p, p[i].id)
<1> DEFINE N == Named(p, p[i].id)
           n == Len(p)
<1>1. n \in Nat /\ DOMAIN p = 1..n
  OBVIOUS
<1>2. N \subseteq 1..n /\ i \in N /\ \A j \in DOMAIN p : p[j].id = p[i].id <=> j \in N
  BY <1>1 DEF Named
<1>3. Max(N) \in N /\ \A j \in N : Max(N) >= j
  <2>1. \E x \in N : \A y \in N : y <= x
    <3>1. N \in SUBSET (0..n) /\ N # {}
      <4> HIDE DEF N, n
      <4> QED  BY <1>1, <1>2
    <3> HIDE DEF N, n
    <3> QED  BY <1>1, <3>1, GreatestOf
  <2>2. \E x \in N : \A y \in N : x >= y
    <3> HIDE DEF N, n
    <3> QED  BY <1>1, <1>2, <2>1
  <2> HIDE DEF N
  <2> QED  BY <2>2 DEF Max
<1>4. Min(N) \in N /\ \A j \in N : Min(N) <= j
  <2>1. \E x \in N : \A y \in N : x <= y
    <3>1. N \in SUBSET Nat /\ N # {}
      <4> HIDE DEF N, n
      <4> QED  BY <1>1, <1>2
    <3> HIDE DEF N
    <3> QED  BY <3>1, LeastOf
  <2> HIDE DEF N
  <2> QED  BY <2>1 DEF Min
<1>5. p[Min(N)] = p[Max(N)]
  BY DEF GroupOf, ById
<1> HIDE DEF N
<1>6. Min(N) = Max(N)
  <2> DEFINE a == Min(N)
             z == Max(N)
  <2>1. a \in DOMAIN p /\ z \in DOMAIN p /\ p[a] = p[z]
    BY <1>1, <1>2, <1>3, <1>4, <1>5
  <2> HIDE DEF a, z
  <2>2. p[a].ops # <<>> /\ p[a].ops \in Seq(Ops(p[a]))
    <3>1. p[a].ops # <<>>
      BY <2>1 DEF ValidProposal
    <3>2. p[a].ops \in Seq(Ops(p[a]))
      BY <2>1, StoredProper DEF Proper
    <3> QED  BY <3>1, <3>2
  <2>3. 1 \in DOMAIN p[a].ops
    BY <2>2
  <2>4. <<a, 1>> \in Places(p) /\ <<z, 1>> \in Places(p)
    BY <2>1, <2>3 DEF Places
  <2>5. At(p, <<a, 1>>) = At(p, <<z, 1>>)
    BY <2>1 DEF At
  <2>6. <<a, 1>> = <<z, 1>>
    BY <2>4, <2>5 DEF ValidProposal, NoOverlap
  <2>7. a = z
    BY <2>6
  <2> QED  BY <2>7 DEF a, z
<1>7. ASSUME NEW j \in N  PROVE j = Max(N)
  <2>1. j <= Max(N) /\ Max(N) <= j
    BY <1>2, <1>3, <1>4, <1>6
  <2>2. j \in Nat /\ Max(N) \in Nat
    BY <1>1, <1>2, <1>3
  <2> QED  BY <2>1, <2>2
<1>8. \A j \in DOMAIN p : p[j].id = p[i].id => j = i
  BY <1>2, <1>7
<1>9. p[i] = ById(p, p[i].id)
  BY <1>2, <1>7 DEF ById, N
<1> QED  BY <1>8, <1>9

(* The operations of a batch have different targets, and each belongs to the *)
(* group its id is the name of. *)
LEMMA BatchOps ==
    ASSUME NEW p \in Seq(StoredGroups), ValidProposal(p), NEW ids,
           GroupIds(p) \subseteq ids, BatchDisjoint(ids, p),
           \A id \in ids : GroupOf(p, id) = ById(p, id)
    PROVE  /\ Disjoint(AllOps(p))
           /\ \A op \in ToSet(AllOps(p)) : \E id \in ids : op \in Ops(ById(p, id))
<1> DEFINE ops == AllOps(p)
<1>1. Proper(p)
  BY StoredProper
<1>2. \A i \in DOMAIN p : p[i].id \in ids
  BY DEF GroupIds
<1>3. \A i \in DOMAIN p : p[i] = ById(p, p[i].id)
  BY <1>2, OneOfId
<1>4. \A i, j \in DOMAIN p : p[i].id = p[j].id => i = j
  BY <1>2, OneOfId
<1>5. PICK place \in [DOMAIN ops -> Places(p)] :
         /\ \A k \in DOMAIN ops : ops[k] = At(p, place[k])
         /\ \A k, l \in DOMAIN ops : k # l => place[k] # place[l]
  BY <1>1, AllOpsFacts
<1>6. ops \in Seq({At(p, u) : u \in Places(p)})
  BY <1>1, AllOpsFacts
<1> HIDE DEF ops
<1>7. ASSUME NEW u \in Places(p), NEW v \in Places(p), u # v
      PROVE  At(p, u).target # At(p, v).target
  <2>1. /\ u = <<u[1], u[2]>> /\ u[1] \in DOMAIN p /\ u[2] \in DOMAIN p[u[1]].ops
        /\ v = <<v[1], v[2]>> /\ v[1] \in DOMAIN p /\ v[2] \in DOMAIN p[v[1]].ops
    BY <1>1, PlaceFacts
  <2> DEFINE id == p[u[1]].id
             jd == p[v[1]].id
  <2>2. id \in ids /\ jd \in ids /\ p[u[1]] = ById(p, id) /\ p[v[1]] = ById(p, jd)
    BY <1>2, <1>3, <2>1
  <2>3. <<id, u[2]>> # <<jd, v[2]>>
    <3>1. id # jd \/ u[1] = v[1]
      BY <1>4, <2>1
    <3>2. u[1] # v[1] \/ u[2] # v[2]
      BY <1>7, <2>1
    <3> HIDE DEF id, jd
    <3> QED  BY <3>1, <3>2
  <2>4. TargetId(At(p, u).target) # TargetId(At(p, v).target)
    <3> HIDE DEF id, jd
    <3>1. u[2] \in DOMAIN ById(p, id).ops /\ v[2] \in DOMAIN ById(p, jd).ops
      BY <2>1, <2>2
    <3>2. TargetId(ById(p, id).ops[u[2]].target) # TargetId(ById(p, jd).ops[v[2]].target)
      BY <2>2, <2>3, <3>1 DEF BatchDisjoint
    <3> QED  BY <2>2, <3>2 DEF At
  <2> QED  BY <2>4
<1>8. Disjoint(ops)
  <2>1. ops \in Seq(ToSet(ops))
    BY <1>6 DEF ToSet
  <2>2. \A k \in DOMAIN ops : place[k] \in Places(p)
    BY <1>5
  <2>3. \A k \in DOMAIN ops : ops[k].target \in Targets
    BY <1>1, <1>5, <2>2, PlaceFacts
  <2>4. \A k, l \in DOMAIN ops : k # l => ops[k].target # ops[l].target
    BY <1>5, <1>7, <2>2
  <2> QED  BY <2>1, <2>3, <2>4 DEF Disjoint
<1>9. ASSUME NEW op \in ToSet(ops)  PROVE \E id \in ids : op \in Ops(ById(p, id))
  <2>1. PICK k \in DOMAIN ops : op = ops[k]
    BY DEF ToSet
  <2>2. place[k] \in Places(p) /\ op = At(p, place[k])
    BY <1>5, <2>1
  <2>3. place[k][1] \in DOMAIN p /\ op \in Ops(p[place[k][1]])
    BY <1>1, <2>2, PlaceFacts
  <2> QED  BY <1>2, <1>3, <2>3
<1> QED  BY <1>8, <1>9 DEF ops

-----------------------------------------------------------------------------
(* The inductive invariant.                                                 *)

\* What a command knows of the groups it has opened.
Formed(c, ids) ==
    /\ c.base = [t \in Targets |-> c.base[t]]
    /\ c.proposal \in Seq(StoredGroups) /\ ValidProposal(c.proposal)
    /\ GroupIds(c.proposal) \subseteq ids
    /\ c.candidate = Reconstruct(c.base, c.proposal) /\ c.candidate # Failed
    /\ c.verification.proposal = c.proposal
    /\ c.session.charter = c.approver

\* A batch on disk: its candidate is that of its base and of the proposal its
\* verification names, of which its attestations hold the accepted groups.
Prepared(b) ==
    /\ DOMAIN b.groups # {}
    /\ b.base = [t \in Targets |-> b.base[t]]
    /\ b.candidate = Reconstruct(b.base, b.verification.proposal)
    /\ b.candidate # Failed
    /\ b.summary.groups = b.verification.proposal
    /\ b.verification.proposal \in Seq(StoredGroups)
    /\ ValidProposal(b.verification.proposal)
    /\ GroupIds(b.verification.proposal) \subseteq ToSet(b.groups)
    /\ BatchDisjoint(ToSet(b.groups), b.verification.proposal)
    /\ \A i \in DOMAIN b.groups :
          /\ b.attestations[i].decision = "accepted"
          /\ b.attestations[i].group = ById(b.verification.proposal, b.groups[i])

\* What AppliedWasAttested and OrderFree say of a batch.
Accounted(b, S) ==
    /\ Traced(b, S)
    /\ b.candidate = Patched(b.base, Reverse(AllOps(b.summary.groups)))

\* The approver of the session the batch names signed it.
Vouched(b, a) == a.batch = b /\ a.approver = b.session.charter

\* The new states are those of the candidate.
FromBatch(b, new) == new = [t \in DOMAIN new |-> b.candidate[t]]

IsTxn(t) ==
    /\ t = [batch |-> t.batch, state |-> t.state, old |-> t.old, new |-> t.new]
    /\ t.state \in {"pending", "completed", "rolled_back"}

IsApplied(a, S) ==
    /\ a = [batch |-> a.batch, new |-> a.new, approval |-> a.approval, fate |-> a.fate]
    /\ Accounted(a.batch, S) /\ Vouched(a.batch, a.approval) /\ FromBatch(a.batch, a.new)

AttestJob(j) ==
    /\ j.at = "attest"
    /\ j.id \in Ids
    /\ j.context.session.charter = j.context.approver
PrepareJob(j) ==
    /\ j.at = "prepare"
    /\ DOMAIN j.ids # {}
    /\ Formed(j.context, ToSet(j.ids))
    /\ BatchDisjoint(ToSet(j.ids), j.context.proposal)
ValidateJob(j) ==
    /\ j.at = "validate"
    /\ j = [at |-> j.at, batch |-> j.batch, approval |-> j.approval,
            context |-> j.context]
    /\ Prepared(j.batch)
    /\ Matches(j.batch, j.approval, j.context)
    /\ Formed(j.context, ToSet(j.batch.groups))
CreateJob(j, S) ==
    /\ j.at = "create"
    /\ Accounted(j.batch, S)
    /\ Vouched(j.batch, j.approval)
    /\ j.context.candidate = j.batch.candidate
TxnJob(j, S) ==
    /\ j.at \in {"commit", "record"}
    /\ j = [at |-> j.at, txn |-> j.txn, approval |-> j.approval, candidate |-> j.candidate]
    /\ IsTxn(j.txn)
    /\ Accounted(j.txn.batch, S)
    /\ Vouched(j.txn.batch, j.approval)
    /\ FromBatch(j.txn.batch, j.txn.new)
JobOK(j, S) ==
    \/ j = Idle \/ AttestJob(j) \/ PrepareJob(j)
    \/ ValidateJob(j) \/ CreateJob(j, S) \/ TxnJob(j, S)

TreeInv == tree = [t \in Targets |-> tree[t]]
RecordInv == record = None \/ \E f \in Importable : record = Stored(ProposalIn(f))
SignedInv == \A s \in signed : s.approver = s.session.charter
AttestedInv ==
    \A id \in DOMAIN attested :
        id \in Ids /\ attested[id] \in signed /\ attested[id].id = id
PapersInv ==
    /\ batch = None \/ Prepared(batch)
    /\ approval = None \/ DOMAIN approval.batch.groups # {}
TxnsInv == IsFiniteSet(txns) /\ \A t \in txns : IsTxn(t)
ExportsInv == \A b \in exports : Accounted(b, signed)
AppliedInv == \A a \in applied : IsApplied(a, signed)
JobsInv == job = [p \in Procs |-> job[p]] /\ \A p \in Procs : JobOK(job[p], signed)
CountInv ==
    /\ count = [commands |-> count.commands, imports |-> count.imports,
                changes |-> count.changes, kills |-> count.kills]
    /\ count.commands \in [Procs -> Nat]
    /\ \A p \in Procs : count.commands[p] <= MaxCommands[p]
    /\ count.changes \in Nat /\ count.kills \in Nat
    /\ count.changes + count.kills <= MaxChanges

PapersOK == RecordInv /\ SignedInv /\ AttestedInv /\ PapersInv
HistoryOK == TxnsInv /\ ExportsInv /\ AppliedInv /\ AppliedIsRecorded
IInv == TreeInv /\ PapersOK /\ HistoryOK /\ JobsInv /\ CountInv

-----------------------------------------------------------------------------
(* Decisions are never taken back.                                          *)

(* ... so what they account for stays accounted for. *)
LEMMA AccountedKept ==
    ASSUME NEW S, NEW T, S \subseteq T, NEW b, Accounted(b, S)
    PROVE  Accounted(b, T)
<1>1. \A i \in DOMAIN b.groups : \E s \in T :
         /\ s.id = b.groups[i] /\ s.decision = "accepted"
         /\ s.session = b.session /\ s.approver = b.session.charter
  BY DEF Accounted, Traced
<1>2. \A t \in {u \in Targets : b.candidate[u] # b.base[u]} :
         \E s \in {x \in T : x.decision = "accepted" /\ x.id \in ToSet(b.groups)} :
             \E op \in Ops(s.group) :
                 op.target = t /\ b.candidate[t] = Outcome(op, b.base[t])
  BY DEF Accounted, Traced
<1>3. b.candidate = Patched(b.base, Reverse(AllOps(b.summary.groups)))
  BY DEF Accounted
<1> QED  BY <1>1, <1>2, <1>3 DEF Accounted, Traced

(* ... and so do the jobs and the applied batches. *)
LEMMA JobKept ==
    ASSUME NEW S, NEW T, S \subseteq T, NEW j, JobOK(j, S)
    PROVE  JobOK(j, T)
<1>1. CreateJob(j, S) => CreateJob(j, T)
  BY AccountedKept DEF CreateJob
<1>2. TxnJob(j, S) => TxnJob(j, T)
  BY AccountedKept DEF TxnJob
<1> QED  BY <1>1, <1>2 DEF JobOK

LEMMA AppliedKept ==
    ASSUME NEW S, NEW T, S \subseteq T, NEW a, IsApplied(a, S)
    PROVE  IsApplied(a, T)
BY AccountedKept DEF IsApplied

-----------------------------------------------------------------------------
(* Contexts and batches.                                                    *)

(* The stored proposal. *)
LEMMA RecordFacts ==
    ASSUME RecordInv, record # None
    PROVE  /\ record \in Seq(StoredGroups)
           /\ GroupIds(record) \subseteq Ids
           /\ \A i \in DOMAIN record : record[i].deps \subseteq GroupIds(record)
<1>1. PICK f \in Importable : record = Stored(ProposalIn(f))
  BY DEF RecordInv
<1>2. f \in Files /\ ValidProposal(ProposalIn(f))
  BY DEF Importable
<1> DEFINE p == ProposalIn(f)
<1>3. /\ record \in Seq(StoredGroups)
      /\ DOMAIN record = DOMAIN p
      /\ \A i \in DOMAIN p : record[i].id = p[i].id /\ record[i].deps = p[i].deps
  BY <1>1, <1>2, StoredFacts
<1>4. GroupIds(record) = GroupIds(p)
  BY <1>3 DEF GroupIds
<1>5. GroupIds(p) \subseteq Ids
  BY <1>2 DEF Ids
<1>6. \A i \in DOMAIN p : p[i].deps \subseteq GroupIds(p)
  BY <1>2 DEF ValidProposal, DependenciesKnown
<1> QED  BY <1>3, <1>4, <1>5, <1>6

(* What a command knows of the groups it opens. *)
LEMMA ContextFormed ==
    ASSUME TreeInv, RecordInv, NEW ids, Opens(ids)
    PROVE  Formed(Context(ids), ids)
<1> DEFINE p == Select(record, ids)
           c == Reconstruct(tree, p)
           w == Verify(p, c, world)
<1>1. record # None /\ ValidProposal(p) /\ c # Failed
  BY DEF Opens
<1>2. p \in Seq(StoredGroups) /\ GroupIds(p) \subseteq ids
  BY <1>1, RecordFacts, SelectFacts
<1>3. w.proposal = p
  BY DEF Verify
<1>4. tree = [t \in Targets |-> tree[t]]
  BY DEF TreeInv
<1>5. SessionHashes(tree, world).charter = world.approver
  BY DEF SessionHashes
<1>6. Context(ids) = [proposal |-> p, base |-> tree, candidate |-> c, verification |-> w,
                      session |-> SessionHashes(tree, world), approver |-> world.approver]
  BY DEF Context
<1> HIDE DEF p, c, w
<1>7. /\ Context(ids).proposal = p /\ Context(ids).base = tree
      /\ Context(ids).candidate = c /\ Context(ids).verification = w
      /\ Context(ids).session.charter = Context(ids).approver
  BY <1>5, <1>6
<1>8. c = Reconstruct(tree, p)
  BY DEF c
<1> QED  BY <1>1, <1>2, <1>3, <1>4, <1>7, <1>8 DEF Formed

(* A batch whose attestations are those on disk and current: export-preview *)
(* and apply both ask for that, and it is enough for what they write. *)
LEMMA BatchAccounted ==
    ASSUME SignedInv, AttestedInv, NEW b, Prepared(b),
           NEW c, c.proposal = b.verification.proposal, c.session = b.session,
           Unchanged(b, c)
    PROVE  Accounted(b, signed)
<1> DEFINE p == b.verification.proposal
           ids == ToSet(b.groups)
           ops == AllOps(p)
<1>1. ASSUME NEW i \in DOMAIN b.groups
      PROVE  LET s == attested[b.groups[i]] IN
             /\ s \in signed /\ s.id = b.groups[i] /\ s.decision = "accepted"
             /\ s.session = b.session /\ s.approver = b.session.charter
             /\ s.group = ById(p, b.groups[i]) /\ s.group = GroupOf(p, b.groups[i])
  <2> DEFINE id == b.groups[i]
             s == attested[id]
  <2>1. /\ id \in DOMAIN attested
        /\ s = b.attestations[i]
        /\ Current(s, GroupOf(c.proposal, id), c, Alone(id))
    BY DEF Unchanged
  <2>2. s \in signed /\ s.id = id
    BY <2>1 DEF AttestedInv
  <2>3. s.decision = "accepted" /\ s.group = ById(p, id)
    BY <2>1 DEF Prepared
  <2>4. s.session = c.session /\ s.group = GroupOf(p, id)
    BY <2>1 DEF Current
  <2>5. s.approver = s.session.charter
    BY <2>2 DEF SignedInv
  <2>6. s.session = b.session /\ s.approver = b.session.charter
    BY <2>4, <2>5
  <2> QED  BY <2>2, <2>3, <2>4, <2>6
<1>2. \A id \in ids : \E i \in DOMAIN b.groups : id = b.groups[i]
  BY DEF ToSet
<1>3. \A id \in ids : GroupOf(p, id) = ById(p, id)
  BY <1>1, <1>2
<1>4. p \in Seq(StoredGroups) /\ ValidProposal(p) /\ GroupIds(p) \subseteq ids
      /\ BatchDisjoint(ids, p)
  BY DEF Prepared
<1>5. /\ Disjoint(ops)
      /\ \A op \in ToSet(ops) : \E id \in ids : op \in Ops(ById(p, id))
  <2> HIDE DEF p, ids
  <2> QED  BY <1>3, <1>4, BatchOps
<1>6. /\ b.base = [t \in Targets |-> b.base[t]]
      /\ b.candidate = Patched(b.base, ops) /\ b.candidate # Failed
      /\ b.summary.groups = p
  BY DEF Prepared, Reconstruct
<1>7. b.candidate = Patched(b.base, Reverse(ops))
  <2>1. Patched(b.base, ops) = Result(b.base, ToSet(ops))
    <3> HIDE DEF ops
    <3> QED  BY <1>5, <1>6, PatchedIsResult
  <2>2. Disjoint(Reverse(ops)) /\ ToSet(Reverse(ops)) = ToSet(ops)
    <3> HIDE DEF ops
    <3> QED  BY <1>5, ReverseDisjoint
  <2>3. Patched(b.base, Reverse(ops)) = Result(b.base, ToSet(Reverse(ops)))
    <3> HIDE DEF ops
    <3> QED  BY <1>6, <2>2, PatchedIsResult
  <2> HIDE DEF ops
  <2> QED  BY <1>6, <2>1, <2>2, <2>3
<1>8. \A i \in DOMAIN b.groups : \E s \in signed :
         /\ s.id = b.groups[i] /\ s.decision = "accepted"
         /\ s.session = b.session /\ s.approver = b.session.charter
  BY <1>1
<1>9. ASSUME NEW t \in {u \in Targets : b.candidate[u] # b.base[u]}
      PROVE  \E s \in {x \in signed : x.decision = "accepted" /\ x.id \in ids} :
                \E op \in Ops(s.group) :
                    op.target = t /\ b.candidate[t] = Outcome(op, b.base[t])
  <2>1. PICK op \in ToSet(ops) : op.target = t /\ b.candidate[t] = Outcome(op, b.base[t])
    <3>1. t \in Targets /\ Patched(b.base, ops)[t] # b.base[t] /\ Patched(b.base, ops) # Failed
      <4> HIDE DEF ops
      <4> QED  BY <1>6
    <3>2. \E op \in ToSet(ops) :
             op.target = t /\ Patched(b.base, ops)[t] = Outcome(op, b.base[t])
      <4> HIDE DEF ops
      <4> QED  BY <1>5, <1>6, <3>1, ChangedByOperation
    <3> HIDE DEF ops
    <3> QED  BY <1>6, <3>2
  <2>2. PICK id \in ids : op \in Ops(ById(p, id))
    <3> HIDE DEF ops, ids, p
    <3> QED  BY <1>5, <2>1
  <2>3. PICK i \in DOMAIN b.groups : id = b.groups[i]
    BY <1>2
  <2> DEFINE s == attested[id]
  <2>4. s \in signed /\ s.id = id /\ s.decision = "accepted" /\ s.group = ById(p, id)
    BY <1>1, <2>3
  <2> HIDE DEF s, ids, p, ops
  <2>5. s \in {x \in signed : x.decision = "accepted" /\ x.id \in ids} /\ op \in Ops(s.group)
    BY <2>2, <2>4
  <2> QED  BY <2>1, <2>5
<1>10. Traced(b, signed)
  BY <1>8, <1>9 DEF Traced
<1>11. b.candidate = Patched(b.base, Reverse(AllOps(b.summary.groups)))
  <2>1. b.summary.groups = p
    BY <1>6
  <2> HIDE DEF p
  <2> QED  BY <1>7, <2>1
<1> QED  BY <1>10, <1>11 DEF Accounted

-----------------------------------------------------------------------------
(* What most steps leave alone.                                             *)

\* The batches whose transactions are completed, and those that are applied.
CompletedIn(ts) == {t.batch : t \in {u \in ts : u.state = "completed"}}
Completed == CompletedIn(txns)
AppliedBatches == {a.batch : a \in applied}

(* A process that takes up a job. *)
LEMMA JobTaken ==
    ASSUME JobsInv, NEW p \in Procs, NEW j, job' = [job EXCEPT ![p] = j],
           JobOK(j, signed'), signed \subseteq signed'
    PROVE  JobsInv' /\ \A q \in Procs : job'[q] = IF q = p THEN j ELSE job[q]
<1>1. \A q \in Procs : job'[q] = IF q = p THEN j ELSE job[q]
  BY DEF JobsInv
<1>2. job' = [q \in Procs |-> job'[q]]
  BY DEF JobsInv
<1>3. ASSUME NEW q \in Procs  PROVE JobOK(job'[q], signed')
  <2>1. CASE q = p
    BY <1>1, <2>1
  <2>2. CASE q # p
    <3>1. job'[q] = job[q] /\ JobOK(job[q], signed)
      BY <1>1, <2>2 DEF JobsInv
    <3> QED  BY <3>1, JobKept
  <2> QED  BY <2>1, <2>2
<1> QED  BY <1>1, <1>2, <1>3 DEF JobsInv

(* A job that a process takes up or ends leaves every batch accounted for     *)
(* and every process at its record, when it is no record that it ends.        *)
LEMMA HistoryRests ==
    ASSUME JobsInv, HistoryOK, NEW p \in Procs, job[p].at # "record",
           \A q \in Procs : q # p => job'[q] = job[q],
           TxnsInv', Completed' = Completed, applied' = applied,
           signed \subseteq signed', \A b \in exports' \ exports : Accounted(b, signed'),
           count'.kills = 0 => count.kills = 0
    PROVE  HistoryOK'
<1>1. ExportsInv'
  <2> SUFFICES ASSUME NEW b \in exports'  PROVE Accounted(b, signed')
    BY DEF ExportsInv
  <2>1. CASE b \in exports
    BY <2>1, AccountedKept DEF HistoryOK, ExportsInv
  <2>2. CASE b \notin exports
    BY <2>2
  <2> QED  BY <2>1, <2>2
<1>2. AppliedInv'
  BY AppliedKept DEF HistoryOK, AppliedInv
<1>3. AppliedIsRecorded'
  <2>1. Completed' = AppliedBatches'
    BY DEF HistoryOK, AppliedIsRecorded, Completed, CompletedIn, AppliedBatches
  <2>2. ASSUME count'.kills = 0, NEW a \in applied, a.fate = "open"
        PROVE  \E q \in Procs : job'[q].at = "record" /\ job'[q].txn.batch = a.batch
    <3>1. count.kills = 0
      BY <2>2
    <3>2. PICK q \in Procs : job[q].at = "record" /\ job[q].txn.batch = a.batch
      BY <2>2, <3>1 DEF HistoryOK, AppliedIsRecorded
    <3>3. job'[q] = job[q]
      BY <3>2
    <3> QED  BY <3>2, <3>3
  <2> QED  BY <2>1, <2>2 DEF AppliedIsRecorded, Completed, CompletedIn, AppliedBatches
<1> QED  BY <1>1, <1>2, <1>3 DEF HistoryOK

(* The same of the step of a process that leaves the transactions alone. *)
LEMMA HistorySame ==
    ASSUME JobsInv, HistoryOK, NEW p \in Procs, job[p].at # "record",
           \A q \in Procs : q # p => job'[q] = job[q],
           txns' = txns, applied' = applied,
           signed \subseteq signed', \A b \in exports' \ exports : Accounted(b, signed'),
           count'.kills = count.kills
    PROVE  HistoryOK'
<1>1. TxnsInv' /\ Completed' = Completed
  BY DEF HistoryOK, TxnsInv, Completed, CompletedIn
<1> QED  BY <1>1, HistoryRests

(* A step after which some transactions are no longer completed, and their     *)
(* batches no longer applied.                                                *)
LEMMA HistoryTaken ==
    ASSUME HistoryOK, NEW p \in Procs,
           \A q \in Procs : q # p => job'[q] = job[q],
           TxnsInv', Completed' \subseteq Completed, applied' = Kept(txns'),
           UNCHANGED <<signed, exports>>,
           count'.kills = 0 => count.kills = 0 /\ job[p].at # "record"
    PROVE  HistoryOK'
<1>1. \A a : a \in applied' <=> a \in applied /\ a.batch \in Completed'
  BY DEF Kept, Completed, CompletedIn
<1>2. AppliedInv' /\ ExportsInv'
  BY <1>1 DEF HistoryOK, AppliedInv, ExportsInv
<1>3. Completed = AppliedBatches
  BY DEF HistoryOK, AppliedIsRecorded, Completed, CompletedIn, AppliedBatches
<1>4. Completed' = AppliedBatches'
  <2>1. \A b \in Completed' : \E a \in applied' : b = a.batch
    <3>1. ASSUME NEW b \in Completed'  PROVE \E a \in applied' : b = a.batch
      <4>1. PICK a \in applied : b = a.batch
        BY <1>3 DEF AppliedBatches
      <4> QED  BY <1>1, <4>1
    <3> QED  BY <3>1
  <2>2. \A a \in applied' : a.batch \in Completed'
    BY <1>1
  <2> QED  BY <2>1, <2>2 DEF AppliedBatches
<1>5. ASSUME count'.kills = 0, NEW a \in applied', a.fate = "open"
      PROVE  \E q \in Procs : job'[q].at = "record" /\ job'[q].txn.batch = a.batch
  <2>1. PICK q \in Procs : job[q].at = "record" /\ job[q].txn.batch = a.batch
    BY <1>1, <1>5 DEF HistoryOK, AppliedIsRecorded
  <2>2. job'[q] = job[q]
    BY <1>5, <2>1
  <2> QED  BY <2>1, <2>2
<1>6. AppliedIsRecorded'
  BY <1>4, <1>5 DEF AppliedIsRecorded, Completed, CompletedIn, AppliedBatches
<1> QED  BY <1>2, <1>6 DEF HistoryOK

(* A command that begins. *)
LEMMA Begun ==
    ASSUME JobsInv, CountInv, NEW p \in Procs, NEW j, Begins(p, j),
           JobOK(j, signed'), signed \subseteq signed'
    PROVE  /\ JobsInv' /\ CountInv'
           /\ count'.kills = count.kills /\ job[p].at # "record"
           /\ \A q \in Procs : q # p => job'[q] = job[q]
<1>1. job' = [job EXCEPT ![p] = j] /\ job[p] = Idle /\ count.commands[p] < MaxCommands[p]
  BY DEF Begins, Free
<1>2. JobsInv' /\ \A q \in Procs : job'[q] = IF q = p THEN j ELSE job[q]
  BY <1>1, JobTaken
<1> DEFINE cs == [count.commands EXCEPT ![p] = @ + 1]
<1>3. count' = [count EXCEPT !.commands = cs]
  BY DEF Begins
<1>4. /\ count'.commands = cs /\ count'.imports = count.imports
      /\ count'.changes = count.changes /\ count'.kills = count.kills
      /\ count' = [commands |-> count'.commands, imports |-> count'.imports,
                   changes |-> count'.changes, kills |-> count'.kills]
  <2> HIDE DEF cs
  <2> QED  BY <1>3 DEF CountInv
<1>5. cs \in [Procs -> Nat] /\ \A q \in Procs : cs[q] <= MaxCommands[q]
  <2>1. count.commands \in [Procs -> Nat] /\ \A q \in Procs : count.commands[q] <= MaxCommands[q]
    BY DEF CountInv
  <2>2. \A q \in Procs : cs[q] = IF q = p THEN count.commands[q] + 1 ELSE count.commands[q]
    BY <2>1
  <2>3. MaxCommands \in [Procs -> Nat]
    BY ApprovalAssumption
  <2>4. ASSUME NEW q \in Procs  PROVE cs[q] <= MaxCommands[q]
    <3> HIDE DEF cs
    <3> QED  BY <1>1, <2>1, <2>2, <2>3
  <2>5. cs \in [Procs -> Nat]
    BY <2>1
  <2> QED  BY <2>4, <2>5
<1>6. CountInv'
  <2> HIDE DEF cs
  <2> QED  BY <1>4, <1>5 DEF CountInv
<1>7. job[p].at # "record"
  BY <1>1 DEF Idle
<1> QED  BY <1>2, <1>4, <1>6, <1>7

LEMMA IdleOK ==
    ASSUME NEW S  PROVE JobOK(Idle, S)
BY DEF JobOK

(* A step that leaves the counters, or all papers and decisions, as they are. *)
LEMMA PapersSame ==
    ASSUME PapersOK, UNCHANGED <<papers, signed>>
    PROVE  PapersOK'
BY DEF PapersOK, RecordInv, SignedInv, AttestedInv, PapersInv, papers

-----------------------------------------------------------------------------
(* Transactions.                                                            *)

(* What a transaction may be written down as. *)
LEMMA TxnMoved ==
    ASSUME NEW t, IsTxn(t), NEW s \in {"pending", "completed", "rolled_back"}
    PROVE  /\ IsTxn([t EXCEPT !.state = s])
           /\ [t EXCEPT !.state = s].batch = t.batch
           /\ [t EXCEPT !.state = s].state = s
<1> DEFINE r == [t EXCEPT !.state = s]
<1>1. t = [batch |-> t.batch, state |-> t.state, old |-> t.old, new |-> t.new]
  BY DEF IsTxn
<1>2. r = [batch |-> t.batch, state |-> s, old |-> t.old, new |-> t.new]
  BY <1>1
<1> HIDE DEF r
<1>3. IsTxn(r) /\ r.batch = t.batch /\ r.state = s
  BY <1>2 DEF IsTxn
<1> QED  BY <1>3 DEF r

\* What holds of the transactions on disk.
IsTxns(ts) == IsFiniteSet(ts) /\ \A t \in ts : IsTxn(t)

(* A transaction that is written down, and what that does to the completed ones. *)
LEMMA StateOfKeeps ==
    ASSUME NEW ts, IsTxns(ts), NEW t, IsTxn(t),
           NEW s \in {"pending", "completed", "rolled_back"}
    PROVE  /\ IsTxns(StateOf(ts, t, s))
           /\ CompletedIn(StateOf(ts, t, s)) =
                 (CompletedIn(ts) \ {t.batch})
                 \cup (IF s = "completed" THEN {t.batch} ELSE {})
<1> DEFINE r == [t EXCEPT !.state = s]
           us == StateOf(ts, t, s)
<1>1. IsTxn(r) /\ r.batch = t.batch /\ r.state = s
  BY TxnMoved
<1>2. us = (ts \ {u \in ts : u.batch = t.batch}) \cup {r}
  BY DEF StateOf
<1> HIDE DEF r, us
<1>3. IsFiniteSet(us)
  <2>1. IsFiniteSet(ts \ {u \in ts : u.batch = t.batch})
    BY FS_Subset DEF IsTxns
  <2> QED  BY <1>2, <2>1, FS_AddElement
<1>4. \A u : u \in us <=> (u \in ts /\ u.batch # t.batch) \/ u = r
  BY <1>2
<1>5. IsTxns(us)
  BY <1>1, <1>3, <1>4 DEF IsTxns
<1>6. ASSUME NEW b  PROVE b \in CompletedIn(us) <=>
         (b \in CompletedIn(ts) /\ b # t.batch) \/ (s = "completed" /\ b = t.batch)
  <2>1. b \in CompletedIn(us) <=> \E u \in us : u.state = "completed" /\ u.batch = b
    BY DEF CompletedIn
  <2>2. b \in CompletedIn(ts) <=> \E u \in ts : u.state = "completed" /\ u.batch = b
    BY DEF CompletedIn
  <2>3. (\E u \in us : u.state = "completed" /\ u.batch = b) <=>
           (\E u \in ts : u.batch # t.batch /\ u.state = "completed" /\ u.batch = b)
           \/ (s = "completed" /\ b = t.batch)
    BY <1>1, <1>4
  <2> QED  BY <2>1, <2>2, <2>3
<1>7. CompletedIn(us) = (CompletedIn(ts) \ {t.batch})
                       \cup (IF s = "completed" THEN {t.batch} ELSE {})
  BY <1>6
<1> QED  BY <1>5, <1>7 DEF us

\* What recovery holds of the tree and the transactions on its way.
Recovers(r) ==
    /\ r = [ok |-> r.ok, tree |-> r.tree, txns |-> r.txns]
    /\ r.tree = [t \in Targets |-> r.tree[t]]
    /\ IsTxns(r.txns) /\ CompletedIn(r.txns) \subseteq Completed

LEMMA WholeType ==
    ASSUME NEW files, files = [t \in Targets |-> files[t]], NEW values
    PROVE  Whole(files, values) = [t \in Targets |-> Whole(files, values)[t]]
BY DEF Whole, Overlaid

(* A transaction that is taken back. *)
LEMMA TakenBackKeeps ==
    ASSUME NEW r, Recovers(r), NEW t, IsTxn(t)
    PROVE  Recovers(TakenBack(r, t))
<1> DEFINE q == [ok |-> TRUE, tree |-> Whole(r.tree, t.old),
                 txns |-> StateOf(r.txns, t, "rolled_back")]
           e == [ok |-> FALSE, tree |-> r.tree, txns |-> r.txns]
<1>1. TakenBack(r, t) \in {r, q, e}
  BY DEF TakenBack
<1>2. Recovers(q)
  <2>1. q.tree = Whole(r.tree, t.old) /\ q.txns = StateOf(r.txns, t, "rolled_back")
        /\ q = [ok |-> q.ok, tree |-> q.tree, txns |-> q.txns]
    OBVIOUS
  <2> HIDE DEF q
  <2>2. q.tree = [u \in Targets |-> q.tree[u]]
    BY <2>1, WholeType DEF Recovers
  <2>3. IsTxns(q.txns) /\ CompletedIn(q.txns) = CompletedIn(r.txns) \ {t.batch}
    <3>1. IsTxns(r.txns)
      BY DEF Recovers
    <3>2. CompletedIn(q.txns) = (CompletedIn(r.txns) \ {t.batch}) \cup {}
      BY <2>1, <3>1, StateOfKeeps
    <3>3. IsTxns(q.txns)
      BY <2>1, <3>1, StateOfKeeps
    <3> QED  BY <3>2, <3>3
  <2> QED  BY <2>1, <2>2, <2>3 DEF Recovers
<1>3. Recovers(e)
  <2>1. e.tree = r.tree /\ e.txns = r.txns /\ e = [ok |-> e.ok, tree |-> e.tree, txns |-> e.txns]
    OBVIOUS
  <2> HIDE DEF e
  <2> QED  BY <2>1 DEF Recovers
<1> HIDE DEF q, e
<1> QED  BY <1>1, <1>2, <1>3

(* Recovery leaves a tree and transactions of which no more are completed than *)
(* there were.                                                               *)
LEMMA RecoveryKeeps ==
    ASSUME TreeInv, TxnsInv, NEW order \in Selections(txns)
    PROVE  Recovers(Recovery(order))
<1> DEFINE n == Len(order)
           V == {tree[u] : u \in Targets}
                \cup UNION {{t.old[u] : u \in DOMAIN t.old} : t \in txns}
           Q == txns \cup {[t EXCEPT !.state = "rolled_back"] : t \in txns}
           S == {r \in [ok : BOOLEAN, tree : [Targets -> V], txns : SUBSET Q] : Recovers(r)}
           a == [ok |-> TRUE, tree |-> tree, txns |-> txns]
           F == [k \in 1 .. n |-> [r \in S |-> TakenBack(r, order[k])]]
           body(f) == [k \in 0 .. n |-> IF k = 0 THEN a ELSE TakenBack(f[k - 1], order[k])]
           G == CHOOSE f : f = body(f)
<1>1. n \in Nat /\ \A k \in 1 .. n : order[k] \in txns
  <2>1. Cardinality(txns) \in Nat
    BY FS_CardinalityType DEF TxnsInv
  <2>2. order \in [1 .. Cardinality(txns) -> txns]
    BY DEF Selections
  <2>3. n = Cardinality(txns)
    BY <2>1, <2>2
  <2> QED  BY <2>1, <2>2, <2>3
<1>2. a \in S
  <2>1. a.ok = TRUE /\ a.tree = tree /\ a.txns = txns
        /\ a = [ok |-> a.ok, tree |-> a.tree, txns |-> a.txns]
    OBVIOUS
  <2>2. a \in [ok : BOOLEAN, tree : [Targets -> V], txns : SUBSET Q]
    <3>1. tree \in [Targets -> V]
      BY DEF TreeInv
    <3>2. txns \in SUBSET Q
      OBVIOUS
    <3> HIDE DEF V, Q
    <3> QED  BY <3>1, <3>2
  <2> HIDE DEF a
  <2>3. Recovers(a)
    BY <2>1 DEF Recovers, TreeInv, TxnsInv, IsTxns, Completed
  <2> QED  BY <2>2, <2>3
<1>3. ASSUME NEW k \in 1 .. n, NEW r \in S
      PROVE  TakenBack(r, order[k]) \in S
  <2> DEFINE t == order[k]
             q == [ok |-> TRUE, tree |-> Whole(r.tree, t.old),
                   txns |-> StateOf(r.txns, t, "rolled_back")]
             e == [ok |-> FALSE, tree |-> r.tree, txns |-> r.txns]
             R == [ok : BOOLEAN, tree : [Targets -> V], txns : SUBSET Q]
  <2>1. t \in txns /\ IsTxn(t)
    BY <1>1 DEF TxnsInv
  <2>2. r \in R /\ Recovers(r)
    OBVIOUS
  <2>3. Recovers(TakenBack(r, t))
    <3> HIDE DEF t
    <3> QED  BY <2>1, <2>2, TakenBackKeeps
  <2>4. q \in R
    <3>1. Whole(r.tree, t.old) \in [Targets -> V]
      <4>1. r.tree \in [Targets -> V] /\ \A u \in DOMAIN t.old : t.old[u] \in V
        BY <2>1, <2>2
      <4> HIDE DEF V, t
      <4> QED  BY <4>1 DEF Whole, Overlaid
    <3>2. StateOf(r.txns, t, "rolled_back") \in SUBSET Q
      <4>1. r.txns \in SUBSET Q /\ [t EXCEPT !.state = "rolled_back"] \in Q
        BY <2>1, <2>2
      <4> HIDE DEF Q, t
      <4> QED  BY <4>1 DEF StateOf
    <3> HIDE DEF V, Q, t
    <3> QED  BY <3>1, <3>2
  <2>5. e \in R
    <3> HIDE DEF V, Q
    <3> QED  BY <2>2
  <2>6. TakenBack(r, t) \in {r, q, e}
    <3> HIDE DEF t
    <3> QED  BY DEF TakenBack
  <2> HIDE DEF t, q, e, R
  <2>7. TakenBack(r, t) \in R
    BY <2>2, <2>4, <2>5, <2>6
  <2> QED  BY <2>3, <2>7 DEF t, R
<1>4. F \in Steps(n, S)
  <2> HIDE DEF S, n
  <2> QED  BY <1>3 DEF Steps
<1>5. PICK f : Iterated(f, n, S, a, F)
  <2> HIDE DEF F, S, n, a
  <2> QED  BY <1>1, <1>2, <1>4, Iterates
<1>6. /\ f \in [0 .. n -> S] /\ f[0] = a
      /\ \A k \in 1 .. n : f[k] = TakenBack(f[k - 1], order[k])
  <2>1. /\ f \in [0 .. n -> S] /\ f[0] = a
        /\ \A k \in 1 .. n : f[k] = F[k][f[k - 1]]
    <3> HIDE DEF F, S, n, a
    <3> QED  BY <1>5 DEF Iterated
  <2>2. \A k \in 1 .. n : k - 1 \in 0 .. n /\ f[k - 1] \in S
    <3> HIDE DEF F, S, n, a
    <3> QED  BY <1>1, <2>1
  <2>3. \A k \in 1 .. n, r \in S : F[k][r] = TakenBack(r, order[k])
    <3> HIDE DEF S, n
    <3> QED  OBVIOUS
  <2> HIDE DEF F, S, n, a
  <2> QED  BY <2>1, <2>2, <2>3
<1> HIDE DEF S, F, a, n
<1>7. f = body(f)
  <2>1. \A k \in 0 .. n : f[k] = IF k = 0 THEN a ELSE TakenBack(f[k - 1], order[k])
    BY <1>1, <1>6
  <2>2. f = [k \in 0 .. n |-> f[k]]
    BY <1>6
  <2> QED  BY <2>1, <2>2
<1>8. G = body(G)
  <2> HIDE DEF body
  <2> QED  BY <1>7
<1>9. Alike(G, f, n)
  <2>1. \A k \in 0 .. n : G[k] = IF k = 0 THEN a ELSE TakenBack(G[k - 1], order[k])
    <3> HIDE DEF G
    <3> QED  BY <1>8
  <2> HIDE DEF G
  <2> QED  BY <1>1, <1>6, <2>1 DEF Alike
<1>10. G[n] = f[n]
  <2> HIDE DEF G
  <2>1. \A k \in 0 .. n : G[k] = f[k]
    BY <1>1, <1>9, SameIterates
  <2> QED  BY <1>1, <2>1
<1>11. Recovery(order) = G[n]
  BY DEF Recovery, n, a
<1>12. f[n] \in S
  BY <1>1, <1>6
<1>13. Recovers(f[n])
  BY <1>12 DEF S
<1> HIDE DEF G
<1> QED  BY <1>10, <1>11, <1>13

(* Some of the files of a transaction that nobody has completed are new. *)
LEMMA PartlyKeeps ==
    ASSUME TreeInv, TxnsInv, NEW t, IsTxn(t), Partly(t)
    PROVE  /\ TreeInv' /\ TxnsInv' /\ Completed' \subseteq Completed
           /\ applied' = Kept(txns')
<1>1. PICK S : tree' = Overlaid(tree, t.new, S)
  BY DEF Partly
<1>2. TreeInv'
  BY <1>1 DEF TreeInv, Overlaid
<1>3. txns' = StateOf(txns, t, "pending") /\ applied' = Kept(txns')
  BY DEF Partly
<1>4. IsTxns(txns)
  BY DEF TxnsInv, IsTxns
<1>5. IsTxns(txns') /\ CompletedIn(txns') = (CompletedIn(txns) \ {t.batch}) \cup {}
  BY <1>3, <1>4, StateOfKeeps
<1> QED  BY <1>2, <1>3, <1>5 DEF TxnsInv, IsTxns, Completed

-----------------------------------------------------------------------------
(* The first state.                                                         *)

LEMMA InitInv == Init => IInv
<1> SUFFICES ASSUME Init  PROVE IInv
  OBVIOUS
<1>1. TreeInv
  BY ApprovalAssumption DEF Init, TreeInv
<1>2. PapersOK
  <2>1. RecordInv
    BY DEF Init, RecordInv
  <2>2. DOMAIN attested = {}
    BY DEF Init
  <2>3. SignedInv /\ AttestedInv /\ PapersInv
    BY <2>2 DEF Init, SignedInv, AttestedInv, PapersInv
  <2> QED  BY <2>1, <2>3 DEF PapersOK
<1>3. HistoryOK
  BY FS_EmptySet DEF Init, HistoryOK, TxnsInv, ExportsInv, AppliedInv, AppliedIsRecorded
<1>4. JobsInv
  BY IdleOK DEF Init, JobsInv
<1>5. CountInv
  <2>1. \A p \in Procs : MaxCommands[p] \in Nat
    BY ApprovalAssumption
  <2>2. count = [commands |-> [p \in Procs |-> 0], imports |-> 0, changes |-> 0, kills |-> 0]
    BY DEF Init
  <2> QED  BY <2>1, <2>2, ApprovalAssumption DEF CountInv
<1> QED  BY <1>1, <1>2, <1>3, <1>4, <1>5 DEF IInv

-----------------------------------------------------------------------------
(* import, attest.                                                          *)

LEMMA ImportKeeps ==
    ASSUME IInv, NEW p \in Procs, NEW f \in Files, Import(p, f)
    PROVE  IInv'
<1>1. /\ job[p] = Idle /\ f \in Importable /\ record' = Stored(ProposalIn(f))
      /\ count' = [count EXCEPT !.imports = @ + 1]
      /\ UNCHANGED <<tree, txns, world, attested, batch, approval, job, signed, exports, applied>>
  BY DEF Import, repository, history
<1>2. TreeInv'
  BY <1>1 DEF IInv, TreeInv
<1>3. PapersOK'
  <2>1. RecordInv'
    BY <1>1 DEF RecordInv
  <2> QED  BY <1>1, <2>1 DEF IInv, PapersOK, SignedInv, AttestedInv, PapersInv
<1>4. JobsInv'
  BY <1>1 DEF IInv, JobsInv
<1>5. /\ count'.commands = count.commands
      /\ count'.changes = count.changes /\ count'.kills = count.kills
      /\ count' = [commands |-> count'.commands, imports |-> count'.imports,
                   changes |-> count'.changes, kills |-> count'.kills]
  BY <1>1 DEF IInv, CountInv
<1>6. CountInv'
  BY <1>5 DEF IInv, CountInv
<1>7. HistoryOK'
  <2>1. job[p].at # "record"
    BY <1>1 DEF Idle
  <2> QED  BY <1>1, <1>5, <2>1, HistorySame DEF IInv
<1> QED  BY <1>2, <1>3, <1>4, <1>6, <1>7 DEF IInv

LEMMA BeginAttestKeeps ==
    ASSUME IInv, NEW p \in Procs, record # None, NEW id \in GroupIds(record), NEW d,
           BeginAttest(p, id, d)
    PROVE  IInv'
<1> DEFINE c == Context({id})
           j == [at |-> "attest", id |-> id, decision |-> d, context |-> c]
<1>1. /\ Opens({id}) /\ Begins(p, j)
      /\ UNCHANGED <<tree, txns, world, record, attested, batch, approval,
                     signed, exports, applied>>
  BY DEF BeginAttest, repository, papers, history
<1>2. Formed(c, {id})
  <2> HIDE DEF c
  <2>1. Formed(Context({id}), {id})
    BY <1>1, ContextFormed DEF IInv, PapersOK
  <2> QED  BY <2>1 DEF c
<1>3. JobOK(j, signed')
  <2>1. id \in Ids
    BY RecordFacts DEF IInv, PapersOK
  <2>2. c.session.charter = c.approver
    BY <1>2 DEF Formed
  <2> HIDE DEF c
  <2>3. AttestJob(j)
    BY <2>1, <2>2 DEF AttestJob
  <2> HIDE DEF j
  <2> QED  BY <2>3 DEF JobOK
<1> HIDE DEF j
<1>4. /\ JobsInv' /\ CountInv' /\ count'.kills = count.kills /\ job[p].at # "record"
      /\ \A q \in Procs : q # p => job'[q] = job[q]
  BY <1>1, <1>3, Begun DEF IInv
<1>5. HistoryOK'
  BY <1>1, <1>4, HistorySame DEF IInv
<1>6. PapersOK'
  BY <1>1, PapersSame DEF IInv, papers
<1>7. TreeInv'
  BY <1>1 DEF IInv, TreeInv
<1> QED  BY <1>4, <1>5, <1>6, <1>7 DEF IInv

LEMMA AttestKeeps ==
    ASSUME IInv, NEW p \in Procs, Attest(p)
    PROVE  IInv'
<1> DEFINE a == Attestation(job[p])
           i == job[p].id
<1>1. /\ job[p].at = "attest"
      /\ attested' = [id \in DOMAIN attested \cup {i} |-> IF id = i THEN a ELSE attested[id]]
      /\ signed' = signed \cup {a}
      /\ job' = [job EXCEPT ![p] = Idle]
      /\ UNCHANGED <<tree, txns, world, record, batch, approval, exports, applied, count>>
  BY DEF Attest, Ends, repository
<1>2. AttestJob(job[p])
  BY <1>1 DEF IInv, JobsInv, JobOK, Idle, PrepareJob, ValidateJob, CreateJob, TxnJob
<1>3. a.id = i /\ i \in Ids /\ a.approver = a.session.charter
  BY <1>2 DEF AttestJob, Attestation
<1> HIDE DEF a, i
<1>4. PapersOK'
  <2>1. RecordInv'
    BY <1>1 DEF IInv, PapersOK, RecordInv
  <2>2. SignedInv'
    BY <1>1, <1>3 DEF IInv, PapersOK, SignedInv
  <2>3. AttestedInv'
    BY <1>1, <1>3 DEF IInv, PapersOK, AttestedInv
  <2>4. PapersInv'
    BY <1>1 DEF IInv, PapersOK, PapersInv
  <2> QED  BY <2>1, <2>2, <2>3, <2>4 DEF PapersOK
<1>5. JobsInv' /\ \A q \in Procs : job'[q] = IF q = p THEN Idle ELSE job[q]
  BY <1>1, IdleOK, JobTaken DEF IInv
<1>6. HistoryOK'
  BY <1>1, <1>5, HistorySame DEF IInv
<1>7. CountInv' /\ TreeInv'
  BY <1>1 DEF IInv, CountInv, TreeInv
<1> QED  BY <1>4, <1>5, <1>6, <1>7 DEF IInv

-----------------------------------------------------------------------------
(* prepare-apply, attest-apply.                                             *)

(* The groups a command asks for are some. *)
LEMMA SelectionFacts ==
    ASSUME NEW S, IsFiniteSet(S), S # {}, NEW ids \in Selections(S)
    PROVE  DOMAIN ids # {}
<1>1. Cardinality(S) \in Nat /\ Cardinality(S) # 0
  BY FS_CardinalityType, FS_EmptySet
<1>2. DOMAIN ids = 1 .. Cardinality(S)
  BY DEF Selections
<1>3. 1 \in 1 .. Cardinality(S)
  BY <1>1
<1> QED  BY <1>2, <1>3

LEMMA BeginPrepareKeeps ==
    ASSUME IInv, NEW p \in Procs, NEW S \in (SUBSET Decided) \ {{}}, NEW ids \in Selections(S),
           BeginPrepare(p, ids)
    PROVE  IInv'
<1> DEFINE c == Context(ToSet(ids))
           j == [at |-> "prepare", ids |-> ids, context |-> c]
<1>1. /\ Opens(ToSet(ids)) /\ Coherent(ids, c) /\ Begins(p, j)
      /\ UNCHANGED <<tree, txns, world, record, attested, batch, approval,
                     signed, exports, applied>>
  BY DEF BeginPrepare, repository, papers, history
<1>2. Formed(c, ToSet(ids))
  <2> HIDE DEF c
  <2>1. Formed(Context(ToSet(ids)), ToSet(ids))
    BY <1>1, ContextFormed DEF IInv, PapersOK
  <2> QED  BY <2>1 DEF c
<1> HIDE DEF c
<1>3. DOMAIN ids # {}
  <2>1. S \subseteq GroupIds(record) /\ S # {} /\ record # None
    <3>1. S \subseteq Decided /\ S # {}
      OBVIOUS
    <3>2. CASE record = None
      BY <3>1, <3>2 DEF Decided
    <3>3. CASE record # None
      <4>1. Decided = GroupIds(record) \cap DOMAIN attested
        BY <3>3 DEF Decided
      <4> QED  BY <3>1, <3>3, <4>1
    <3> QED  BY <3>2, <3>3
  <2>2. record \in Seq(StoredGroups)
    BY <2>1, RecordFacts DEF IInv, PapersOK
  <2>3. IsFiniteSet(GroupIds(record))
    <3> DEFINE n == Len(record)
               f == [i \in 1..n |-> record[i].id]
    <3>1. n \in Nat /\ DOMAIN record = 1..n
      BY <2>2
    <3>2. GroupIds(record) = {f[i] : i \in 1..n}
      BY <3>1 DEF GroupIds
    <3>3. f \in Surjection(1..n, {f[i] : i \in 1..n})
      BY DEF Surjection
    <3> HIDE DEF f, n
    <3> QED  BY <3>1, <3>2, <3>3, FS_Interval, FS_Surjection
  <2>4. IsFiniteSet(S)
    BY <2>1, <2>3, FS_Subset
  <2> QED  BY <2>1, <2>4, SelectionFacts
<1>4. JobOK(j, signed')
  <2>1. BatchDisjoint(ToSet(ids), c.proposal)
    BY <1>1 DEF Coherent
  <2>2. PrepareJob(j)
    BY <1>2, <1>3, <2>1 DEF PrepareJob
  <2> HIDE DEF j
  <2> QED  BY <2>2 DEF JobOK
<1> HIDE DEF j
<1>5. /\ JobsInv' /\ CountInv' /\ count'.kills = count.kills /\ job[p].at # "record"
      /\ \A q \in Procs : q # p => job'[q] = job[q]
  BY <1>1, <1>4, Begun DEF IInv
<1>6. HistoryOK'
  BY <1>1, <1>5, HistorySame DEF IInv
<1>7. PapersOK'
  BY <1>1, PapersSame DEF IInv, papers
<1>8. TreeInv'
  BY <1>1 DEF IInv, TreeInv
<1> QED  BY <1>5, <1>6, <1>7, <1>8 DEF IInv

LEMMA PrepareKeeps ==
    ASSUME IInv, NEW p \in Procs, Prepare(p)
    PROVE  IInv'
<1> DEFINE j == job[p]
           b == BatchOf(j.ids, j.context, attested, EvidenceLock(world))
<1>1. /\ j.at = "prepare"
      /\ batch' = IF GroupOpens(ToSet(j.ids)) /\ Attested(j.ids, j.context, attested)
                    THEN b ELSE batch
      /\ job' = [job EXCEPT ![p] = Idle]
      /\ UNCHANGED <<tree, txns, world, record, attested, approval, signed, exports, applied, count>>
  BY DEF Prepare, Ends, repository, history
<1>2. PrepareJob(j)
  BY <1>1 DEF IInv, JobsInv, JobOK, Idle, AttestJob, ValidateJob, CreateJob, TxnJob
<1>3. ASSUME Attested(j.ids, j.context, attested)  PROVE Prepared(b)
  <2> DEFINE ids == j.ids
             c == j.context
  <2>1. DOMAIN ids # {} /\ Formed(c, ToSet(ids)) /\ BatchDisjoint(ToSet(ids), c.proposal)
    BY <1>2 DEF PrepareJob
  <2>2. ASSUME NEW i \in DOMAIN ids
        PROVE  /\ attested[ids[i]].decision = "accepted"
               /\ attested[ids[i]].group = ById(c.proposal, ids[i])
    <3>1. ids[i] \in ToSet(ids)
      BY DEF ToSet
    <3> HIDE DEF ids, c
    <3>2. /\ attested[ids[i]].decision = "accepted"
          /\ Current(attested[ids[i]], ById(c.proposal, ids[i]), c, Alone(ids[i]))
      BY <1>3, <3>1 DEF Attested, ids, c
    <3> QED  BY <3>2 DEF Current
  <2> DEFINE at == [i \in DOMAIN ids |-> attested[ids[i]]]
  <2>3. /\ b.groups = ids /\ b.attestations = at
        /\ b.base = c.base /\ b.candidate = c.candidate /\ b.verification = c.verification
        /\ b.summary.groups = c.proposal
    BY DEF BatchOf, Summary
  <2>4. \A i \in DOMAIN ids : at[i] = attested[ids[i]]
    OBVIOUS
  <2> HIDE DEF b, ids, c, at
  <2>5. b.verification.proposal = c.proposal
    BY <2>1, <2>3 DEF Formed
  <2>6. \A i \in DOMAIN b.groups :
           /\ b.attestations[i].decision = "accepted"
           /\ b.attestations[i].group = ById(b.verification.proposal, b.groups[i])
    BY <2>2, <2>3, <2>4, <2>5
  <2> QED  BY <2>1, <2>3, <2>5, <2>6 DEF Prepared, Formed
<1> HIDE DEF b
<1>4. PapersOK'
  <2>1. PapersInv'
    BY <1>1, <1>3 DEF IInv, PapersOK, PapersInv
  <2> QED  BY <1>1, <2>1 DEF IInv, PapersOK, RecordInv, SignedInv, AttestedInv
<1>5. JobsInv' /\ \A q \in Procs : job'[q] = IF q = p THEN Idle ELSE job[q]
  BY <1>1, IdleOK, JobTaken DEF IInv
<1>6. HistoryOK'
  BY <1>1, <1>5, HistorySame DEF IInv
<1>7. CountInv' /\ TreeInv'
  BY <1>1 DEF IInv, CountInv, TreeInv
<1> QED  BY <1>4, <1>5, <1>6, <1>7 DEF IInv

LEMMA AttestApplyKeeps ==
    ASSUME IInv, NEW p \in Procs, AttestApply(p)
    PROVE  IInv'
<1>1. /\ batch # None /\ Begins(p, Idle)
      /\ approval' = [batch |-> batch, approver |-> world.approver]
      /\ UNCHANGED <<tree, txns, world, record, attested, batch, signed, exports, applied>>
  BY DEF AttestApply, repository, history
<1>2. PapersOK'
  <2>1. DOMAIN approval'.batch.groups # {}
    BY <1>1 DEF IInv, PapersOK, PapersInv, Prepared
  <2>2. PapersInv'
    BY <1>1, <2>1 DEF IInv, PapersOK, PapersInv
  <2> QED  BY <1>1, <2>2 DEF IInv, PapersOK, RecordInv, SignedInv, AttestedInv
<1>3. /\ JobsInv' /\ CountInv' /\ count'.kills = count.kills /\ job[p].at # "record"
      /\ \A q \in Procs : q # p => job'[q] = job[q]
  BY <1>1, IdleOK, Begun DEF IInv
<1>4. HistoryOK'
  BY <1>1, <1>3, HistorySame DEF IInv
<1>5. TreeInv'
  BY <1>1 DEF IInv, TreeInv
<1> QED  BY <1>2, <1>3, <1>4, <1>5 DEF IInv

-----------------------------------------------------------------------------
(* export-preview, apply.                                                   *)

(* A command that has opened the groups of the batch on disk. *)
LEMMA BatchOpened ==
    ASSUME IInv, batch # None, Opens(ToSet(batch.groups)),
           NEW a, Matches(batch, a, Context(ToSet(batch.groups)))
    PROVE  /\ Prepared(batch)
           /\ Formed(Context(ToSet(batch.groups)), ToSet(batch.groups))
           /\ Vouched(batch, a)
<1> DEFINE c == Context(ToSet(batch.groups))
<1>1. Prepared(batch)
  BY DEF IInv, PapersOK, PapersInv
<1>2. Formed(c, ToSet(batch.groups))
  <2>1. Formed(Context(ToSet(batch.groups)), ToSet(batch.groups))
    BY ContextFormed DEF IInv, PapersOK
  <2> QED  BY <2>1
<1> HIDE DEF c
<1>3. c.session.charter = c.approver
  BY <1>2 DEF Formed
<1>4. a.batch = batch /\ a.approver = c.approver /\ c.session = batch.session
  BY DEF Matches, c
<1>5. Vouched(batch, a)
  BY <1>3, <1>4 DEF Vouched
<1> QED  BY <1>1, <1>2, <1>5 DEF c

LEMMA ExportPreviewKeeps ==
    ASSUME IInv, NEW p \in Procs, ExportPreview(p)
    PROVE  IInv'
<1> DEFINE c == Context(ToSet(batch.groups))
<1>1. /\ batch # None /\ Opens(ToSet(batch.groups)) /\ Exportable(batch, c)
      /\ Begins(p, Idle) /\ exports' = exports \cup {batch}
      /\ UNCHANGED <<tree, txns, world, record, attested, batch, approval, signed, applied>>
  BY DEF ExportPreview, repository, papers
<1>2. Prepared(batch) /\ Formed(c, ToSet(batch.groups))
  <2>1. Matches(batch, approval, Context(ToSet(batch.groups)))
    BY <1>1 DEF Exportable
  <2>2. Formed(Context(ToSet(batch.groups)), ToSet(batch.groups)) /\ Prepared(batch)
    BY <1>1, <2>1, BatchOpened
  <2> QED  BY <2>2
<1> HIDE DEF c
<1>3. Accounted(batch, signed)
  <2>1. Unchanged(batch, c) /\ c.verification = batch.verification /\ c.session = batch.session
    BY <1>1 DEF Exportable, Matches
  <2>2. c.proposal = batch.verification.proposal
    BY <1>2, <2>1 DEF Formed
  <2> QED  BY <1>2, <2>1, <2>2, BatchAccounted DEF IInv, PapersOK
<1>4. /\ JobsInv' /\ CountInv' /\ count'.kills = count.kills /\ job[p].at # "record"
      /\ \A q \in Procs : q # p => job'[q] = job[q]
  BY <1>1, IdleOK, Begun DEF IInv
<1>5. HistoryOK'
  BY <1>1, <1>3, <1>4, HistorySame DEF IInv
<1>6. PapersOK'
  BY <1>1, PapersSame DEF IInv, papers
<1>7. TreeInv'
  BY <1>1 DEF IInv, TreeInv
<1> QED  BY <1>4, <1>5, <1>6, <1>7 DEF IInv

LEMMA BeginApplyKeeps ==
    ASSUME IInv, NEW p \in Procs, BeginApply(p)
    PROVE  IInv'
<1> DEFINE c == Context(ToSet(batch.groups))
           j == [at |-> "validate", batch |-> batch, approval |-> approval, context |-> c]
<1>1. /\ batch # None /\ Opens(ToSet(batch.groups)) /\ Matches(batch, approval, c)
      /\ Begins(p, j)
      /\ UNCHANGED <<tree, txns, world, record, attested, batch, approval,
                     signed, exports, applied>>
  BY DEF BeginApply, repository, papers, history
<1>2. Prepared(batch) /\ Formed(c, ToSet(batch.groups))
  <2>1. Formed(Context(ToSet(batch.groups)), ToSet(batch.groups)) /\ Prepared(batch)
    BY <1>1, BatchOpened
  <2> QED  BY <2>1
<1> HIDE DEF c
<1>3. JobOK(j, signed')
  <2>1. /\ j.at = "validate" /\ j.batch = batch /\ j.approval = approval /\ j.context = c
        /\ j = [at |-> j.at, batch |-> j.batch, approval |-> j.approval, context |-> j.context]
    OBVIOUS
  <2> HIDE DEF j
  <2>2. ValidateJob(j)
    BY <1>1, <1>2, <2>1 DEF ValidateJob
  <2> QED  BY <2>2 DEF JobOK
<1> HIDE DEF j
<1>4. /\ JobsInv' /\ CountInv' /\ count'.kills = count.kills /\ job[p].at # "record"
      /\ \A q \in Procs : q # p => job'[q] = job[q]
  BY <1>1, <1>3, Begun DEF IInv
<1>5. HistoryOK'
  BY <1>1, <1>4, HistorySame DEF IInv
<1>6. PapersOK'
  BY <1>1, PapersSame DEF IInv, papers
<1>7. TreeInv'
  BY <1>1 DEF IInv, TreeInv
<1> QED  BY <1>4, <1>5, <1>6, <1>7 DEF IInv

(* What is validated is accounted for. *)
LEMMA ValidateKeeps ==
    ASSUME IInv, NEW p \in Procs, Validate(p)
    PROVE  IInv'
<1> DEFINE j == job[p]
           k == IF Validates(j) THEN [j EXCEPT !.at = "create"] ELSE Idle
<1>1. /\ j.at = "validate"
      /\ job' = [job EXCEPT ![p] = k]
      /\ UNCHANGED <<tree, txns, world, record, attested, batch, approval,
                     signed, exports, applied, count>>
  BY DEF Validate, repository, papers, history
<1>2. ValidateJob(j)
  BY <1>1 DEF IInv, JobsInv, JobOK, Idle, AttestJob, PrepareJob, CreateJob, TxnJob
<1>3. ASSUME Validates(j)  PROVE JobOK([j EXCEPT !.at = "create"], signed)
  <2> DEFINE b == j.batch
             c == j.context
             i == [j EXCEPT !.at = "create"]
  <2>1. /\ j = [at |-> j.at, batch |-> b, approval |-> j.approval, context |-> c]
        /\ Prepared(b) /\ Matches(b, j.approval, c) /\ Formed(c, ToSet(b.groups))
    BY <1>2 DEF ValidateJob
  <2>2. i.at = "create" /\ i.batch = b /\ i.approval = j.approval /\ i.context = c
    BY <2>1
  <2>3. Unchanged(b, c)
    BY <1>3 DEF Validates
  <2> HIDE DEF b, c, i, j
  <2>4. /\ c.verification = b.verification /\ c.session = b.session
        /\ c.candidate = b.candidate /\ j.approval.batch = b
        /\ j.approval.approver = c.approver
    BY <2>1 DEF Matches
  <2>5. c.proposal = b.verification.proposal /\ c.session.charter = c.approver
    BY <2>1, <2>4 DEF Formed
  <2>6. Accounted(b, signed)
    BY <2>1, <2>3, <2>4, <2>5, BatchAccounted DEF IInv, PapersOK
  <2>7. Vouched(b, j.approval)
    BY <2>4, <2>5 DEF Vouched
  <2>8. CreateJob(i, signed)
    BY <2>2, <2>4, <2>6, <2>7 DEF CreateJob
  <2>9. JobOK(i, signed)
    BY <2>8 DEF JobOK
  <2> QED  BY <2>9 DEF i
<1>4. JobOK(k, signed')
  <2>1. signed' = signed
    BY <1>1
  <2>2. CASE Validates(j)
    <3>1. k = [j EXCEPT !.at = "create"]
      BY <2>2
    <3> HIDE DEF j, k
    <3> QED  BY <1>3, <2>1, <2>2, <3>1
  <2>3. CASE ~Validates(j)
    BY <2>3, IdleOK
  <2> QED  BY <2>2, <2>3
<1> HIDE DEF k
<1>5. JobsInv' /\ \A q \in Procs : job'[q] = IF q = p THEN k ELSE job[q]
  BY <1>1, <1>4, JobTaken DEF IInv
<1>6. HistoryOK'
  BY <1>1, <1>5, HistorySame DEF IInv
<1>7. PapersOK'
  BY <1>1, PapersSame DEF IInv, papers
<1>8. CountInv' /\ TreeInv'
  BY <1>1 DEF IInv, CountInv, TreeInv
<1> QED  BY <1>5, <1>6, <1>7, <1>8 DEF IInv

LEMMA CreateKeeps ==
    ASSUME IInv, NEW p \in Procs, Create(p)
    PROVE  IInv'
<1> DEFINE j == job[p]
           w == Written(j.context)
<1>1. PICK order \in Selections(txns) :
        LET r == Recovery(order)
            t == [batch |-> j.batch, state |-> "pending",
                  old |-> [u \in w |-> r.tree[u]],
                  new |-> [u \in w |-> j.context.candidate[u]]]
            fresh == r.ok /\ \A u \in txns : u.batch # j.batch
        IN /\ tree' = r.tree
           /\ txns' = r.txns \cup (IF fresh THEN {t} ELSE {})
           /\ applied' = Kept(r.txns)
           /\ job' = [job EXCEPT ![p] = IF fresh
                         THEN [at |-> "commit", txn |-> t, approval |-> j.approval,
                               candidate |-> j.context.candidate]
                         ELSE Idle]
  BY DEF Create
<1>2. /\ j.at = "create"
      /\ UNCHANGED <<world, record, attested, batch, approval, signed, exports, count>>
  BY DEF Create, papers
<1> DEFINE r == Recovery(order)
           old == [u \in w |-> r.tree[u]]
           new == [u \in w |-> j.context.candidate[u]]
           t == [batch |-> j.batch, state |-> "pending", old |-> old, new |-> new]
           fresh == r.ok /\ \A u \in txns : u.batch # j.batch
           k == IF fresh THEN [at |-> "commit", txn |-> t, approval |-> j.approval,
                               candidate |-> j.context.candidate]
                ELSE Idle
<1>3. /\ tree' = r.tree
      /\ txns' = r.txns \cup (IF fresh THEN {t} ELSE {})
      /\ applied' = Kept(r.txns)
      /\ job' = [job EXCEPT ![p] = k]
  BY <1>1
<1>4. CreateJob(j, signed)
  BY <1>2 DEF IInv, JobsInv, JobOK, Idle, AttestJob, PrepareJob, ValidateJob, TxnJob
<1>5. IsTxn(t) /\ t.state = "pending" /\ t.batch = j.batch /\ t.new = new
  <2> HIDE DEF old, new, j
  <2> QED  BY DEF IsTxn
<1>6. FromBatch(j.batch, new)
  <2>1. j.context.candidate = j.batch.candidate
    BY <1>4 DEF CreateJob
  <2>2. DOMAIN new = w
    OBVIOUS
  <2>3. new = [u \in DOMAIN new |-> j.batch.candidate[u]]
    BY <2>1, <2>2
  <2> QED  BY <2>3 DEF FromBatch
<1> HIDE DEF t, new, old, w
<1>7. JobOK(k, signed')
  <2>1. CASE fresh
    <3>1. /\ k.at = "commit" /\ k.txn = t /\ k.approval = j.approval
          /\ k = [at |-> k.at, txn |-> k.txn, approval |-> k.approval,
                  candidate |-> k.candidate]
      BY <2>1
    <3> HIDE DEF k, j, fresh
    <3>2. TxnJob(k, signed)
      BY <1>4, <1>5, <1>6, <3>1 DEF TxnJob, CreateJob
    <3> QED  BY <1>2, <3>2 DEF JobOK
  <2>2. CASE ~fresh
    BY <2>2, IdleOK
  <2> QED  BY <2>1, <2>2
<1> HIDE DEF k, fresh
<1>8. Recovers(r)
  <2>1. TreeInv /\ TxnsInv
    BY DEF IInv, HistoryOK
  <2> QED  BY <2>1, RecoveryKeeps
<1> HIDE DEF r
<1>9. JobsInv' /\ \A q \in Procs : job'[q] = IF q = p THEN k ELSE job[q]
  BY <1>2, <1>3, <1>7, JobTaken DEF IInv
<1>10. TxnsInv' /\ Completed' = CompletedIn(r.txns) /\ applied' = Kept(txns')
  <2>1. t.state # "completed" /\ IsTxn(t) /\ IsTxns(r.txns)
    BY <1>5, <1>8 DEF Recovers
  <2>2. txns' = r.txns \/ txns' = r.txns \cup {t}
    BY <1>3
  <2> HIDE DEF j
  <2>3. TxnsInv'
    BY <2>1, <2>2, FS_AddElement DEF IsTxns, TxnsInv
  <2>4. {v \in txns' : v.state = "completed"} = {v \in r.txns : v.state = "completed"}
    BY <2>1, <2>2
  <2>5. Completed' = CompletedIn(r.txns)
    BY <2>4 DEF Completed, CompletedIn
  <2>6. Kept(r.txns) = {a \in applied : \E v \in txns' : v.state = "completed" /\ v.batch = a.batch}
    BY <2>4 DEF Kept
  <2>7. applied' = Kept(txns')
    BY <1>3, <2>6 DEF Kept
  <2> QED  BY <2>3, <2>5, <2>7
<1>11. HistoryOK'
  <2>1. Completed' \subseteq Completed
    BY <1>8, <1>10 DEF Recovers
  <2>2. job[p].at # "record" /\ \A q \in Procs : q # p => job'[q] = job[q]
    BY <1>2, <1>9
  <2>3. HistoryOK
    BY DEF IInv
  <2> QED  BY <1>2, <1>10, <2>1, <2>2, <2>3, HistoryTaken
<1>12. PapersOK'
  BY <1>2, PapersSame DEF IInv, papers
<1>13. CountInv' /\ TreeInv'
  BY <1>2, <1>3, <1>8 DEF IInv, CountInv, TreeInv, Recovers
<1> QED  BY <1>9, <1>11, <1>12, <1>13 DEF IInv

(* An applied batch whose fate is decided. *)
LEMMA MeetsKeeps ==
    ASSUME AppliedInv, NEW b, NEW f
    PROVE  /\ \A a \in Meets(b, f) : IsApplied(a, signed)
           /\ {a.batch : a \in Meets(b, f)} = AppliedBatches
           /\ \A a \in Meets(b, f) : (a \in applied /\ a.batch # b) \/ (a.batch = b /\ a.fate = f)
<1> DEFINE Of(a) == IF a.batch = b THEN [a EXCEPT !.fate = f] ELSE a
<1>1. Meets(b, f) = {Of(a) : a \in applied}
  BY DEF Meets
<1>2. ASSUME NEW a \in applied
      PROVE  /\ IsApplied(Of(a), signed) /\ Of(a).batch = a.batch
             /\ (Of(a) = a /\ a.batch # b) \/ (a.batch = b /\ Of(a).fate = f)
  <2>1. IsApplied(a, signed)
    BY DEF AppliedInv
  <2>2. CASE a.batch = b
    <3> DEFINE r == [a EXCEPT !.fate = f]
    <3>1. a = [batch |-> a.batch, new |-> a.new, approval |-> a.approval, fate |-> a.fate]
      BY <2>1 DEF IsApplied
    <3>2. r = [batch |-> a.batch, new |-> a.new, approval |-> a.approval, fate |-> f]
      BY <3>1
    <3>3. Of(a) = r
      BY <2>2
    <3> HIDE DEF r, Of
    <3>4. r.batch = a.batch /\ r.new = a.new /\ r.approval = a.approval /\ r.fate = f
      BY <3>2
    <3>5. IsApplied(r, signed)
      BY <2>1, <3>2, <3>4 DEF IsApplied
    <3> QED  BY <2>2, <3>3, <3>4, <3>5
  <2>3. CASE a.batch # b
    <3>1. Of(a) = a
      BY <2>3
    <3> HIDE DEF Of
    <3> QED  BY <2>1, <2>3, <3>1
  <2> QED  BY <2>2, <2>3
<1> HIDE DEF Of
<1>3. \A a \in Meets(b, f) : IsApplied(a, signed)
  BY <1>1, <1>2
<1>4. {a.batch : a \in Meets(b, f)} = AppliedBatches
  <2>1. \A a \in applied : \E c \in Meets(b, f) : c.batch = a.batch
    BY <1>1, <1>2
  <2>2. \A c \in Meets(b, f) : \E a \in applied : c.batch = a.batch
    BY <1>1, <1>2
  <2> QED  BY <2>1, <2>2 DEF AppliedBatches
<1>5. \A a \in Meets(b, f) : (a \in applied /\ a.batch # b) \/ (a.batch = b /\ a.fate = f)
  BY <1>1, <1>2
<1> QED  BY <1>3, <1>4, <1>5

(* The process of a transaction that is at its record. *)
LEMMA RecordJob ==
    ASSUME NEW j, NEW S, TxnJob(j, S)
    PROVE  LET k == [j EXCEPT !.at = "record"] IN
           TxnJob(k, S) /\ k.at = "record" /\ k.txn = j.txn
<1> DEFINE k == [j EXCEPT !.at = "record"]
<1>1. j = [at |-> j.at, txn |-> j.txn, approval |-> j.approval, candidate |-> j.candidate]
  BY DEF TxnJob
<1>2. k = [at |-> "record", txn |-> j.txn, approval |-> j.approval, candidate |-> j.candidate]
  BY <1>1
<1> HIDE DEF k
<1>3. k.at = "record" /\ k.txn = j.txn /\ k.approval = j.approval /\ k.candidate = j.candidate
  BY <1>2
<1>4. TxnJob(k, S)
  BY <1>2, <1>3 DEF TxnJob
<1> QED  BY <1>3, <1>4 DEF k

LEMMA TxnJobOf ==
    ASSUME JobsInv, NEW p \in Procs, job[p].at \in {"commit", "record"}
    PROVE  TxnJob(job[p], signed)
BY DEF JobsInv, JobOK, Idle, AttestJob, PrepareJob, ValidateJob, CreateJob

(* A tree stays one of the targets. *)
LEMMA TreeOverlaid ==
    ASSUME TreeInv, NEW values, tree' = Whole(tree, values)
    PROVE  TreeInv'
BY DEF TreeInv, Whole, Overlaid

LEMMA CommitKeeps ==
    ASSUME IInv, NEW p \in Procs, Commit(p)
    PROVE  IInv'
<1> DEFINE j == job[p]
           b == j.txn.batch
           k == [j EXCEPT !.at = "record"]
           a == [batch |-> b, new |-> j.txn.new, approval |-> j.approval, fate |-> "open"]
<1>1. /\ j.at = "commit"
      /\ UNCHANGED <<world, record, attested, batch, approval, signed, exports, count>>
  BY DEF Commit, papers
<1>2. TxnJob(j, signed)
  BY <1>1, TxnJobOf DEF IInv
<1>3. CASE Fits(j.txn, tree)
  <2>1. /\ tree' = Whole(tree, j.txn.new)
        /\ txns' = StateOf(txns, j.txn, "completed")
        /\ applied' = applied \cup {a}
        /\ job' = [job EXCEPT ![p] = k]
    BY <1>3 DEF Commit
  <2>2. TxnJob(k, signed) /\ k.at = "record" /\ k.txn = j.txn
    BY <1>2, RecordJob
  <2> HIDE DEF k
  <2>3. JobOK(k, signed')
    BY <1>1, <2>2 DEF JobOK
  <2>4. JobsInv' /\ \A q \in Procs : job'[q] = IF q = p THEN k ELSE job[q]
    BY <1>1, <2>1, <2>3, JobTaken DEF IInv
  <2>5. TxnsInv' /\ Completed' = Completed \cup {b}
    <3>1. IsTxn(j.txn)
      BY <1>2 DEF TxnJob
    <3>2. IsTxns(txns)
      BY DEF IInv, HistoryOK, TxnsInv, IsTxns
    <3>3. IsTxns(txns') /\ CompletedIn(txns') = (CompletedIn(txns) \ {b}) \cup {b}
      BY <2>1, <3>1, <3>2, StateOfKeeps
    <3> QED  BY <3>3 DEF Completed, TxnsInv, IsTxns
  <2>6. IsApplied(a, signed)
    <3>1. Accounted(b, signed) /\ Vouched(b, j.approval) /\ FromBatch(b, j.txn.new)
      BY <1>2 DEF TxnJob
    <3>2. a.batch = b /\ a.new = j.txn.new /\ a.approval = j.approval /\ a.fate = "open"
      OBVIOUS
    <3>3. a = [batch |-> a.batch, new |-> a.new, approval |-> a.approval, fate |-> a.fate]
      OBVIOUS
    <3> HIDE DEF a, b, j
    <3> QED  BY <3>1, <3>2, <3>3 DEF IsApplied
  <2>7. a.batch = b
    OBVIOUS
  <2> HIDE DEF a
  <2>8. AppliedInv'
    BY <1>1, <2>1, <2>6 DEF IInv, HistoryOK, AppliedInv
  <2>9. AppliedIsRecorded'
    <3>1. Completed' = AppliedBatches'
      <4>1. AppliedBatches' = AppliedBatches \cup {b}
        BY <2>1, <2>7 DEF AppliedBatches
      <4>2. Completed = AppliedBatches
        BY DEF IInv, HistoryOK, AppliedIsRecorded, Completed, CompletedIn, AppliedBatches
      <4> QED  BY <2>5, <4>1, <4>2
    <3>2. ASSUME count'.kills = 0, NEW x \in applied', x.fate = "open"
          PROVE  \E q \in Procs : job'[q].at = "record" /\ job'[q].txn.batch = x.batch
      <4>1. CASE x = a
        <5>1. job'[p] = k
          BY <2>4
        <5> QED  BY <2>2, <2>7, <4>1, <5>1
      <4>2. CASE x \in applied
        <5>1. PICK q \in Procs : job[q].at = "record" /\ job[q].txn.batch = x.batch
          BY <1>1, <3>2, <4>2 DEF IInv, HistoryOK, AppliedIsRecorded
        <5>2. job'[q] = job[q]
          BY <1>1, <2>4, <5>1
        <5> QED  BY <5>1, <5>2
      <4> QED  BY <2>1, <3>2, <4>1, <4>2
    <3> QED  BY <3>1, <3>2 DEF AppliedIsRecorded, Completed, CompletedIn, AppliedBatches
  <2>10. HistoryOK'
    BY <1>1, <2>5, <2>8, <2>9 DEF IInv, HistoryOK, ExportsInv
  <2>11. PapersOK'
    BY <1>1, PapersSame DEF IInv, papers
  <2>12. CountInv' /\ TreeInv'
    <3>1. TreeInv'
      BY <2>1, TreeOverlaid DEF IInv
    <3> QED  BY <1>1, <3>1 DEF IInv, CountInv
  <2> QED  BY <2>4, <2>10, <2>11, <2>12 DEF IInv
<1>4. CASE ~Fits(j.txn, tree)
  <2>1. job' = [job EXCEPT ![p] = Idle] /\ Partly(j.txn)
    BY <1>4 DEF Commit, Ends
  <2>2. JobsInv' /\ \A q \in Procs : job'[q] = IF q = p THEN Idle ELSE job[q]
    BY <1>1, <2>1, IdleOK, JobTaken DEF IInv
  <2>3. /\ TreeInv' /\ TxnsInv' /\ Completed' \subseteq Completed
        /\ applied' = Kept(txns')
    <3>1. TreeInv /\ TxnsInv /\ IsTxn(j.txn)
      BY <1>2 DEF IInv, HistoryOK, TxnJob
    <3> HIDE DEF j
    <3> QED  BY <2>1, <3>1, PartlyKeeps
  <2>4. HistoryOK'
    <3>1. job[p].at # "record" /\ \A q \in Procs : q # p => job'[q] = job[q]
      BY <1>1, <2>2
    <3>2. HistoryOK
      BY DEF IInv
    <3> QED  BY <1>1, <2>3, <3>1, <3>2, HistoryTaken
  <2>5. PapersOK'
    BY <1>1, PapersSame DEF IInv, papers
  <2>6. CountInv'
    BY <1>1 DEF IInv, CountInv
  <2> QED  BY <2>2, <2>3, <2>4, <2>5, <2>6 DEF IInv
<1> QED  BY <1>3, <1>4

LEMMA RecordKeeps ==
    ASSUME IInv, NEW p \in Procs, Record(p)
    PROVE  IInv'
<1> DEFINE j == job[p]
           b == j.txn.batch
<1>1. /\ j.at = "record" /\ job' = [job EXCEPT ![p] = Idle]
      /\ UNCHANGED <<record, attested, batch, approval, signed, exports, count>>
  BY DEF Record, Ends, papers
<1>2. TxnJob(j, signed)
  BY <1>1, TxnJobOf DEF IInv
<1>3. JobsInv' /\ \A q \in Procs : job'[q] = IF q = p THEN Idle ELSE job[q]
  BY <1>1, IdleOK, JobTaken DEF IInv
<1>4. PapersOK'
  BY <1>1, PapersSame DEF IInv, papers
<1>5. CountInv'
  BY <1>1 DEF IInv, CountInv
<1>6. Completed = AppliedBatches
  BY DEF IInv, HistoryOK, AppliedIsRecorded, Completed, CompletedIn, AppliedBatches
<1>7. TxnsInv /\ AppliedInv /\ TreeInv
  BY DEF IInv, HistoryOK
\* The process that ends was the one of batch b alone.
<1>8. ASSUME TxnsInv', AppliedInv', Completed' = AppliedBatches',
             \A x \in applied' : x.fate = "open" => x \in applied /\ x.batch # b
      PROVE  HistoryOK'
  <2>1. ASSUME count'.kills = 0, NEW x \in applied', x.fate = "open"
        PROVE  \E q \in Procs : job'[q].at = "record" /\ job'[q].txn.batch = x.batch
    <3>1. x \in applied /\ x.batch # b
      BY <1>8, <2>1
    <3>2. PICK q \in Procs : job[q].at = "record" /\ job[q].txn.batch = x.batch
      BY <1>1, <2>1, <3>1 DEF IInv, HistoryOK, AppliedIsRecorded
    <3>3. q # p
      BY <3>1, <3>2
    <3>4. job'[q] = job[q]
      BY <1>3, <3>3
    <3> QED  BY <3>2, <3>4
  <2>2. AppliedIsRecorded'
    BY <1>8, <2>1 DEF AppliedIsRecorded, Completed, CompletedIn, AppliedBatches
  <2>3. ExportsInv'
    BY <1>1 DEF IInv, HistoryOK, ExportsInv
  <2> QED  BY <1>8, <2>2, <2>3 DEF HistoryOK
<1>9. ASSUME NEW f, f # "open", applied' = Meets(b, f), txns' = txns
      PROVE  HistoryOK'
  <2> HIDE DEF b
  <2>1. /\ \A a \in Meets(b, f) : IsApplied(a, signed)
        /\ {a.batch : a \in Meets(b, f)} = AppliedBatches
        /\ \A a \in Meets(b, f) :
              (a \in applied /\ a.batch # b) \/ (a.batch = b /\ a.fate = f)
    BY <1>7, MeetsKeeps
  <2>2. AppliedInv'
    BY <1>1, <1>9, <2>1 DEF AppliedInv
  <2>3. TxnsInv' /\ Completed' = Completed
    BY <1>7, <1>9 DEF TxnsInv, Completed, CompletedIn
  <2>4. AppliedBatches' = AppliedBatches
    BY <1>9, <2>1 DEF AppliedBatches
  <2>5. \A x \in applied' : x.fate = "open" => x \in applied /\ x.batch # b
    BY <1>9, <2>1
  <2> QED  BY <1>6, <1>8, <2>2, <2>3, <2>4, <2>5
<1>10. CASE world.open
  <2>1. applied' = Meets(b, "recorded") /\ txns' = txns /\ tree' = tree
    BY <1>10 DEF Record
  <2>2. HistoryOK'
    BY <1>9, <2>1
  <2>3. TreeInv'
    BY <1>7, <2>1 DEF TreeInv
  <2> QED  BY <1>3, <1>4, <1>5, <2>2, <2>3 DEF IInv
<1>11. CASE ~world.open /\ Fits(j.txn, tree)
  <2>1. /\ tree' = Whole(tree, j.txn.old)
        /\ txns' = StateOf(txns, j.txn, "rolled_back")
        /\ applied' = Kept(txns')
    BY <1>11 DEF Record
  <2>2. TxnsInv' /\ Completed' = Completed \ {b}
    <3>1. IsTxn(j.txn) /\ IsTxns(txns)
      BY <1>2, <1>7 DEF TxnJob, TxnsInv, IsTxns
    <3>2. IsTxns(txns') /\ CompletedIn(txns') = (CompletedIn(txns) \ {b}) \cup {}
      BY <2>1, <3>1, StateOfKeeps
    <3> QED  BY <3>2 DEF Completed, TxnsInv, IsTxns
  <2>7. \A a : a \in applied' <=> a \in applied /\ a.batch # b
    <3>1. \A a : a \in applied' <=> a \in applied /\ a.batch \in Completed'
      BY <2>1 DEF Kept, Completed, CompletedIn
    <3>2. \A a \in applied : a.batch \in Completed
      BY <1>6 DEF AppliedBatches
    <3> QED  BY <2>2, <3>1, <3>2
  <2>3. AppliedInv'
    BY <1>1, <1>7, <2>7 DEF AppliedInv
  <2>4. AppliedBatches' = AppliedBatches \ {b}
    BY <2>7 DEF AppliedBatches
  <2>5. HistoryOK'
    BY <1>6, <1>8, <2>2, <2>3, <2>4, <2>7
  <2>6. TreeInv'
    BY <1>7, <2>1, TreeOverlaid
  <2> QED  BY <1>3, <1>4, <1>5, <2>5, <2>6 DEF IInv
<1>12. CASE ~world.open /\ ~Fits(j.txn, tree)
  <2>1. applied' = Meets(b, "conflict") /\ txns' = txns /\ tree' = tree
    BY <1>12 DEF Record
  <2>2. HistoryOK'
    BY <1>9, <2>1
  <2>3. TreeInv'
    BY <1>7, <2>1 DEF TreeInv
  <2> QED  BY <1>3, <1>4, <1>5, <2>2, <2>3 DEF IInv
<1> QED  BY <1>10, <1>11, <1>12

LEMMA RecoverKeeps ==
    ASSUME IInv, NEW p \in Procs, Recover(p)
    PROVE  IInv'
<1>1. /\ Begins(p, Idle)
      /\ UNCHANGED <<world, record, attested, batch, approval, signed, exports>>
  BY DEF Recover, papers
<1>2. PICK order \in Selections(txns) :
        /\ tree' = Recovery(order).tree
        /\ txns' = Recovery(order).txns
        /\ applied' = Kept(Recovery(order).txns)
  BY DEF Recover
<1>3. Recovers(Recovery(order))
  <2>1. TreeInv /\ TxnsInv
    BY DEF IInv, HistoryOK
  <2> QED  BY <2>1, RecoveryKeeps
<1>4. /\ JobsInv' /\ CountInv' /\ count'.kills = count.kills /\ job[p].at # "record"
      /\ \A q \in Procs : q # p => job'[q] = job[q]
  BY <1>1, IdleOK, Begun DEF IInv
<1>5. TxnsInv' /\ Completed' \subseteq Completed /\ applied' = Kept(txns')
  BY <1>2, <1>3 DEF Recovers, TxnsInv, IsTxns, Completed
<1>6. HistoryOK'
  <2>1. HistoryOK
    BY DEF IInv
  <2> QED  BY <1>1, <1>4, <1>5, <2>1, HistoryTaken
<1>7. PapersOK'
  BY <1>1, PapersSame DEF IInv, papers
<1>8. TreeInv'
  BY <1>2, <1>3 DEF Recovers, TreeInv
<1> QED  BY <1>4, <1>6, <1>7, <1>8 DEF IInv

-----------------------------------------------------------------------------
(* The environment.                                                         *)

LEMMA HistoryUnchanged ==
    ASSUME HistoryOK, UNCHANGED <<txns, job, signed, exports, applied>>,
           count'.kills = 0 => count.kills = 0
    PROVE  HistoryOK'
<1>1. TxnsInv' /\ ExportsInv' /\ AppliedInv'
  BY DEF HistoryOK, TxnsInv, ExportsInv, AppliedInv
<1>2. AppliedIsRecorded'
  BY DEF HistoryOK, AppliedIsRecorded
<1> QED  BY <1>1, <1>2 DEF HistoryOK

LEMMA ChangesCount ==
    ASSUME CountInv, Changes
    PROVE  CountInv' /\ count'.kills = count.kills
<1>1. count' = [count EXCEPT !.changes = @ + 1] /\ count.changes + count.kills < MaxChanges
  BY DEF Changes, Bounded
<1>2. /\ count'.commands = count.commands /\ count'.kills = count.kills
      /\ count'.changes = count.changes + 1
      /\ count' = [commands |-> count'.commands, imports |-> count'.imports,
                   changes |-> count'.changes, kills |-> count'.kills]
  BY <1>1 DEF CountInv
<1>3. MaxChanges \in Nat
  BY ApprovalAssumption
<1>4. CountInv'
  BY <1>1, <1>2, <1>3 DEF CountInv
<1> QED  BY <1>2, <1>4

LEMMA EditKeeps ==
    ASSUME IInv, NEW e \in Edits, Edit(e)
    PROVE  IInv'
<1>1. /\ Changes /\ tree' = [tree EXCEPT ![e.target] = e.state]
      /\ UNCHANGED <<txns, world, record, attested, batch, approval, job,
                     signed, exports, applied>>
  BY DEF Edit, papers, history
<1>2. CountInv' /\ count'.kills = count.kills
  BY <1>1, ChangesCount DEF IInv
<1>3. TreeInv'
  BY <1>1 DEF IInv, TreeInv
<1>4. HistoryOK'
  BY <1>1, <1>2, HistoryUnchanged DEF IInv
<1>5. PapersOK'
  BY <1>1, PapersSame DEF IInv, papers
<1>6. JobsInv'
  BY <1>1 DEF IInv, JobsInv
<1> QED  BY <1>2, <1>3, <1>4, <1>5, <1>6 DEF IInv

LEMMA MoveOnKeeps ==
    ASSUME IInv, NEW w \in Moves, MoveOn(w)
    PROVE  IInv'
<1>1. /\ Changes
      /\ UNCHANGED <<tree, txns, record, attested, batch, approval, job,
                     signed, exports, applied>>
  BY DEF MoveOn, repository, papers, history
<1>2. CountInv' /\ count'.kills = count.kills
  BY <1>1, ChangesCount DEF IInv
<1>3. TreeInv'
  BY <1>1 DEF IInv, TreeInv
<1>4. HistoryOK'
  BY <1>1, <1>2, HistoryUnchanged DEF IInv
<1>5. PapersOK'
  BY <1>1, PapersSame DEF IInv, papers
<1>6. JobsInv'
  BY <1>1 DEF IInv, JobsInv
<1> QED  BY <1>2, <1>3, <1>4, <1>5, <1>6 DEF IInv

\* Only a kill leaves an applied batch without a process.
LEMMA KillKeeps ==
    ASSUME IInv, NEW p \in Procs, Kill(p)
    PROVE  IInv'
<1>1. /\ count' = [count EXCEPT !.kills = @ + 1] /\ count.changes + count.kills < MaxChanges
      /\ job' = [job EXCEPT ![p] = Idle]
      /\ \/ UNCHANGED <<tree, txns, applied>>
         \/ job[p].at = "commit" /\ Partly(job[p].txn)
      /\ UNCHANGED <<world, record, attested, batch, approval, signed, exports>>
  BY DEF Kill, Bounded, Ends, repository, papers
<1>2. /\ count'.commands = count.commands /\ count'.changes = count.changes
      /\ count'.kills = count.kills + 1
      /\ count' = [commands |-> count'.commands, imports |-> count'.imports,
                   changes |-> count'.changes, kills |-> count'.kills]
  BY <1>1 DEF IInv, CountInv
<1>3. MaxChanges \in Nat /\ count.kills \in Nat
  BY ApprovalAssumption DEF IInv, CountInv
<1>4. CountInv' /\ count'.kills # 0
  BY <1>1, <1>2, <1>3 DEF IInv, CountInv
<1>5. JobsInv' /\ \A q \in Procs : q # p => job'[q] = job[q]
  BY <1>1, IdleOK, JobTaken DEF IInv
<1>6. HistoryOK' /\ TreeInv'
  <2>1. CASE UNCHANGED <<tree, txns, applied>>
    <3>1. TxnsInv' /\ ExportsInv' /\ AppliedInv'
      BY <1>1, <2>1 DEF IInv, HistoryOK, TxnsInv, ExportsInv, AppliedInv
    <3>2. AppliedIsRecorded'
      BY <1>1, <1>4, <2>1 DEF IInv, HistoryOK, AppliedIsRecorded
    <3>3. TreeInv'
      BY <2>1 DEF IInv, TreeInv
    <3> QED  BY <3>1, <3>2, <3>3 DEF HistoryOK
  <2>2. CASE job[p].at = "commit" /\ Partly(job[p].txn)
    <3>1. TreeInv /\ TxnsInv /\ HistoryOK /\ IsTxn(job[p].txn)
      BY <2>2, TxnJobOf DEF IInv, HistoryOK, TxnJob
    <3>2. /\ TreeInv' /\ TxnsInv' /\ Completed' \subseteq Completed
          /\ applied' = Kept(txns')
      BY <2>2, <3>1, PartlyKeeps
    <3> QED  BY <1>1, <1>4, <1>5, <3>1, <3>2, HistoryTaken
  <2> QED  BY <1>1, <2>1, <2>2
<1>7. PapersOK'
  BY <1>1, PapersSame DEF IInv, papers
<1> QED  BY <1>4, <1>5, <1>6, <1>7 DEF IInv

-----------------------------------------------------------------------------
(* The theorems.                                                            *)

LEMMA NextInv == IInv /\ [Next]_vars => IInv'
<1> SUFFICES ASSUME IInv, [Next]_vars  PROVE IInv'
  OBVIOUS
<1>1. CASE UNCHANGED vars
  <2>1. UNCHANGED <<tree, txns, world, record, attested, batch, approval, job,
                    signed, exports, applied, count>>
    BY <1>1 DEF vars, repository, papers, history
  <2>2. TreeInv' /\ JobsInv' /\ CountInv'
    BY <2>1 DEF IInv, TreeInv, JobsInv, CountInv
  <2>3. HistoryOK'
    BY <2>1, HistoryUnchanged DEF IInv
  <2>4. PapersOK'
    BY <2>1, PapersSame DEF IInv, papers
  <2> QED  BY <2>2, <2>3, <2>4 DEF IInv
<1>2. ASSUME NEW p \in Procs, Step(p)  PROVE IInv'
  <2>1. CASE \E f \in Files : Import(p, f)
    BY <2>1, ImportKeeps
  <2>2. CASE record # None /\ \E id \in GroupIds(record), d \in {"accepted", "rejected"} :
                BeginAttest(p, id, d)
    BY <2>2, BeginAttestKeeps
  <2>3. CASE \E S \in (SUBSET Decided) \ {{}} : \E ids \in Selections(S) :
                BeginPrepare(p, ids)
    BY <2>3, BeginPrepareKeeps
  <2>4. CASE Attest(p)
    BY <2>4, AttestKeeps
  <2>5. CASE AttestApply(p)
    BY <2>5, AttestApplyKeeps
  <2>6. CASE Prepare(p)
    BY <2>6, PrepareKeeps
  <2>7. CASE ExportPreview(p)
    BY <2>7, ExportPreviewKeeps
  <2>8. CASE BeginApply(p)
    BY <2>8, BeginApplyKeeps
  <2>9. CASE Validate(p)
    BY <2>9, ValidateKeeps
  <2>10. CASE Create(p)
    BY <2>10, CreateKeeps
  <2>11. CASE Commit(p)
    BY <2>11, CommitKeeps
  <2>12. CASE Record(p)
    BY <2>12, RecordKeeps
  <2>13. CASE Recover(p)
    BY <2>13, RecoverKeeps
  <2> QED  BY <1>2, <2>1, <2>2, <2>3, <2>4, <2>5, <2>6, <2>7, <2>8, <2>9, <2>10, <2>11,
              <2>12, <2>13 DEF Step
<1>3. ASSUME NEW p \in Procs, Kill(p)  PROVE IInv'
  BY <1>3, KillKeeps
<1>4. ASSUME NEW e \in Edits, Edit(e)  PROVE IInv'
  BY <1>4, EditKeeps
<1>5. ASSUME NEW w \in Moves, MoveOn(w)  PROVE IInv'
  BY <1>5, MoveOnKeeps
<1> QED  BY <1>1, <1>2, <1>3, <1>4, <1>5 DEF Next

(* The invariant the theorems rest on, inductive: what every paper on disk,  *)
(* every command under way and every transaction say of one another, however *)
(* commands, edits, moves of the session and kills interleave.               *)
THEOREM Inductive == Spec => []IInv
<1>1. Init => IInv
  BY InitInv
<1>2. IInv /\ [Next]_vars => IInv'
  BY NextInv
<1> QED  BY <1>1, <1>2, PTL DEF Spec

(* Whatever a preview shows and whatever apply writes goes back to accepted  *)
(* decisions of the one approver the session named (prepare_apply_batch,      *)
(* _handle_proposal_apply), for every set of proposals.                      *)
THEOREM Attestations == Spec => []AppliedWasAttested
<1>1. IInv => AppliedWasAttested
  <2> SUFFICES ASSUME IInv  PROVE AppliedWasAttested
    OBVIOUS
  <2>1. \A b \in exports : Traced(b, signed)
    BY DEF IInv, HistoryOK, ExportsInv, Accounted
  <2>2. ASSUME NEW a \in applied
        PROVE  /\ Traced(a.batch, signed)
               /\ a.approval.batch = a.batch
               /\ a.approval.approver = a.batch.session.charter
               /\ a.new = [t \in DOMAIN a.new |-> a.batch.candidate[t]]
    <3>1. IsApplied(a, signed)
      BY DEF IInv, HistoryOK, AppliedInv
    <3> QED  BY <3>1 DEF IsApplied, Accounted, Vouched, FromBatch
  <2> QED  BY <2>1, <2>2 DEF AppliedWasAttested
<1> QED  BY <1>1, Inductive, PTL

(* The candidate of whatever is shown or applied does not depend on the order *)
(* of its operations (_reject_batch_overlap), though two groups of a proposal *)
(* may change one object and two may have one id.                            *)
THEOREM Commutes == Spec => []OrderFree
<1>1. IInv => OrderFree
  <2> SUFFICES ASSUME IInv  PROVE OrderFree
    OBVIOUS
  <2>1. ASSUME NEW b \in exports \cup {a.batch : a \in applied}
        PROVE  Accounted(b, signed)
    <3>1. CASE b \in exports
      BY <3>1 DEF IInv, HistoryOK, ExportsInv
    <3>2. CASE b \in {a.batch : a \in applied}
      BY <3>2 DEF IInv, HistoryOK, AppliedInv, IsApplied
    <3> QED  BY <3>1, <3>2
  <2> QED  BY <2>1 DEF OrderFree, Accounted
<1> QED  BY <1>1, Inductive, PTL

(* The completed transactions are those of the applied batches, and each of   *)
(* these is recorded in the session, in conflict, or about to be one of them, *)
(* unless a command was killed (_handle_proposal_apply); and the papers are   *)
(* well formed. *)
THEOREM Recorded == Spec => []RecordSound
<1>1. IInv => RecordSound
  <2> SUFFICES ASSUME IInv  PROVE RecordSound
    OBVIOUS
  <2>1. DOMAIN tree = Targets
    BY DEF IInv, TreeInv
  <2>2. record = None \/ \A i \in DOMAIN record : record[i].deps \subseteq GroupIds(record)
    BY RecordFacts DEF IInv, PapersOK
  <2>3. DOMAIN attested \subseteq Ids
    BY DEF IInv, PapersOK, AttestedInv
  <2>4. \A f : DOMAIN f # {} => f # <<>>
    OBVIOUS
  <2>5. (batch = None \/ batch.groups # <<>>) /\ (approval = None \/ approval.batch.groups # <<>>)
    BY <2>4 DEF IInv, PapersOK, PapersInv, Prepared
  <2>6. \A t \in txns : t.state \in {"pending", "completed", "rolled_back"}
    BY DEF IInv, HistoryOK, TxnsInv, IsTxn
  <2>7. \A p \in Procs : job[p].at \in
          {"idle", "attest", "prepare", "validate", "create", "commit", "record"}
    BY DEF IInv, JobsInv, JobOK, Idle, AttestJob, PrepareJob, ValidateJob, CreateJob, TxnJob
  <2>8. (\A p \in Procs : count.commands[p] <= MaxCommands[p])
        /\ count.changes + count.kills <= MaxChanges
    BY DEF IInv, CountInv
  <2>9. TypeOK
    BY <2>1, <2>2, <2>3, <2>5, <2>6, <2>7, <2>8 DEF TypeOK
  <2> QED  BY <2>9 DEF RecordSound, IInv, HistoryOK
<1> QED  BY <1>1, Inductive, PTL
=============================================================================
