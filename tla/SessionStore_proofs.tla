------------------------- MODULE SessionStore_proofs -------------------------
(***************************************************************************)
(* Theorems about SessionStore for any processes, requests, events, kills, *)
(* power losses and outside losses.  First what was acknowledged: it is in *)
(* the journal unless it was lost outside.  Then what the journal says and *)
(* what the sidecar vouches for: the journal is a legal history, the       *)
(* sidecar is never ahead of what a crash may take, the store is one log,  *)
(* and the stale set of a replay is the one that the records define.       *)
(***************************************************************************)
EXTENDS SessionStore, SequenceTheorems, Recursion_proofs

-----------------------------------------------------------------------------
(* The dependents of a set of nodes.                                        *)

\* Every node that depends on one of S0, or on one of S, is in S.
ClosedOver(r, S0, S) == Direct(r, S0 \cup S) \subseteq S

(* The loop of Dependents comes to rest with all nodes that depend, and finds *)
(* nothing too much. *)
LEMMA DependentsFacts ==
    ASSUME NEW r, NEW S0
    PROVE  /\ Dependents(r, S0) \in SUBSET Nodes
           /\ ClosedOver(r, S0, Dependents(r, S0))
           /\ \A S \in SUBSET Nodes : ClosedOver(r, S0, S) => Dependents(r, S0) \subseteq S
<1> DEFINE n == Cardinality(Nodes)
           D == [U \in SUBSET Nodes |-> Direct(r, S0 \cup U)]
           body(f) == [k \in 0..n |-> IF k = 0 THEN {} ELSE Direct(r, S0 \cup f[k - 1])]
           G == CHOOSE f : f = body(f)
<1>1. n \in Nat /\ IsFiniteSet(Nodes)
  BY SessionNodes, FS_CardinalityType
<1>2. /\ D \in [SUBSET Nodes -> SUBSET Nodes]
      /\ \A U, V \in SUBSET Nodes : U \subseteq V => D[U] \subseteq D[V]
  BY DEF Direct
<1>3. PICK f : /\ f \in [0..n -> SUBSET Nodes] /\ f[0] = {}
               /\ \A k \in 1..n : f[k] = D[f[k - 1]]
               /\ D[f[n]] \subseteq f[n]
               /\ \A S \in SUBSET Nodes : D[S] \subseteq S => f[n] \subseteq S
  <2> HIDE DEF D
  <2> QED  BY <1>1, <1>2, LeastClosed
<1>4. \A k \in 1..n : f[k] = Direct(r, S0 \cup f[k - 1])
  <2>1. \A k \in 1..n : k - 1 \in 0..n
    BY <1>1
  <2> HIDE DEF n
  <2> QED  BY <1>3, <2>1
<1>5. f = body(f)
  <2>1. \A k \in 0..n : k = 0 \/ k \in 1..n
    BY <1>1
  <2> HIDE DEF n, D
  <2> QED  BY <1>3, <1>4, <2>1
<1>6. G = body(G)
  <2> HIDE DEF body
  <2> QED  BY <1>5
<1>7. \A k \in 0..n : G[k] = IF k = 0 THEN {} ELSE Direct(r, S0 \cup G[k - 1])
  <2> HIDE DEF G
  <2> QED  BY <1>6
<1>8. G[n] = f[n]
  <2>1. n \in 0..n /\ 0 \in 0..n /\ \A k \in 1..n : k \in 0..n /\ k # 0
    BY <1>1
  <2> HIDE DEF G, n, D
  <2>2. G[0] = f[0] /\ \A k \in 1..n : G[k - 1] = f[k - 1] => G[k] = f[k]
    BY <1>3, <1>4, <1>7, <2>1
  <2>3. Alike(G, f, n)
    BY <2>2 DEF Alike
  <2> QED  BY <1>1, <2>1, <2>3, SameIterates
<1>9. Dependents(r, S0) = f[n]
  BY <1>8 DEF Dependents
<1>10. f[n] \in SUBSET Nodes
  <2>1. n \in 0..n
    BY <1>1
  <2> HIDE DEF n, D
  <2> QED  BY <1>3, <2>1
<1>11. \A U \in SUBSET Nodes : D[U] = Direct(r, S0 \cup U)
  OBVIOUS
<1>12. Direct(r, S0 \cup f[n]) \subseteq f[n]
  BY <1>3, <1>10, <1>11
<1>13. ASSUME NEW S \in SUBSET Nodes, Direct(r, S0 \cup S) \subseteq S  PROVE f[n] \subseteq S
  BY <1>3, <1>11, <1>13
<1> HIDE DEF D, n, G, body
<1> QED  BY <1>9, <1>10, <1>12, <1>13 DEF ClosedOver

(* The loop finds exactly the nodes that depend, directly or through any number
   of others and through every cycle, on one of those it starts from. *)
THEOREM DependentsCorrect ==
    \A r \in Index : \A S0 \in SUBSET Nodes :
        Dependents(r, S0) =
            {n \in Nodes : \A S \in SUBSET Nodes : ClosedOver(r, S0, S) => n \in S}
<1> SUFFICES ASSUME NEW r \in Index, NEW S0 \in SUBSET Nodes
             PROVE  Dependents(r, S0) =
                 {n \in Nodes : \A S \in SUBSET Nodes : ClosedOver(r, S0, S) => n \in S}
  OBVIOUS
<1> QED  BY DependentsFacts

-----------------------------------------------------------------------------
(* Registering records, one after the other.                                *)

(* A record leaves an index. *)
LEMMA RegisterType ==
    ASSUME NEW r \in Index, NEW record \in Record
    PROVE  Register(r, record) \in Index
<1> DEFINE next == [r EXCEPT !.hash[record.node] = record.hash,
                             !.deps[record.node] = record.deps]
<1>1. next \in Index
  BY DEF Index, Record
<1>2. ASSUME NEW D \in SUBSET Nodes  PROVE [next EXCEPT !.stale = @ \cup D] \in Index
  <2> HIDE DEF next
  <2> QED  BY <1>1 DEF Index
<1>3. Dependents(next, {record.node}) \in SUBSET Nodes
  BY DependentsFacts
<1> QED  BY <1>1, <1>2, <1>3 DEF Register

(* Registering a sequence of records is a recursion over it. *)
LEMMA RegisterAllFacts ==
    ASSUME NEW r \in Index, NEW records \in Seq(Record)
    PROVE  \E f : /\ f \in [0..Len(records) -> Index]
                  /\ f[0] = r
                  /\ \A k \in 1..Len(records) : f[k] = Register(f[k - 1], records[k])
                  /\ RegisterAll(r, records) = f[Len(records)]
<1> DEFINE n == Len(records)
           F == [k \in 1..n |-> [x \in Index |-> Register(x, records[k])]]
           body(f) == [k \in 0..n |-> IF k = 0 THEN r ELSE Register(f[k - 1], records[k])]
           G == CHOOSE f : f = body(f)
<1>1. n \in Nat /\ \A k \in 1..n : records[k] \in Record
  BY LenProperties, ElementOfSeq
<1>2. F \in [1..n -> [Index -> Index]]
  <2>1. \A k \in 1..n : \A x \in Index : Register(x, records[k]) \in Index
    BY <1>1, RegisterType
  <2> HIDE DEF n
  <2> QED  BY <2>1
<1>3. PICK f : Iterated(f, n, Index, r, F)
  <2>1. r \in Index /\ F \in Steps(n, Index)
    BY <1>2 DEF Steps
  <2> HIDE DEF F, n
  <2> QED  BY <1>1, <2>1, Iterates
<1>4. f = body(f)
  <2>1. \A k \in 1..n : k - 1 \in 0..n /\ f[k - 1] \in Index
    BY <1>1, <1>3 DEF Iterated
  <2>2. \A k \in 1..n : f[k] = Register(f[k - 1], records[k])
    BY <1>3, <2>1 DEF Iterated
  <2>3. \A k \in 0..n : k = 0 \/ k \in 1..n
    BY <1>1
  <2> HIDE DEF n
  <2> QED  BY <1>3, <2>2, <2>3 DEF Iterated
<1>5. G = body(G)
  <2> HIDE DEF body
  <2> QED  BY <1>4
<1>6. RegisterAll(r, records) = G[n]
  BY DEF RegisterAll
<1>7. \A k \in 0..n : /\ G[k] = (IF k = 0 THEN r ELSE Register(G[k - 1], records[k]))
                      /\ f[k] = (IF k = 0 THEN r ELSE Register(f[k - 1], records[k]))
  BY <1>4, <1>5
<1>8. n \in 0..n /\ 0 \in 0..n /\ \A k \in 1..n : k \in 0..n /\ k # 0
  BY <1>1
<1>9. G[n] = f[n]
  <2> HIDE DEF G, n
  <2>1. G[0] = f[0] /\ \A k \in 1..n : G[k - 1] = f[k - 1] => G[k] = f[k]
    BY <1>7, <1>8
  <2>2. n \in Nat
    BY <1>1
  <2>3. Alike(G, f, n)
    BY <2>1 DEF Alike
  <2>4. \A k \in 0..n : G[k] = f[k]
    BY <2>2, <2>3, SameIterates
  <2> QED  BY <1>8, <2>4
<1>10. f[0] = r /\ f \in [0..n -> Index]
  BY <1>3 DEF Iterated
<1>11. \A k \in 1..n : f[k] = Register(f[k - 1], records[k])
  BY <1>7, <1>8
<1> QED  BY <1>6, <1>9, <1>10, <1>11

(* It leaves an index, and no records leave the one there was ... *)
LEMMA RegisterAllEnds ==
    ASSUME NEW r \in Index, NEW records \in Seq(Record)
    PROVE  /\ RegisterAll(r, records) \in Index
           /\ records = <<>> => RegisterAll(r, records) = r
<1>1. Len(records) \in Nat
  BY LenProperties
<1>2. PICK f : /\ f \in [0..Len(records) -> Index] /\ f[0] = r
               /\ RegisterAll(r, records) = f[Len(records)]
  BY RegisterAllFacts
<1>3. records = <<>> => Len(records) = 0
  OBVIOUS
<1> QED  BY <1>1, <1>2, <1>3

(* ... and one element more is one step more. *)
LEMMA RegisterAllAppend ==
    ASSUME NEW r \in Index, NEW records \in Seq(Record), NEW e \in Record
    PROVE  RegisterAll(r, Append(records, e)) = Register(RegisterAll(r, records), e)
<1> DEFINE n == Len(records)
           t == Append(records, e)
<1>1. n \in Nat /\ t \in Seq(Record) /\ Len(t) = n + 1 /\ t[n + 1] = e
      /\ \A k \in 1..n : t[k] = records[k]
  BY LenProperties, AppendProperties
<1>2. PICK g : /\ g[0] = r /\ RegisterAll(r, records) = g[n]
               /\ \A k \in 1..n : g[k] = Register(g[k - 1], records[k])
  BY RegisterAllFacts
<1>3. PICK f : /\ f[0] = r /\ RegisterAll(r, t) = f[Len(t)]
               /\ \A k \in 1..Len(t) : f[k] = Register(f[k - 1], t[k])
  <2>1. t \in Seq(Record)
    BY <1>1
  <2> HIDE DEF t
  <2> QED  BY <2>1, RegisterAllFacts
<1>4. \A k \in 1..n : k \in 1..Len(t)
  BY <1>1
<1>5. f[n] = g[n]
  <2> HIDE DEF n, t
  <2>1. \A k \in 1..n : g[k - 1] = f[k - 1] => g[k] = f[k]
    BY <1>1, <1>2, <1>3, <1>4
  <2>2. n \in 0..n
    BY <1>1
  <2>3. g[0] = f[0] /\ n \in Nat
    BY <1>1, <1>2, <1>3
  <2>4. Alike(g, f, n)
    BY <2>1, <2>3 DEF Alike
  <2>5. \A k \in 0..n : g[k] = f[k]
    BY <2>3, <2>4, SameIterates
  <2> QED  BY <2>2, <2>5
<1>6. n + 1 \in 1..Len(t) /\ (n + 1) - 1 = n
  BY <1>1
<1>7. f[n + 1] = Register(f[n], e)
  <2> HIDE DEF n, t
  <2> QED  BY <1>1, <1>3, <1>6
<1> QED  BY <1>1, <1>2, <1>3, <1>5, <1>7

(* Records do not move the session. *)
LEMMA RegisterAllState ==
    ASSUME NEW r \in Index, NEW records \in Seq(Record)
    PROVE  RegisterAll(r, records).state = r.state
<1>1. Len(records) \in Nat /\ \A k \in 1..Len(records) : records[k] \in Record
  BY LenProperties, ElementOfSeq
<1>2. PICK f : /\ f \in [0..Len(records) -> Index] /\ f[0] = r
               /\ \A k \in 1..Len(records) : f[k] = Register(f[k - 1], records[k])
               /\ RegisterAll(r, records) = f[Len(records)]
  BY RegisterAllFacts
<1> DEFINE T == {k \in 0..Len(records) : f[k].state = r.state}
<1>3. 0 \in T
  BY <1>1, <1>2
<1>4. ASSUME NEW k \in 1..Len(records), k - 1 \in T  PROVE k \in T
  <2>1. f[k - 1] \in Index /\ f[k - 1].state = r.state /\ k \in 0..Len(records)
    BY <1>1, <1>2, <1>4
  <2>2. Register(f[k - 1], records[k]).state = f[k - 1].state
    BY <2>1 DEF Register, Index
  <2> QED
    BY <1>2, <2>1, <2>2
<1> HIDE DEF T
<1>5. 0..Len(records) \subseteq T
  BY <1>1, <1>3, <1>4, UpTo
<1> QED
  BY <1>1, <1>2, <1>5 DEF T

-----------------------------------------------------------------------------
(* Replaying a journal.                                                     *)

\* Events as a replay reads them.
Legible(E) == \A e \in E : e.target \in States /\ e.records \in Seq(Record)

(* The empty index is one. *)
LEMMA EmptyType == Empty \in Index
BY DEF Empty, Index

(* An event leaves an index. *)
LEMMA ApplyType ==
    ASSUME NEW E, Legible(E), NEW e \in E, NEW r \in Index
    PROVE  Apply(r, e) \in Index
<1>1. RegisterAll(r, e.records) \in Index
  BY RegisterAllEnds DEF Legible
<1>2. e.target \in States
  BY DEF Legible
<1> QED  BY <1>1, <1>2 DEF Apply, Index, States

(* Replay is a recursion over the journal. *)
LEMMA ReplayFacts ==
    ASSUME NEW E, Legible(E), NEW events \in Seq(E)
    PROVE  \E f : /\ f \in [0..Len(events) -> Index]
                  /\ f[0] = Empty
                  /\ \A k \in 1..Len(events) : f[k] = Apply(f[k - 1], events[k])
                  /\ Replay(events) = f[Len(events)]
<1> DEFINE n == Len(events)
           F == [k \in 1..n |-> [x \in Index |-> Apply(x, events[k])]]
           body(f) == [k \in 0..n |-> IF k = 0 THEN Empty ELSE Apply(f[k - 1], events[k])]
           G == CHOOSE f : f = body(f)
<1>1. n \in Nat /\ \A k \in 1..n : events[k] \in E
  BY LenProperties, ElementOfSeq
<1>2. F \in [1..n -> [Index -> Index]]
  <2>1. \A k \in 1..n : \A x \in Index : Apply(x, events[k]) \in Index
    BY <1>1, ApplyType
  <2> HIDE DEF n
  <2> QED  BY <2>1
<1>3. PICK f : Iterated(f, n, Index, Empty, F)
  <2>1. Empty \in Index /\ F \in Steps(n, Index)
    BY <1>2, EmptyType DEF Steps
  <2> HIDE DEF F, n
  <2> QED  BY <1>1, <2>1, Iterates
<1>4. f = body(f)
  <2>1. \A k \in 1..n : k - 1 \in 0..n /\ f[k - 1] \in Index
    BY <1>1, <1>3 DEF Iterated
  <2>2. \A k \in 1..n : f[k] = Apply(f[k - 1], events[k])
    BY <1>3, <2>1 DEF Iterated
  <2>3. \A k \in 0..n : k = 0 \/ k \in 1..n
    BY <1>1
  <2> HIDE DEF n
  <2> QED  BY <1>3, <2>2, <2>3 DEF Iterated
<1>5. G = body(G)
  <2> HIDE DEF body
  <2> QED  BY <1>4
<1>6. Replay(events) = G[n]
  BY DEF Replay
<1>7. \A k \in 0..n : /\ G[k] = (IF k = 0 THEN Empty ELSE Apply(G[k - 1], events[k]))
                      /\ f[k] = (IF k = 0 THEN Empty ELSE Apply(f[k - 1], events[k]))
  BY <1>4, <1>5
<1>8. n \in 0..n /\ 0 \in 0..n /\ \A k \in 1..n : k \in 0..n /\ k # 0
  BY <1>1
<1>9. G[n] = f[n]
  <2> HIDE DEF G, n
  <2>1. G[0] = f[0] /\ \A k \in 1..n : G[k - 1] = f[k - 1] => G[k] = f[k]
    BY <1>7, <1>8
  <2>2. n \in Nat
    BY <1>1
  <2>3. Alike(G, f, n)
    BY <2>1 DEF Alike
  <2>4. \A k \in 0..n : G[k] = f[k]
    BY <2>2, <2>3, SameIterates
  <2> QED  BY <1>8, <2>4
<1>10. f[0] = Empty /\ f \in [0..n -> Index]
  BY <1>3 DEF Iterated
<1>11. \A k \in 1..n : f[k] = Apply(f[k - 1], events[k])
  BY <1>7, <1>8
<1> QED  BY <1>6, <1>9, <1>10, <1>11

(* It leaves an index, and of the empty journal the empty one ... *)
LEMMA ReplayEnds ==
    ASSUME NEW E, Legible(E), NEW events \in Seq(E)
    PROVE  /\ Replay(events) \in Index
           /\ events = <<>> => Replay(events) = Empty
<1>1. Len(events) \in Nat
  BY LenProperties
<1>2. PICK f : /\ f \in [0..Len(events) -> Index] /\ f[0] = Empty
               /\ Replay(events) = f[Len(events)]
  BY ReplayFacts
<1>3. events = <<>> => Len(events) = 0
  OBVIOUS
<1> QED  BY <1>1, <1>2, <1>3

(* ... and one element more is one step more. *)
LEMMA ReplayAppend ==
    ASSUME NEW E, Legible(E), NEW events \in Seq(E), NEW e \in E
    PROVE  Replay(Append(events, e)) = Apply(Replay(events), e)
<1> DEFINE n == Len(events)
           t == Append(events, e)
<1>1. n \in Nat /\ t \in Seq(E) /\ Len(t) = n + 1 /\ t[n + 1] = e
      /\ \A k \in 1..n : t[k] = events[k]
  BY LenProperties, AppendProperties
<1>2. PICK g : /\ g[0] = Empty /\ Replay(events) = g[n]
               /\ \A k \in 1..n : g[k] = Apply(g[k - 1], events[k])
  BY ReplayFacts
<1>3. PICK f : /\ f[0] = Empty /\ Replay(t) = f[Len(t)]
               /\ \A k \in 1..Len(t) : f[k] = Apply(f[k - 1], t[k])
  <2>1. t \in Seq(E)
    BY <1>1
  <2> HIDE DEF t
  <2> QED  BY <2>1, ReplayFacts
<1>4. \A k \in 1..n : k \in 1..Len(t)
  BY <1>1
<1>5. f[n] = g[n]
  <2> HIDE DEF n, t
  <2>1. \A k \in 1..n : g[k - 1] = f[k - 1] => g[k] = f[k]
    BY <1>1, <1>2, <1>3, <1>4
  <2>2. n \in 0..n
    BY <1>1
  <2>3. g[0] = f[0] /\ n \in Nat
    BY <1>1, <1>2, <1>3
  <2>4. Alike(g, f, n)
    BY <2>1, <2>3 DEF Alike
  <2>5. \A k \in 0..n : g[k] = f[k]
    BY <2>3, <2>4, SameIterates
  <2> QED  BY <2>2, <2>5
<1>6. n + 1 \in 1..Len(t) /\ (n + 1) - 1 = n
  BY <1>1
<1>7. f[n + 1] = Apply(f[n], e)
  <2> HIDE DEF n, t
  <2> QED  BY <1>1, <1>3, <1>6
<1> QED  BY <1>1, <1>2, <1>3, <1>5, <1>7

(* A replayable journal stays so when it is cut back ... *)
LEMMA ReplayablePrefix ==
    ASSUME NEW E, NEW events \in Seq(E), Replayable(events), NEW n \in 0..Len(events)
    PROVE  Replayable(SubSeq(events, 1, n))
<1> DEFINE t == SubSeq(events, 1, n)
<1>1. /\ Len(events) \in Nat /\ \A k \in 1..Len(events) : events[k] \in E
      /\ Len(t) = n /\ t \in Seq(E) /\ \A k \in 1..n : t[k] = events[k]
  BY LenProperties, ElementOfSeq, SubSeqProperties
<1>2. ASSUME NEW k \in 1..n  PROVE SubSeq(t, 1, k - 1) = SubSeq(events, 1, k - 1)
  <2>1. /\ Len(SubSeq(t, 1, k - 1)) = k - 1
        /\ \A i \in 1..(k - 1) : SubSeq(t, 1, k - 1)[i] = t[i]
        /\ SubSeq(t, 1, k - 1) \in Seq(E)
    <3>1. k - 1 \in 0..Len(t) /\ \A i \in 1..(k - 1) : t[i] \in E
      BY <1>1
    <3> HIDE DEF t
    <3> QED  BY <1>1, <3>1, SubSeqProperties
  <2>2. /\ Len(SubSeq(events, 1, k - 1)) = k - 1
        /\ \A i \in 1..(k - 1) : SubSeq(events, 1, k - 1)[i] = events[i]
        /\ SubSeq(events, 1, k - 1) \in Seq(E)
    BY <1>1, SubSeqProperties
  <2>3. \A i \in 1..(k - 1) : SubSeq(t, 1, k - 1)[i] = SubSeq(events, 1, k - 1)[i]
    BY <1>1, <2>1, <2>2
  <2> HIDE DEF t
  <2> QED  BY <2>1, <2>2, <2>3, SeqEqual
<1>3. ASSUME NEW k \in 1..Len(t)  PROVE Replays(Replay(SubSeq(t, 1, k - 1)), t[k])
  <2>1. k \in 1..n /\ k \in 1..Len(events)
    BY <1>1
  <2> QED  BY <1>1, <1>2, <2>1 DEF Replayable
<1> QED  BY <1>3 DEF Replayable

(* ... and when it grows by an event that replays. *)
LEMMA ReplayableAppend ==
    ASSUME NEW E, NEW events \in Seq(E), Replayable(events), NEW e \in E,
           Replays(Replay(events), e)
    PROVE  Replayable(Append(events, e))
<1> DEFINE t == Append(events, e)
           n == Len(events)
<1>1. /\ n \in Nat /\ \A k \in 1..n : events[k] \in E
      /\ Len(t) = n + 1 /\ t \in Seq(E) /\ t[n + 1] = e /\ \A k \in 1..n : t[k] = events[k]
  BY LenProperties, ElementOfSeq, AppendProperties
<1>2. ASSUME NEW m \in 0..n  PROVE SubSeq(t, 1, m) = SubSeq(events, 1, m)
  <2>1. /\ Len(SubSeq(t, 1, m)) = m
        /\ \A i \in 1..m : SubSeq(t, 1, m)[i] = t[i]
        /\ SubSeq(t, 1, m) \in Seq(E)
    <3>1. m \in 0..Len(t) /\ \A i \in 1..m : t[i] \in E
      BY <1>1
    <3> HIDE DEF t
    <3> QED  BY <1>1, <3>1, SubSeqProperties
  <2>2. /\ Len(SubSeq(events, 1, m)) = m
        /\ \A i \in 1..m : SubSeq(events, 1, m)[i] = events[i]
        /\ SubSeq(events, 1, m) \in Seq(E)
    BY <1>1, SubSeqProperties
  <2>3. \A i \in 1..m : SubSeq(t, 1, m)[i] = SubSeq(events, 1, m)[i]
    BY <1>1, <2>1, <2>2
  <2> HIDE DEF t
  <2> QED  BY <2>1, <2>2, <2>3, SeqEqual
<1>3. SubSeq(events, 1, n) = events
  BY <1>1, SubSeqFull
<1>4. ASSUME NEW k \in 1..Len(t)  PROVE Replays(Replay(SubSeq(t, 1, k - 1)), t[k])
  <2>1. CASE k \in 1..n
    <3>1. k - 1 \in 0..n /\ t[k] = events[k]
      BY <1>1, <2>1
    <3>2. SubSeq(t, 1, k - 1) = SubSeq(events, 1, k - 1)
      BY <1>2, <3>1
    <3> QED  BY <2>1, <3>1, <3>2 DEF Replayable
  <2>2. CASE k = n + 1
    <3>1. k - 1 = n /\ n \in 0..n
      BY <1>1, <2>2
    <3> HIDE DEF t, n
    <3> QED  BY <1>1, <1>2, <1>3, <2>2, <3>1
  <2> QED  BY <1>1, <2>1, <2>2
<1> QED  BY <1>4 DEF Replayable

-----------------------------------------------------------------------------
(* The store.                                                               *)

(***************************************************************************)
(* The inductive invariant.  An event whose call returned was synced and   *)
(* is among those the sidecar counts, as long as the journal is no shorter *)
(* than the sidecar says; and the owner of the lock is the only process    *)
(* that moves either.                                                      *)
(***************************************************************************)

\* The lock is held by the process that appends, from the start of its call to
\* the end; an open has given it back before it writes the cache.
LockInv ==
    \A p \in Procs :
        /\ req[p] # NoFile <=> lock = p
        /\ pc[p] = "idle" => req[p] = NoFile
        /\ pc[p] \in {"append", "sync", "publish"} => req[p] # NoFile

\* Ids are fresh: the one being appended is in no journal and was never
\* acknowledged.
IdInv ==
    /\ \A i \in 1..Len(journal) : journal[i].id \in 1..minted
    /\ \A p \in Procs : req[p] # NoFile =>
          /\ req[p].id \in 1..minted /\ req[p].id \notin acked
          /\ pc[p] = "append" =>
                \A i \in 1..Len(journal) : journal[i].id # req[p].id

\* A line without its newline is nobody's acknowledged event.
TailInv ==
    /\ tail = "absent" => journal = <<>>
    /\ tail = "open" =>
          /\ Len(journal) > 0 /\ journal[Len(journal)].id \notin acked
          /\ head # NoFile => Len(journal) > 1

\* Every acknowledged event is among the first n of the journal.
AckedIn(n) == \A a \in acked : \E i \in 1..n : journal[i].id = a

\* What the owner of the lock knows at each point of its call.
CallInv ==
    \A p \in Procs : req[p] # NoFile =>
        /\ pc[p] = "append" =>
              /\ AckedIn(Len(journal))
              /\ head # NoFile => head.count <= Len(journal)
        /\ pc[p] = "sync" => tail \in {"clean", "torn"}
        /\ pc[p] \in {"publish", "cache", "replace"} =>
              tail = "clean" /\ synced = Len(journal)
        /\ (pc[p] \in {"sync", "publish", "cache", "replace"}
               /\ tail = "clean") =>
              /\ AckedIn(Len(journal))
              /\ Len(journal) > 0 /\ journal[Len(journal)].id = req[p].id
        /\ pc[p] = "publish" => Len(view[p]) = Len(journal)
        /\ pc[p] \in {"cache", "replace"} => head.count = Len(journal)

\* What was acknowledged was synced, as was the genesis before the sidecar ...
SyncInv ==
    /\ acked # {} \/ head # NoFile => synced > 0
    /\ \A i \in 1..Len(journal) : i > synced => journal[i].id \notin acked

\* ... and the sidecar counts it.
CoverInv ==
    head # NoFile /\ head.count <= Len(journal) => AckedIn(head.count)

IInv == /\ TypeOK /\ LockInv /\ IdInv /\ TailInv
        /\ CallInv /\ SyncInv /\ CoverInv

-----------------------------------------------------------------------------
(* Sequences.                                                               *)

(* An appended event comes last, and the others stay where they are. *)
LEMMA AppendFacts ==
    ASSUME NEW S, NEW s \in Seq(S), NEW e \in S
    PROVE  /\ Append(s, e) \in Seq(S)
           /\ Len(Append(s, e)) = Len(s) + 1
           /\ \A i \in 1..Len(s) : Append(s, e)[i] = s[i]
           /\ Append(s, e)[Len(s) + 1] = e
  OBVIOUS

(* A prefix has its length and the same elements. *)
LEMMA PrefixFacts ==
    ASSUME NEW S, NEW s \in Seq(S), NEW n \in 0..Len(s)
    PROVE  /\ SubSeq(s, 1, n) \in Seq(S)
           /\ Len(SubSeq(s, 1, n)) = n
           /\ \A i \in 1..n : SubSeq(s, 1, n)[i] = s[i]
<1>1. Len(s) \in Nat /\ \A i \in 1..n : s[i] \in S
  BY LenProperties, ElementOfSeq
<1> QED
  BY <1>1, SubSeqProperties

(* Front drops the last event. *)
LEMMA FrontFacts ==
    ASSUME NEW S, NEW s \in Seq(S), Len(s) > 0
    PROVE  /\ Front(s) \in Seq(S)
           /\ Len(Front(s)) = Len(s) - 1
           /\ \A i \in 1..(Len(s) - 1) : Front(s)[i] = s[i]
<1>1. Len(s) - 1 \in 0..Len(s)
  BY LenProperties
<1> QED
  BY <1>1, PrefixFacts DEF Front

(* Only the empty journal has no last event. *)
LEMMA LenFacts ==
    ASSUME NEW S, NEW s \in Seq(S)
    PROVE  /\ Len(s) \in Nat
           /\ Len(s) = 0 <=> s = <<>>
           /\ \A i \in 1..Len(s) : s[i] \in S
  BY LenProperties, ElementOfSeq, EmptySeq

(* The ids of a sequence. *)
LEMMA IdsFact ==
    ASSUME NEW s, NEW x
    PROVE  x \in Ids(s) <=> \E i \in 1..Len(s) : s[i].id = x
  BY DEF Ids

(* What a sidecar written from a view says. *)
LEMMA HeadFacts ==
    ASSUME NEW s \in Seq(Event)
    PROVE  /\ LastId(s) \in Nat
           /\ HeadOf(s) \in Sidecar
           /\ HeadOf(s).count = Len(s)
<1>1. Len(s) \in Nat /\ (s # <<>> => Len(s) \in 1..Len(s))
  BY LenFacts
<1>2. LastId(s) \in Nat
  <2>1. CASE s = <<>>
    BY <2>1 DEF LastId
  <2>2. CASE s # <<>>
    <3>1. s[Len(s)] \in Event
      BY <1>1, <2>2, ElementOfSeq
    <3> QED
      BY <2>2, <3>1 DEF LastId, Event
  <2> QED
    BY <2>1, <2>2
<1> QED
  BY <1>1, <1>2 DEF HeadOf, Sidecar

-----------------------------------------------------------------------------
(* The file.                                                                *)

(* An interrupted write leaves the lines there were, cuts the last one that had
   no newline, or adds the new one without its newline. *)
LEMMA CutFacts ==
    ASSUME NEW e, NEW file \in CutShort(e)
    PROVE  \/ /\ file.lines = journal
              /\ file.end = IF tail = "absent" THEN "clean" ELSE tail
           \/ file.lines = journal /\ file.end = "torn" /\ tail # "open"
           \/ file.lines = Front(journal) /\ file.end = "torn" /\ tail = "open"
           \/ file.lines = Append(journal, e) /\ file.end = "open" /\ tail # "open"
<1>1. CASE file = [lines |-> journal,
                   end |-> IF tail = "absent" THEN "clean" ELSE tail]
  BY <1>1
<1>2. CASE \E cut \in Cuts \cap {"torn"} :
              file = [lines |-> IF tail = "open" THEN Front(journal) ELSE journal,
                      end |-> cut]
  BY <1>2
<1>3. CASE \E cut \in {c \in Cuts : c = "open" /\ tail # "open"} :
              file = [lines |-> Append(journal, e), end |-> cut]
  BY <1>3
<1> QED
  BY <1>1, <1>2, <1>3 DEF CutShort

(* The file stays, is cut back to its first lines, or grows by the event a
   process in its call is appending. *)
LEMMA FileChange ==
    ASSUME IInv, Next
    PROVE  \/ journal' = journal
           \/ \E n \in 0..Len(journal) : journal' = SubSeq(journal, 1, n)
           \/ \E p \in Procs : /\ At(p, "append") /\ tail # "open"
                                /\ journal' = Append(journal, req[p])
<1> DEFINE Same == journal' = journal
           Shorter == \E n \in 0..Len(journal) : journal' = SubSeq(journal, 1, n)
           Longer == \E p \in Procs : /\ At(p, "append") /\ tail # "open"
                                      /\ journal' = Append(journal, req[p])
<1> SUFFICES Same \/ Shorter \/ Longer
  OBVIOUS
<1> USE DEF IInv, TypeOK
<1>1. Len(journal) \in Nat
  BY LenFacts
<1>2. tail = "open" => Len(journal) - 1 \in 0..Len(journal)
  BY <1>1 DEF TailInv
<1> QED
  <2>1. CASE \E p \in Procs : AppendLine(p)
    BY <2>1, <1>2 DEF AppendLine, Leaves, Written, Front
  <2>2. CASE \E p \in Procs : Kill(p)
    <3> PICK p \in Procs : Kill(p)
      BY <2>2
    <3>1. CASE At(p, "append")
      <4> PICK file \in CutShort(req[p]) : Leaves(file)
        BY <3>1 DEF Kill
      <4>1. CASE file.lines = journal
        BY <4>1 DEF Leaves
      <4>2. CASE tail = "open" /\ file.lines = Front(journal)
        BY <4>2, <1>2 DEF Leaves, Front
      <4>3. CASE tail # "open" /\ file.lines = Append(journal, req[p])
        BY <3>1, <4>3 DEF Leaves
      <4> QED
        BY <4>1, <4>2, <4>3, CutFacts
    <3>2. CASE ~At(p, "append")
      BY <3>2 DEF Kill
    <3> QED
      BY <3>1, <3>2
  <2>3. CASE LosePower
    <3>1. \A n \in synced..(Len(journal) - 1) :
              n \in 0..Len(journal) /\ n + 1 \in 0..Len(journal)
      BY <1>1
    <3> QED
      BY <2>3, <3>1 DEF LosePower
  <2>4. CASE LoseLine
    <3>1. Len(journal) - 1 \in 0..Len(journal)
      BY <2>4, <1>1 DEF LoseLine
    <3> QED
      BY <2>4, <3>1 DEF LoseLine, Front
  <2>5. CASE LoseHead
    BY <2>5 DEF LoseHead
  <2>6. CASE \E p \in Procs : BeginCreate(p) \/ Open(p) \/ BeginMutation(p)
    BY <2>6 DEF BeginCreate, Open, BeginMutation, disk
  <2>7. CASE \E p \in Procs : \/ SyncFails(p) \/ Sync(p)
                              \/ WriteCommittedHead(p) \/ WriteTmp(p)
                              \/ ReplaceCache(p) \/ ReplaceFails(p)
    BY <2>7 DEF SyncFails, Sync, WriteCommittedHead, WriteTmp, ReplaceCache,
                ReplaceFails, disk
  <2> QED
    BY <2>1, <2>2, <2>3, <2>4, <2>5, <2>6, <2>7 DEF Next, Step, InCall

(* No step changes an event that the file keeps; the file grows by one event,
   the one a process in its call is appending. *)
LEMMA FileStep ==
    ASSUME IInv, Next
    PROVE  /\ journal' \in Seq(Event)
           /\ \A i \in 1..Len(journal') :
                 i <= Len(journal) => journal'[i] = journal[i]
           /\ Len(journal') <= Len(journal) \/ \E p \in Procs :
                 /\ At(p, "append") /\ tail # "open"
                 /\ Len(journal') = Len(journal) + 1
                 /\ journal'[Len(journal) + 1] = req[p]
<1> USE DEF IInv, TypeOK
<1>1. Len(journal) \in Nat
  BY LenFacts
<1>2. \A p \in Procs : At(p, "append") => req[p] \in Event
  BY DEF LockInv, At
<1>3. CASE journal' = journal
  BY <1>1, <1>3
<1>4. CASE \E n \in 0..Len(journal) : journal' = SubSeq(journal, 1, n)
  BY <1>1, <1>4, PrefixFacts
<1>5. ASSUME NEW p \in Procs, At(p, "append"), tail # "open",
             journal' = Append(journal, req[p])
      PROVE  /\ journal' \in Seq(Event) /\ Len(journal') = Len(journal) + 1
             /\ \A i \in 1..Len(journal) : journal'[i] = journal[i]
             /\ journal'[Len(journal) + 1] = req[p]
  BY <1>2, <1>5, AppendFacts
<1> QED
  BY <1>1, <1>3, <1>4, <1>5, FileChange

-----------------------------------------------------------------------------
(* The steps.                                                               *)

(* Whoever begins takes the lock, a fresh id and an event of its own. *)
LEMMA Requested ==
    ASSUME IInv, NEW p \in Procs, BeginCreate(p) \/ BeginMutation(p)
    PROVE  /\ lock = NoProc /\ lock' = p
           /\ req' = [req EXCEPT ![p] = req'[p]]
           /\ req'[p] \in Event /\ req'[p] # NoFile
           /\ req'[p].id = minted + 1 /\ minted' = minted + 1
           /\ pc' = [pc EXCEPT ![p] = "append"]
           /\ view' \in [Procs -> Seq(Event)]
<1> USE DEF IInv, TypeOK, Event, Goto
<1>1. CASE BeginCreate(p)
  <2>1. <<>> \in Seq(Event)
    BY EmptySeq DEF Event
  <2>2. [id |-> minted + 1, type |-> "charter_recorded",
         target |-> "initialized", records |-> Genesis] \in Event
    BY SessionGenesis DEF Types, States
  <2> QED
    BY <1>1, <2>1, <2>2, SessionNoFile DEF BeginCreate
<1>2. CASE BeginMutation(p)
  <2> PICK e \in Requests : req' = [req EXCEPT ![p] =
                 [id |-> minted + 1, type |-> e.type,
                  target |-> e.target, records |-> e.records]]
    BY <1>2 DEF BeginMutation
  <2>1. [id |-> minted + 1, type |-> e.type,
         target |-> e.target, records |-> e.records] \in Event
    BY SessionRequests
  <2> QED
    BY <1>2, <2>1, SessionNoFile DEF BeginMutation
<1> QED
  BY <1>1, <1>2

(* The lock: whoever begins takes it, whoever ends, raises or dies gives it back. *)
LEMMA LockStep ==
    ASSUME IInv, Next
    PROVE  LockInv'
<1> USE SessionSentinels DEF IInv, TypeOK, LockInv, At, Goto, Points
<1>1. CASE \E p \in Procs : BeginCreate(p)
  BY <1>1, Requested
<1>2. CASE \E p \in Procs : Open(p)
  BY <1>2 DEF Open
<1>3. CASE \E p \in Procs : BeginMutation(p)
  BY <1>3, Requested
<1>4. CASE \E p \in Procs : AppendLine(p)
  BY <1>4 DEF AppendLine
<1>5. CASE \E p \in Procs : SyncFails(p)
  BY <1>5 DEF SyncFails, Raise
<1>6. CASE \E p \in Procs : Sync(p)
  BY <1>6 DEF Sync
<1>7. CASE \E p \in Procs : WriteCommittedHead(p)
  BY <1>7 DEF WriteCommittedHead
<1>8. CASE \E p \in Procs : WriteTmp(p)
  BY <1>8 DEF WriteTmp
<1>9. CASE \E p \in Procs : ReplaceCache(p)
  BY <1>9 DEF ReplaceCache
<1>10. CASE \E p \in Procs : ReplaceFails(p)
  BY <1>10 DEF ReplaceFails, Raise
<1>11. CASE \E p \in Procs : Kill(p)
  <2> PICK p \in Procs : Kill(p)
    BY <1>11
  <2>1. /\ pc' = [q \in Procs |-> IF q = p THEN "idle" ELSE pc[q]]
        /\ req' = [q \in Procs |-> IF q = p THEN NoFile ELSE req[q]]
        /\ lock' = IF lock = p THEN NoProc ELSE lock
    BY DEF Kill, Forget
  <2> QED
    BY <2>1
<1>12. CASE LosePower
  BY <1>12 DEF LosePower, Forget
<1>13. CASE LoseLine
  BY <1>13 DEF LoseLine, local
<1>14. CASE LoseHead
  BY <1>14 DEF LoseHead, local
<1> QED
  BY <1>1, <1>2, <1>3, <1>4, <1>5, <1>6, <1>7, <1>8, <1>9, <1>10, <1>11, <1>12, <1>13, <1>14
     DEF Next, Step, InCall

(* What AppendLine leaves: one event more, or, after a line without its newline,
   one less. *)
LEMMA Appends ==
    ASSUME IInv, NEW p \in Procs, AppendLine(p)
    PROVE  /\ req[p] \in Event /\ req[p] # NoFile /\ lock = p
           /\ journal' \in Seq(Event)
           /\ \/ /\ tail # "open" /\ tail' = "clean" /\ synced' = synced
                 /\ Len(journal') = Len(journal) + 1
                 /\ journal'[Len(journal) + 1] = req[p]
              \/ /\ tail = "open" /\ tail' = "torn" /\ Len(journal) > 0
                 /\ Len(journal') = Len(journal) - 1
                 /\ synced' = IF synced = Len(journal) THEN synced - 1 ELSE synced
<1> USE DEF IInv, TypeOK
<1>1. req[p] \in Event /\ req[p] # NoFile /\ lock = p
  BY DEF LockInv, AppendLine, At
<1>2. Len(journal) \in Nat
  BY LenFacts
<1>3. CASE tail # "open"
  <2>1. journal' = Append(journal, req[p]) /\ tail' = "clean"
    BY <1>3 DEF AppendLine, Leaves, Written
  <2> QED
    BY <1>1, <1>2, <1>3, <2>1, AppendFacts DEF AppendLine
<1>4. CASE tail = "open"
  <2>1. Len(journal) > 0
    BY <1>4 DEF TailInv
  <2>2. journal' = Front(journal) /\ tail' = "torn"
    BY <1>4 DEF AppendLine, Leaves, Written
  <2> QED
    BY <1>1, <1>4, <2>1, <2>2, FrontFacts DEF AppendLine
<1> QED
  BY <1>3, <1>4

(* What a kill leaves. *)
LEMMA Killed ==
    ASSUME IInv, NEW p \in Procs, Kill(p)
    PROVE  /\ journal' \in Seq(Event)
           /\ At(p, "append") => req[p] \in Event /\ req[p] # NoFile
           /\ synced' = IF synced > Len(journal') THEN Len(journal') ELSE synced
           /\ \/ journal' = journal /\ tail' = tail
              \/ /\ At(p, "append") /\ journal' = journal
                 /\ tail # "open"
                 /\ tail' = "torn" \/ (tail = "absent" /\ tail' = "clean")
              \/ /\ At(p, "append") /\ tail = "open" /\ tail' = "torn"
                 /\ Len(journal) > 0 /\ Len(journal') = Len(journal) - 1
              \/ /\ At(p, "append") /\ tail # "open" /\ tail' = "open"
                 /\ Len(journal') = Len(journal) + 1
                 /\ journal'[Len(journal) + 1] = req[p]
<1> USE DEF IInv, TypeOK
<1>1. At(p, "append") => req[p] \in Event /\ req[p] # NoFile
  BY DEF LockInv, At
<1>2. Len(journal) \in Nat
  BY LenFacts
<1>3. synced' = IF synced > Len(journal') THEN Len(journal') ELSE synced
  BY DEF Kill
<1>4. CASE ~At(p, "append")
  BY <1>3, <1>4 DEF Kill
<1>5. CASE At(p, "append")
  <2> PICK file \in CutShort(req[p]) : Leaves(file)
    BY <1>5 DEF Kill
  <2>1. journal \in Seq(Event) /\ tail \in Tails
    OBVIOUS
  <2>2. CASE /\ file.lines = journal
             /\ file.end = IF tail = "absent" THEN "clean" ELSE tail
    BY <1>1, <1>3, <1>5, <2>1, <2>2 DEF Leaves, Tails
  <2>3. CASE file.lines = journal /\ file.end = "torn" /\ tail # "open"
    BY <1>1, <1>3, <1>5, <2>1, <2>3 DEF Leaves
  <2>4. CASE file.lines = Front(journal) /\ file.end = "torn" /\ tail = "open"
    <3>1. Len(journal) > 0
      BY <2>4 DEF TailInv
    <3> QED
      BY <1>1, <1>3, <1>5, <2>1, <2>4, <3>1, FrontFacts DEF Leaves
  <2>5. CASE /\ file.lines = Append(journal, req[p])
             /\ file.end = "open" /\ tail # "open"
    BY <1>1, <1>2, <1>3, <1>5, <2>1, <2>5, AppendFacts DEF Leaves
  <2> QED
    BY <2>2, <2>3, <2>4, <2>5, CutFacts
<1> QED
  BY <1>4, <1>5

(* What a power loss leaves: every synced line, and perhaps some of the rest. *)
LEMMA Powered ==
    ASSUME IInv, LosePower
    PROVE  /\ journal' \in Seq(Event)
           /\ Len(journal') \in synced..Len(journal)
           /\ synced' = Len(journal')
           /\ \/ journal' = journal /\ tail' = tail
              \/ tail' \in {"clean", "torn"}
              \/ tail' = "open" /\ Len(journal') > synced
<1> USE DEF IInv, TypeOK
<1>1. Len(journal) \in Nat
  BY LenFacts
<1>2. CASE journal' = journal /\ tail' = tail
  BY <1>1, <1>2 DEF LosePower
<1>3. ASSUME NEW n \in synced..(Len(journal) - 1),
             \/ journal' = SubSeq(journal, 1, n)
                /\ tail' \in {"clean"} \cup (Cuts \cap {"torn"})
             \/ journal' = SubSeq(journal, 1, n + 1)
                /\ tail' \in Cuts \cap {"open"}
      PROVE  /\ journal' \in Seq(Event)
             /\ Len(journal') \in synced..Len(journal)
             /\ \/ tail' \in {"clean", "torn"}
                \/ tail' = "open" /\ Len(journal') > synced
  <2>1. n \in 0..Len(journal) /\ n + 1 \in 0..Len(journal)
    BY <1>1
  <2>2. CASE /\ journal' = SubSeq(journal, 1, n)
             /\ tail' \in {"clean"} \cup (Cuts \cap {"torn"})
    BY <1>1, <2>1, <2>2, PrefixFacts
  <2>3. CASE /\ journal' = SubSeq(journal, 1, n + 1)
             /\ tail' \in Cuts \cap {"open"}
    BY <1>1, <2>1, <2>3, PrefixFacts
  <2> QED
    BY <1>3, <2>2, <2>3
<1> QED
  BY <1>2, <1>3 DEF LosePower

(* What an outsider leaves who takes a line. *)
LEMMA LineLost ==
    ASSUME IInv, LoseLine
    PROVE  /\ journal' \in Seq(Event)
           /\ Len(journal') = Len(journal) - 1 /\ Len(journal') > 0
           /\ tail = "clean" /\ tail' = "clean"
           /\ synced' = IF synced > Len(journal') THEN Len(journal') ELSE synced
<1>1. journal \in Seq(Event) /\ Len(journal) \in Nat /\ Len(journal) > 1
  BY LenFacts DEF IInv, TypeOK, LoseLine
<1> QED
  BY <1>1, FrontFacts DEF LoseLine

(* One more fault. *)
LEMMA FaultsFacts ==
    ASSUME faults \in [kills : Nat, power : Nat, outside : Nat]
    PROVE  /\ [faults EXCEPT !.kills = @ + 1]
                  \in [kills : Nat, power : Nat, outside : Nat]
           /\ [faults EXCEPT !.power = @ + 1]
                  \in [kills : Nat, power : Nat, outside : Nat]
           /\ [faults EXCEPT !.outside = @ + 1]
                  \in [kills : Nat, power : Nat, outside : Nat]
  OBVIOUS

(* The file, the sidecar and the cache keep their types. *)
LEMMA DiskType ==
    ASSUME IInv, Next
    PROVE  /\ journal' \in Seq(Event) /\ tail' \in Tails
           /\ synced' \in 0..Len(journal')
           /\ head' \in Sidecar \cup {NoFile}
           /\ tmp' \in Nat \cup {NoFile} /\ cache' \in Nat \cup {NoFile}
<1> USE LenFacts DEF IInv, TypeOK, Tails
<1>1. CASE \E p \in Procs : BeginCreate(p)
  BY <1>1 DEF BeginCreate, caching
<1>2. CASE \E p \in Procs : Open(p)
  BY <1>2, HeadFacts DEF Open, caching
<1>3. CASE \E p \in Procs : BeginMutation(p)
  BY <1>3 DEF BeginMutation, disk, caching
<1>4. CASE \E p \in Procs : AppendLine(p)
  BY <1>4, Appends DEF AppendLine, caching
<1>5. CASE \E p \in Procs : SyncFails(p) \/ Sync(p)
  BY <1>5 DEF SyncFails, Sync, caching
<1>6. CASE \E p \in Procs : WriteCommittedHead(p)
  BY <1>6, HeadFacts DEF WriteCommittedHead, caching
<1>7. CASE \E p \in Procs : WriteTmp(p)
  BY <1>7, HeadFacts DEF WriteTmp, disk
<1>8. CASE \E p \in Procs : ReplaceCache(p) \/ ReplaceFails(p)
  BY <1>8 DEF ReplaceCache, ReplaceFails, disk, caching
<1>9. CASE \E p \in Procs : Kill(p)
  <2> PICK p \in Procs : Kill(p)
    BY <1>9
  <2>1. Len(journal) \in Nat /\ Len(journal') \in Nat
    BY Killed
  <2>2. tail' \in Tails
    BY Killed
  <2>3. synced' \in 0..Len(journal')
    <3>1. synced' = IF synced > Len(journal') THEN Len(journal') ELSE synced
      BY Killed
    <3> QED
      BY <2>1, <3>1
  <2>4. journal' \in Seq(Event)
    BY Killed
  <2> QED
    BY <2>2, <2>3, <2>4 DEF Kill, caching
<1>10. CASE LosePower
  BY <1>10, Powered DEF LosePower, caching
<1>11. CASE LoseLine
  BY <1>11, LineLost DEF LoseLine, caching
<1>12. CASE LoseHead
  BY <1>12 DEF LoseHead, caching
<1> QED
  BY <1>1, <1>2, <1>3, <1>4, <1>5, <1>6, <1>7, <1>8, <1>9, <1>10, <1>11, <1>12
     DEF Next, Step, InCall

(* The processes and what they remember keep their types. *)
LEMMA LocalType ==
    ASSUME IInv, Next
    PROVE  /\ lock' \in Procs \cup {NoProc}
           /\ pc' \in [Procs -> Points]
           /\ view' \in [Procs -> Seq(Event)]
           /\ opened' \subseteq Procs
           /\ req' \in [Procs -> Event \cup {NoFile}]
<1> USE DEF IInv, TypeOK, Points, Goto
<1>1. CASE \E p \in Procs : BeginCreate(p)
  <2> PICK p \in Procs : BeginCreate(p)
    BY <1>1
  <2>1. opened' = opened
    BY DEF BeginCreate
  <2>2. "append" \in Points
    OBVIOUS
  <2> QED
    BY <2>1, <2>2, Requested
<1>2. CASE \E p \in Procs : Open(p)
  BY <1>2 DEF Open
<1>3. CASE \E p \in Procs : BeginMutation(p)
  <2> PICK p \in Procs : BeginMutation(p)
    BY <1>3
  <2>1. opened' = opened
    BY DEF BeginMutation
  <2>2. "append" \in Points
    OBVIOUS
  <2> QED
    BY <2>1, <2>2, Requested
<1>4. CASE \E p \in Procs : AppendLine(p) \/ WriteCommittedHead(p)
  BY <1>4 DEF AppendLine, WriteCommittedHead
<1>5. CASE \E p \in Procs : SyncFails(p) \/ ReplaceFails(p)
  BY <1>5 DEF SyncFails, ReplaceFails, Raise
<1>6. CASE \E p \in Procs : WriteTmp(p) \/ ReplaceCache(p)
  BY <1>6 DEF WriteTmp, ReplaceCache
<1>7. CASE (\E p \in Procs : Kill(p)) \/ LosePower
  <2>1. <<>> \in Seq(Event)
    BY EmptySeq
  <2>2. ASSUME NEW procs \in SUBSET Procs, Forget(procs)
        PROVE  /\ pc' \in [Procs -> Points]
               /\ view' \in [Procs -> Seq(Event)]
               /\ req' \in [Procs -> Event \cup {NoFile}]
               /\ opened' \subseteq Procs
               /\ lock' \in Procs \cup {NoProc}
    BY <2>1, <2>2 DEF Forget
  <2> QED
    BY <1>7, <2>2 DEF Kill, LosePower
<1>8. CASE LoseLine \/ LoseHead
  BY <1>8 DEF LoseLine, LoseHead, local
<1>9. CASE \E p \in Procs : Sync(p)
  BY <1>9 DEF Sync
<1> QED
  BY <1>1, <1>2, <1>3, <1>4, <1>5, <1>6, <1>7, <1>8, <1>9 DEF Next, Step, InCall

(* The ids and the faults keep their types. *)
LEMMA CountType ==
    ASSUME IInv, Next
    PROVE  /\ minted' \in Nat
           /\ acked' \subseteq 1..minted'
           /\ faults' \in [kills : Nat, power : Nat, outside : Nat]
<1> USE DEF IInv, TypeOK
<1>1. CASE \E p \in Procs : BeginCreate(p) \/ BeginMutation(p)
  <2>1. acked' = acked /\ faults' = faults
    BY <1>1 DEF BeginCreate, BeginMutation
  <2>2. minted' = minted + 1
    BY <1>1, Requested
  <2> QED
    BY <2>1, <2>2
<1>2. CASE \E p \in Procs : Open(p)
  BY <1>2 DEF Open
<1>3. CASE \E p \in Procs : \/ AppendLine(p) \/ Sync(p)
                            \/ WriteCommittedHead(p) \/ WriteTmp(p)
  BY <1>3 DEF AppendLine, Sync, WriteCommittedHead, WriteTmp
<1>4. CASE \E p \in Procs : SyncFails(p) \/ ReplaceFails(p)
  BY <1>4 DEF SyncFails, ReplaceFails, Raise
<1>5. CASE \E p \in Procs : ReplaceCache(p)
  BY <1>5 DEF ReplaceCache, IdInv
<1>6. CASE \E p \in Procs : Kill(p)
  BY <1>6, FaultsFacts DEF Kill
<1>7. CASE LosePower
  BY <1>7, FaultsFacts DEF LosePower
<1>8. CASE LoseLine \/ LoseHead
  BY <1>8, FaultsFacts DEF LoseLine, LoseHead
<1> QED
  BY <1>1, <1>2, <1>3, <1>4, <1>5, <1>6, <1>7, <1>8 DEF Next, Step, InCall

(* Every step keeps every variable in its type. *)
LEMMA TypeStep ==
    ASSUME IInv, Next
    PROVE  TypeOK'
  BY DiskType, LocalType, CountType DEF TypeOK

(* Only the owner of the lock is appending. *)
LEMMA Alone ==
    ASSUME IInv, NEW p \in Procs, NEW q \in Procs, req[q] # NoFile,
           lock = NoProc \/ req[p] # NoFile
    PROVE  q = p
  BY SessionSentinels DEF IInv, LockInv

(* A line without its newline is neither acknowledged nor the genesis. *)
LEMMA TailStep ==
    ASSUME IInv, Next
    PROVE  TailInv'
<1> USE DEF TailInv
<1>1. Len(journal) \in Nat /\ TailInv /\ tail \in Tails /\ synced \in 0..Len(journal)
  BY LenFacts DEF IInv, TypeOK
<1>2. CASE \E p \in Procs : BeginCreate(p)
  BY <1>1, <1>2 DEF BeginCreate
<1>3. CASE \E p \in Procs : Open(p)
  BY <1>1, <1>3 DEF Open, Readable, HeadAccepts
<1>4. CASE \E p \in Procs : BeginMutation(p) \/ WriteTmp(p) \/ ReplaceFails(p)
  BY <1>1, <1>4 DEF BeginMutation, WriteTmp, ReplaceFails, Raise, disk
<1>5. CASE \E p \in Procs : SyncFails(p) \/ Sync(p)
  BY <1>1, <1>5 DEF SyncFails, Sync, Raise
<1>6. CASE \E p \in Procs : AppendLine(p)
  BY <1>6, Appends
<1>7. CASE \E p \in Procs : WriteCommittedHead(p)
  <2> PICK p \in Procs : WriteCommittedHead(p)
    BY <1>7
  <2>1. tail = "clean" /\ tail' = "clean"
    BY DEF IInv, LockInv, CallInv, WriteCommittedHead, At
  <2> QED
    BY <2>1
<1>8. CASE \E p \in Procs : ReplaceCache(p)
  <2> PICK p \in Procs : ReplaceCache(p)
    BY <1>8
  <2>1. req[p] # NoFile => tail = "clean"
    BY DEF IInv, CallInv, ReplaceCache, At
  <2>2. UNCHANGED <<journal, tail, head>>
    BY DEF ReplaceCache, disk
  <2>3. req[p] = NoFile => acked' = acked
    BY DEF ReplaceCache
  <2> QED
    BY <1>1, <2>1, <2>2, <2>3
<1>9. CASE \E p \in Procs : Kill(p)
  <2> PICK p \in Procs : Kill(p)
    BY <1>9
  <2>1. acked' = acked /\ head' = head
    BY DEF Kill
  <2>2. CASE journal' = journal /\ tail' = tail
    BY <1>1, <2>1, <2>2
  <2>3. CASE tail' \in {"clean", "torn"}
    BY <2>3
  <2>4. CASE /\ At(p, "append") /\ tail # "open" /\ tail' = "open"
             /\ Len(journal') = Len(journal) + 1
             /\ journal'[Len(journal) + 1] = req[p]
    <3>1. req[p].id \notin acked
      BY <2>4, Killed DEF IInv, IdInv
    <3>2. head # NoFile => Len(journal) > 0
      BY <1>1 DEF IInv, SyncInv
    <3> QED
      BY <1>1, <2>1, <2>4, <3>1, <3>2
  <2> QED
    BY <2>2, <2>3, <2>4, Killed
<1>10. CASE LosePower
  <2>1. acked' = acked /\ head' = head
    BY <1>10 DEF LosePower
  <2>2. CASE journal' = journal /\ tail' = tail
    BY <1>1, <2>1, <2>2
  <2>3. CASE tail' \in {"clean", "torn"}
    BY <2>3
  <2>4. CASE tail' = "open" /\ Len(journal') > synced
    <3>1. Len(journal') \in 1..Len(journal)
      BY <1>1, <1>10, <2>4, Powered
    <3>2. journal'[Len(journal')] = journal[Len(journal')]
      BY <1>10, <3>1, FileStep
    <3>3. journal[Len(journal')].id \notin acked
      BY <2>4, <3>1 DEF IInv, SyncInv
    <3>4. head # NoFile => Len(journal') > 1
      BY <1>1, <2>4, <3>1 DEF IInv, SyncInv
    <3> QED
      BY <2>1, <2>4, <3>1, <3>2, <3>3, <3>4
  <2> QED
    BY <1>10, <2>2, <2>3, <2>4, Powered
<1>11. CASE LoseLine
  BY <1>11, LineLost
<1>12. CASE LoseHead
  BY <1>1, <1>12 DEF LoseHead
<1> QED
  BY <1>2, <1>3, <1>4, <1>5, <1>6, <1>7, <1>8, <1>9, <1>10, <1>11, <1>12
     DEF Next, Step, InCall

(* Ids stay fresh. *)
LEMMA IdStep ==
    ASSUME IInv, Next
    PROVE  IdInv'
<1>1. /\ IdInv /\ TypeOK /\ Len(journal) \in Nat /\ minted \in Nat
      /\ Len(journal') \in Nat /\ minted' \in Nat /\ minted' >= minted
  <2>1. Len(journal') \in Nat /\ minted' \in Nat
    BY FileStep, LenFacts, CountType
  <2>2. minted' = minted \/ \E p \in Procs : BeginCreate(p) \/ BeginMutation(p)
    BY DEF Next, Step, InCall, Open, AppendLine, SyncFails, Sync,
           WriteCommittedHead, WriteTmp, ReplaceCache, ReplaceFails, Kill,
           LosePower, LoseLine, LoseHead
  <2> QED
    BY <2>1, <2>2, Requested, LenFacts DEF IInv, TypeOK
<1>2. \A i \in 1..Len(journal') : journal'[i].id \in 1..minted'
  <2> SUFFICES ASSUME NEW i \in 1..Len(journal')
               PROVE  journal'[i].id \in 1..minted'
    OBVIOUS
  <2>1. CASE i <= Len(journal)
    BY <1>1, <2>1, FileStep DEF IdInv
  <2>2. CASE i > Len(journal)
    <3>1. PICK p \in Procs : /\ At(p, "append")
                             /\ i = Len(journal) + 1 /\ journal'[i] = req[p]
      BY <1>1, <2>2, FileStep
    <3>2. req[p] # NoFile
      BY <3>1 DEF IInv, LockInv, At
    <3> QED
      BY <1>1, <3>1, <3>2 DEF IdInv
  <2> QED
    BY <1>1, <2>1, <2>2
<1>3. ASSUME NEW q \in Procs, req'[q] # NoFile
      PROVE  /\ req'[q].id \in 1..minted' /\ req'[q].id \notin acked'
             /\ pc'[q] = "append" =>
                   \A i \in 1..Len(journal') : journal'[i].id # req'[q].id
  <2>1. CASE \E p \in Procs : BeginCreate(p) \/ BeginMutation(p)
    <3> PICK p \in Procs : BeginCreate(p) \/ BeginMutation(p)
      BY <2>1
    <3>1. q = p
      <4>1. req[q] = NoFile
        BY Requested, SessionSentinels DEF IInv, LockInv
      <4> QED
        BY <1>1, <1>3, <4>1, Requested DEF TypeOK
    <3>2. req'[q].id = minted + 1 /\ minted' = minted + 1
      BY <3>1, Requested
    <3>3. acked' = acked /\ journal' = journal
      BY DEF BeginCreate, BeginMutation, disk
    <3> QED
      BY <1>1, <3>2, <3>3 DEF TypeOK, IdInv
  <2>2. CASE \E p \in Procs : Open(p) \/ WriteTmp(p)
    BY <1>1, <1>3, <2>2 DEF Open, WriteTmp, TypeOK, IdInv, Goto, disk
  <2>3. CASE \E p \in Procs : AppendLine(p) \/ Sync(p) \/ WriteCommittedHead(p)
    <3> PICK p \in Procs : AppendLine(p) \/ Sync(p) \/ WriteCommittedHead(p)
      BY <2>3
    <3>1. req' = req /\ acked' = acked
      BY DEF AppendLine, Sync, WriteCommittedHead
    <3>2. req[p] # NoFile
      BY DEF AppendLine, Sync, WriteCommittedHead, IInv, LockInv, At
    <3>3. q = p /\ pc'[q] # "append"
      BY <1>1, <1>3, <3>1, <3>2, Alone
         DEF AppendLine, Sync, WriteCommittedHead, TypeOK, Goto
    <3> QED
      BY <1>1, <1>3, <3>1, <3>3 DEF IdInv
  <2>4. CASE \E p \in Procs : SyncFails(p) \/ ReplaceCache(p) \/ ReplaceFails(p)
    <3> PICK p \in Procs : SyncFails(p) \/ ReplaceCache(p) \/ ReplaceFails(p)
      BY <2>4
    <3>1. /\ req' = [req EXCEPT ![p] = NoFile] /\ pc' = [pc EXCEPT ![p] = "idle"]
          /\ journal' = journal
          /\ acked' = acked \/ req[p] # NoFile
      BY DEF SyncFails, ReplaceCache, ReplaceFails, Raise, Goto, disk
    <3>2. q # p /\ req'[q] = req[q] /\ pc'[q] = pc[q] /\ acked' = acked
      BY <1>1, <1>3, <3>1, Alone DEF TypeOK
    <3> QED
      BY <1>1, <1>3, <3>1, <3>2 DEF IdInv
  <2>5. CASE \E p \in Procs : Kill(p)
    <3> PICK p \in Procs : Kill(p)
      BY <2>5
    <3>1. q # p /\ req'[q] = req[q] /\ pc'[q] = pc[q] /\ acked' = acked
      BY <1>3 DEF Kill, Forget
    <3>2. journal' = journal
      BY <1>3, <3>1, Killed, Alone DEF Kill
    <3> QED
      BY <1>1, <1>3, <3>1, <3>2 DEF IdInv
  <2>6. CASE LosePower
    BY <1>3, <2>6 DEF LosePower, Forget
  <2>7. CASE LoseLine \/ LoseHead
    BY <1>3, <2>7, SessionSentinels DEF LoseLine, LoseHead, local, IInv, LockInv
  <2> QED
    BY <2>1, <2>2, <2>3, <2>4, <2>5, <2>6, <2>7 DEF Next, Step, InCall
<1> QED
  BY <1>2, <1>3 DEF IdInv

(* While it is appending, the acknowledged events are elsewhere than on the last
   line when that has no newline, so a line before it is there. *)
LEMMA OpenTailShorter ==
    ASSUME IInv, NEW p \in Procs, At(p, "append"), tail = "open",
           acked # {} \/ head # NoFile
    PROVE  Len(journal) > 1
<1>1. Len(journal) \in Nat
  BY LenFacts DEF IInv, TypeOK
<1>2. CASE head # NoFile
  BY <1>2 DEF IInv, TailInv
<1>3. CASE acked # {}
  <2>1. PICK a \in acked : \E i \in 1..Len(journal) : journal[i].id = a
    BY <1>3 DEF IInv, LockInv, CallInv, AckedIn, At
  <2> QED
    BY <1>1, <2>1 DEF IInv, TailInv
<1> QED
  BY <1>2, <1>3

(* What was acknowledged stays synced. *)
LEMMA SyncStep ==
    ASSUME IInv, Next
    PROVE  SyncInv'
<1> USE DEF SyncInv
<1>1. /\ Len(journal) \in Nat /\ SyncInv /\ synced \in 0..Len(journal)
      /\ Len(journal') \in Nat
  BY FileStep, LenFacts DEF IInv, TypeOK
<1>2. CASE \E p \in Procs : \/ BeginCreate(p) \/ BeginMutation(p) \/ WriteTmp(p)
                            \/ ReplaceFails(p)
  BY <1>1, <1>2 DEF BeginCreate, BeginMutation, WriteTmp, ReplaceFails, Raise, disk
<1>3. CASE \E p \in Procs : Open(p)
  BY <1>1, <1>3 DEF Open, Readable, HeadAccepts
<1>4. CASE \E p \in Procs : SyncFails(p) \/ Sync(p)
  BY <1>1, <1>4 DEF SyncFails, Sync, Raise
<1>5. CASE \E p \in Procs : AppendLine(p)
  <2> PICK p \in Procs : AppendLine(p)
    BY <1>5
  <2>1. acked' = acked /\ head' = head /\ At(p, "append")
    BY DEF AppendLine
  <2>2. CASE /\ tail # "open" /\ synced' = synced
             /\ Len(journal') = Len(journal) + 1
             /\ journal'[Len(journal) + 1] = req[p]
    <3>1. req[p].id \notin acked
      BY Appends DEF IInv, IdInv
    <3> QED
      BY <1>1, <2>1, <2>2, <3>1, FileStep
  <2>3. CASE /\ tail = "open" /\ Len(journal) > 0
             /\ Len(journal') = Len(journal) - 1
             /\ synced' = IF synced = Len(journal) THEN synced - 1 ELSE synced
    <3>1. acked # {} \/ head # NoFile => Len(journal) > 1
      BY <2>1, <2>3, OpenTailShorter
    <3>2. acked' # {} \/ head' # NoFile => synced' > 0
      BY <1>1, <2>1, <2>3, <3>1
    <3>3. \A i \in 1..Len(journal') : i > synced' => i > synced
      BY <1>1, <2>3
    <3> QED
      BY <1>1, <2>1, <2>3, <3>2, <3>3, FileStep
  <2> QED
    BY <2>2, <2>3, Appends
<1>6. CASE \E p \in Procs : WriteCommittedHead(p)
  <2> PICK p \in Procs : WriteCommittedHead(p)
    BY <1>6
  <2>1. synced = Len(journal) /\ Len(journal) > 0
    BY DEF WriteCommittedHead, IInv, LockInv, CallInv, At
  <2>2. UNCHANGED <<journal, synced, acked>>
    BY DEF WriteCommittedHead
  <2> QED
    BY <1>1, <2>1, <2>2
<1>7. CASE \E p \in Procs : ReplaceCache(p)
  <2> PICK p \in Procs : ReplaceCache(p)
    BY <1>7
  <2>1. req[p] # NoFile => synced = Len(journal) /\ Len(journal) > 0
    BY DEF ReplaceCache, IInv, CallInv, At
  <2>2. UNCHANGED <<journal, synced, head>>
    BY DEF ReplaceCache, disk
  <2>3. req[p] = NoFile => acked' = acked
    BY DEF ReplaceCache
  <2> QED
    BY <1>1, <2>1, <2>2, <2>3
<1>8. CASE \E p \in Procs : Kill(p)
  <2> PICK p \in Procs : Kill(p)
    BY <1>8
  <2>1. /\ acked' = acked /\ head' = head
        /\ synced' = IF synced > Len(journal') THEN Len(journal') ELSE synced
    BY Killed DEF Kill
  <2>2. CASE journal' = journal
    BY <1>1, <2>1, <2>2
  <2>3. CASE /\ At(p, "append") /\ tail = "open" /\ Len(journal) > 0
             /\ Len(journal') = Len(journal) - 1
    <3>1. acked # {} \/ head # NoFile => Len(journal) > 1
      BY <2>3, OpenTailShorter
    <3>2. acked' # {} \/ head' # NoFile => synced' > 0
      BY <1>1, <2>1, <2>3, <3>1
    <3>3. \A i \in 1..Len(journal') : i > synced' => i > synced
      BY <1>1, <2>1
    <3> QED
      BY <1>1, <2>1, <2>3, <3>2, <3>3, FileStep
  <2>4. CASE /\ At(p, "append") /\ Len(journal') = Len(journal) + 1
             /\ journal'[Len(journal) + 1] = req[p]
    <3>1. req[p].id \notin acked
      BY <2>4, Killed DEF IInv, IdInv
    <3> QED
      BY <1>1, <2>1, <2>4, <3>1, FileStep
  <2> QED
    BY <2>2, <2>3, <2>4, Killed
<1>9. CASE LosePower
  <2>1. /\ acked' = acked /\ head' = head
        /\ synced' = Len(journal') /\ synced' >= synced
    BY <1>1, <1>9, Powered DEF LosePower
  <2> QED
    BY <1>1, <2>1
<1>10. CASE LoseLine
  <2>1. /\ acked' = acked /\ head' = head
        /\ Len(journal') = Len(journal) - 1 /\ Len(journal') > 0
        /\ synced' = IF synced > Len(journal') THEN Len(journal') ELSE synced
    BY <1>10, LineLost DEF LoseLine, local
  <2>2. \A i \in 1..Len(journal') : i > synced' => i > synced
    BY <1>1, <2>1
  <2> QED
    BY <1>1, <2>1, <2>2, FileStep
<1>11. CASE LoseHead
  BY <1>1, <1>11 DEF LoseHead
<1> QED
  BY <1>2, <1>3, <1>4, <1>5, <1>6, <1>7, <1>8, <1>9, <1>10, <1>11
     DEF Next, Step, InCall

(* A journal that a load accepts holds every acknowledged event. *)
LEMMA AcceptedHolds ==
    ASSUME IInv, HeadAccepts(journal)
    PROVE  /\ AckedIn(Len(journal))
           /\ head # NoFile => head.count <= Len(journal)
<1>1. Len(journal) \in Nat /\ synced \in 0..Len(journal)
  BY LenFacts DEF IInv, TypeOK
<1>2. CASE journal = <<>>
  <2>1. Len(journal) = 0
    BY <1>2, LenFacts DEF IInv, TypeOK
  <2> QED
    BY <1>1, <2>1 DEF IInv, SyncInv, AckedIn
<1>3. CASE journal # <<>>
  <2>1. head # NoFile /\ head.count <= Len(journal) /\ head.count \in Nat
    BY <1>1, <1>3 DEF HeadAccepts, IInv, TypeOK, Sidecar
  <2>2. AckedIn(head.count)
    BY <2>1 DEF IInv, CoverInv
  <2>3. \A i \in 1..head.count : i \in 1..Len(journal)
    BY <1>1, <2>1
  <2> QED
    BY <2>1, <2>2, <2>3 DEF AckedIn
<1> QED
  BY <1>2, <1>3

(* The events that the sidecar counts include the acknowledged ones. *)
LEMMA CoverStep ==
    ASSUME IInv, Next
    PROVE  CoverInv'
<1> SUFFICES ASSUME head' # NoFile, head'.count <= Len(journal')
             PROVE  \A a \in acked' :
                       \E i \in 1..head'.count : journal'[i].id = a
  BY DEF CoverInv, AckedIn
<1>1. /\ Len(journal) \in Nat /\ Len(journal') \in Nat
      /\ head \in Sidecar \cup {NoFile} /\ head'.count \in Nat
  BY FileStep, LenFacts, DiskType DEF IInv, TypeOK, Sidecar
<1>2. CASE head' = head /\ acked' = acked
  <2>1. head.count <= Len(journal)
    <3>1. CASE Len(journal') <= Len(journal)
      BY <1>1, <1>2, <3>1
    <3>2. CASE \E p \in Procs : At(p, "append")
      <4> PICK p \in Procs : At(p, "append")
        BY <3>2
      <4> QED
        BY <1>2 DEF IInv, LockInv, CallInv, At
    <3> QED
      BY <3>1, <3>2, FileStep
  <2>2. AckedIn(head.count)
    BY <1>2, <2>1 DEF IInv, CoverInv
  <2>3. \A i \in 1..head.count : journal'[i] = journal[i]
    <3>1. \A i \in 1..head.count : i \in 1..Len(journal') /\ i <= Len(journal)
      BY <1>1, <1>2, <2>1
    <3> QED
      BY <3>1, FileStep
  <2> QED
    BY <1>2, <2>2, <2>3 DEF AckedIn
<1>3. CASE \E p \in Procs : BeginCreate(p)
  BY <1>3 DEF BeginCreate
<1>4. CASE \E p \in Procs : Open(p)
  <2>1. AckedIn(Len(journal))
    BY <1>4, AcceptedHolds DEF Open, Readable
  <2>2. head'.count = Len(journal)
    BY <1>4, HeadFacts DEF Open, IInv, TypeOK
  <2>3. journal' = journal /\ acked' = acked
    BY <1>4 DEF Open
  <2> QED
    BY <2>1, <2>2, <2>3 DEF AckedIn
<1>5. CASE \E p \in Procs : WriteCommittedHead(p)
  <2> PICK p \in Procs : WriteCommittedHead(p)
    BY <1>5
  <2>1. AckedIn(Len(journal)) /\ Len(view[p]) = Len(journal)
    BY DEF WriteCommittedHead, IInv, LockInv, CallInv, At
  <2>2. head'.count = Len(journal) /\ journal' = journal /\ acked' = acked
    BY <2>1, HeadFacts DEF WriteCommittedHead, IInv, TypeOK
  <2> QED
    BY <2>1, <2>2 DEF AckedIn
<1>6. CASE \E p \in Procs : ReplaceCache(p) /\ req[p] # NoFile
  <2> PICK p \in Procs : ReplaceCache(p) /\ req[p] # NoFile
    BY <1>6
  <2>1. /\ AckedIn(Len(journal)) /\ head.count = Len(journal)
        /\ Len(journal) > 0 /\ journal[Len(journal)].id = req[p].id
    BY DEF ReplaceCache, IInv, CallInv, At
  <2>2. /\ UNCHANGED <<journal, head>> /\ acked' = acked \cup {req[p].id}
    BY DEF ReplaceCache, disk
  <2> QED
    BY <1>1, <2>1, <2>2 DEF AckedIn
<1>7. CASE \E p \in Procs : ReplaceCache(p) /\ req[p] = NoFile
  BY <1>2, <1>7 DEF ReplaceCache, disk
<1>8. CASE LoseHead
  BY <1>8 DEF LoseHead
<1>9. CASE \E p \in Procs : \/ BeginMutation(p) \/ AppendLine(p) \/ SyncFails(p)
                            \/ Sync(p) \/ WriteTmp(p) \/ ReplaceFails(p) \/ Kill(p)
  BY <1>2, <1>9 DEF BeginMutation, AppendLine, SyncFails, Sync, WriteTmp,
                    ReplaceFails, Kill, Raise, disk
<1>10. CASE LosePower \/ LoseLine
  BY <1>2, <1>10 DEF LosePower, LoseLine
<1> QED
  BY <1>3, <1>4, <1>5, <1>6, <1>7, <1>8, <1>9, <1>10 DEF Next, Step, InCall

(* What the owner of the lock knows stays true through its call: nobody else
   writes the file, and a sidecar is published from what it has synced. *)
LEMMA CallStep ==
    ASSUME IInv, Next
    PROVE  CallInv'
<1> USE DEF AckedIn
<1>1. /\ Len(journal) \in Nat /\ Len(journal') \in Nat /\ CallInv
      /\ synced \in 0..Len(journal) /\ tail \in Tails
      /\ pc \in [Procs -> Points] /\ req \in [Procs -> Event \cup {NoFile}]
      /\ view \in [Procs -> Seq(Event)]
  BY FileStep, LenFacts DEF IInv, TypeOK
<1>2. CASE \E p \in Procs : BeginCreate(p)
  <2> PICK p \in Procs : BeginCreate(p)
    BY <1>2
  <2>1. \A q \in Procs : req'[q] # NoFile => q = p
    BY <1>1, Requested, SessionSentinels DEF IInv, LockInv
  <2>2. Len(journal) = 0
    BY LenFacts DEF BeginCreate, IInv, TypeOK, TailInv
  <2>3. acked = {}
    BY <1>1, <2>2 DEF IInv, SyncInv
  <2>4. pc'[p] = "append" /\ head' = NoFile /\ acked' = acked
    BY <1>1, Requested DEF BeginCreate
  <2> QED
    BY <2>1, <2>3, <2>4 DEF CallInv
<1>3. CASE \E p \in Procs : BeginMutation(p)
  <2> PICK p \in Procs : BeginMutation(p)
    BY <1>3
  <2>1. \A q \in Procs : req'[q] # NoFile => q = p
    BY <1>1, Requested, SessionSentinels DEF IInv, LockInv
  <2>2. AckedIn(Len(journal)) /\ (head # NoFile => head.count <= Len(journal))
    BY AcceptedHolds DEF BeginMutation, Readable
  <2>3. pc'[p] = "append" /\ UNCHANGED <<journal, head, acked>>
    BY <1>1, Requested DEF BeginMutation, disk
  <2> QED
    BY <2>1, <2>2, <2>3 DEF CallInv
<1>4. CASE \E p \in Procs : Open(p)
  BY <1>1, <1>4, SessionSentinels DEF Open, IInv, LockInv, CallInv
<1>5. CASE \E p \in Procs : AppendLine(p)
  <2> PICK p \in Procs : AppendLine(p)
    BY <1>5
  <2>1. /\ req[p] # NoFile /\ pc[p] = "append" /\ pc' = [pc EXCEPT ![p] = "sync"]
        /\ UNCHANGED <<req, acked, head>>
    BY Appends DEF AppendLine, At, Goto
  <2>2. \A q \in Procs : req'[q] # NoFile => q = p
    BY <2>1, Alone
  <2>3. tail' \in {"clean", "torn"}
    BY Appends
  <2>4. ASSUME tail' = "clean"
        PROVE  /\ \A a \in acked : \E i \in 1..Len(journal') : journal'[i].id = a
               /\ Len(journal') > 0 /\ journal'[Len(journal')].id = req[p].id
    <3>1. Len(journal') = Len(journal) + 1 /\ journal'[Len(journal) + 1] = req[p]
      BY <2>4, Appends
    <3>2. \A a \in acked : \E i \in 1..Len(journal) : journal[i].id = a
      BY <2>1 DEF IInv, CallInv
    <3>3. \A i \in 1..Len(journal) : i \in 1..Len(journal') /\ journal'[i] = journal[i]
      BY <1>1, <3>1, FileStep
    <3> QED
      BY <1>1, <3>1, <3>2, <3>3
  <2>5. pc'[p] = "sync"
    BY <1>1, <2>1
  <2> QED
    BY <2>1, <2>2, <2>3, <2>4, <2>5 DEF CallInv
<1>6. CASE \E p \in Procs : Sync(p)
  <2> PICK p \in Procs : Sync(p)
    BY <1>6
  <2>1. /\ pc[p] = "sync" /\ tail = "clean" /\ req[p] # NoFile
    BY <1>1 DEF Sync, IInv, LockInv, CallInv, At
  <2>2. /\ pc'[p] = "publish" /\ synced' = Len(journal) /\ view'[p] = journal
        /\ UNCHANGED <<journal, tail, head, req, acked>>
    BY <1>1 DEF Sync, Goto
  <2>3. \A q \in Procs : req'[q] # NoFile => q = p
    BY <2>1, <2>2, Alone
  <2> QED
    BY <1>1, <2>1, <2>2, <2>3 DEF CallInv
<1>7. CASE \E p \in Procs : WriteCommittedHead(p)
  <2> PICK p \in Procs : WriteCommittedHead(p)
    BY <1>7
  <2>1. pc[p] = "publish" /\ req[p] # NoFile
    BY DEF WriteCommittedHead, IInv, LockInv, At
  <2>2. /\ pc'[p] = "cache" /\ head'.count = Len(view[p])
        /\ UNCHANGED <<journal, tail, synced, req, acked>>
    BY <1>1, HeadFacts DEF WriteCommittedHead, Goto
  <2>3. \A q \in Procs : req'[q] # NoFile => q = p
    BY <2>1, <2>2, Alone
  <2> QED
    BY <1>1, <2>1, <2>2, <2>3 DEF CallInv
<1>8. CASE \E p \in Procs : WriteTmp(p)
  <2> PICK p \in Procs : WriteTmp(p)
    BY <1>8
  <2>1. /\ pc[p] = "cache" /\ pc' = [pc EXCEPT ![p] = "replace"]
        /\ UNCHANGED <<journal, tail, synced, head, req, acked, view>>
    BY DEF WriteTmp, At, Goto, disk
  <2> QED
    BY <1>1, <2>1 DEF CallInv
<1>9. CASE \E p \in Procs : SyncFails(p)
  <2> PICK p \in Procs : SyncFails(p)
    BY <1>9
  <2>1. req[p] # NoFile /\ req' = [req EXCEPT ![p] = NoFile]
    BY DEF SyncFails, Raise, IInv, LockInv, At
  <2>2. \A q \in Procs : req'[q] = NoFile
    BY <1>1, <2>1, Alone
  <2> QED
    BY <2>2 DEF CallInv
<1>10. CASE \E p \in Procs : ReplaceCache(p) \/ ReplaceFails(p)
  <2> PICK p \in Procs : ReplaceCache(p) \/ ReplaceFails(p)
    BY <1>10
  <2>1. /\ req' = [req EXCEPT ![p] = NoFile] /\ pc' = [pc EXCEPT ![p] = "idle"]
        /\ UNCHANGED <<journal, tail, synced, head, view>>
        /\ acked' = acked \/ req[p] # NoFile
    BY DEF ReplaceCache, ReplaceFails, Raise, Goto, disk
  <2>2. ASSUME NEW q \in Procs, req'[q] # NoFile
        PROVE  q # p /\ req'[q] = req[q] /\ pc'[q] = pc[q] /\ acked' = acked
    BY <1>1, <2>1, <2>2, Alone
  <2> QED
    BY <1>1, <2>1, <2>2 DEF CallInv
<1>11. CASE \E p \in Procs : Kill(p)
  <2> PICK p \in Procs : Kill(p)
    BY <1>11
  <2>1. ASSUME NEW q \in Procs, req'[q] # NoFile
        PROVE  /\ q # p /\ req'[q] = req[q] /\ pc'[q] = pc[q] /\ view'[q] = view[q]
               /\ UNCHANGED <<journal, tail, synced, head, acked>>
    <3>1. q # p /\ req'[q] = req[q] /\ pc'[q] = pc[q] /\ view'[q] = view[q]
      BY <2>1 DEF Kill, Forget
    <3>2. ~At(p, "append")
      BY <2>1, <3>1, Killed, Alone
    <3>3. journal' = journal /\ tail' = tail /\ synced' = synced
      BY <1>1, <3>2 DEF Kill
    <3> QED
      BY <3>1, <3>3 DEF Kill
  <2> QED
    BY <1>1, <2>1 DEF CallInv
<1>12. CASE LosePower
  BY <1>12 DEF LosePower, Forget, CallInv
<1>13. CASE LoseLine \/ LoseHead
  BY <1>13, SessionSentinels
     DEF LoseLine, LoseHead, local, IInv, LockInv, CallInv
<1> QED
  BY <1>2, <1>3, <1>4, <1>5, <1>6, <1>7, <1>8, <1>9, <1>10, <1>11, <1>12, <1>13
     DEF Next, Step, InCall

-----------------------------------------------------------------------------
(* The theorems.                                                            *)

(* The invariant holds of a session that is not there yet. *)
LEMMA InitIInv ==
    ASSUME Init
    PROVE  IInv
<1>1. journal = <<>> /\ Len(journal) = 0 /\ <<>> \in Seq(Event)
  BY EmptySeq DEF Init
<1>2. TypeOK
  BY <1>1 DEF Init, TypeOK, Tails, Points
<1>3. LockInv
  BY SessionSentinels DEF Init, LockInv
<1>4. IdInv /\ TailInv /\ CallInv /\ SyncInv /\ CoverInv
  BY <1>1 DEF Init, IdInv, TailInv, CallInv, SyncInv, CoverInv
<1> QED
  BY <1>2, <1>3, <1>4 DEF IInv

(* Every step preserves it. *)
LEMMA StepIInv ==
    ASSUME IInv, [Next]_vars
    PROVE  IInv'
<1>1. CASE Next
  BY <1>1, TypeStep, LockStep, IdStep, TailStep, CallStep, SyncStep, CoverStep
     DEF IInv
<1>2. CASE UNCHANGED vars
  BY <1>2 DEF vars, disk, caching, local, IInv, TypeOK, LockInv, IdInv, TailInv,
              CallInv, SyncInv, CoverInv, AckedIn
<1> QED
  BY <1>1, <1>2

(* The inductive invariant holds whatever the processes do, wherever they are
   killed and whatever a power loss takes: only the lock, the order of the write,
   its sync and the sidecar, and the replay before a mutation are needed. *)
THEOREM Invariance == Spec => []IInv
<1>1. Init => IInv
  BY InitIInv
<1>2. IInv /\ [Next]_vars => IInv'
  BY StepIInv
<1> QED
  BY <1>1, <1>2, PTL DEF Spec

(* Every variable of the session store keeps its type. *)
THEOREM TypeCorrect == Spec => []TypeOK
<1>1. IInv => TypeOK
  BY DEF IInv
<1> QED
  BY <1>1, Invariance, PTL

(* The lock of the session keeps the calls apart: a process that is appending,
   syncing or publishing owns it, and is the only one that does. *)
THEOREM LockCorrect == Spec => []LockInv
<1>1. IInv => LockInv
  BY DEF IInv
<1> QED
  BY <1>1, Invariance, PTL

(* A journal that a load accepts holds every event whose call returned, after
   any number of kills, power losses and lines or sidecars removed by others: the
   sidecar was published after the sync and before the call returned, and a load
   refuses a journal that is shorter than its sidecar or has lost it. *)
THEOREM AckCorrect == Spec => []AckKept
<1>1. IInv => AckKept
  <2> SUFFICES ASSUME IInv, Readable, NEW a \in acked
               PROVE  a \in Ids(journal)
    BY DEF AckKept
  <2>1. \E i \in 1..Len(journal) : journal[i].id = a
    BY AcceptedHolds DEF Readable, AckedIn
  <2> QED
    BY <2>1, IdsFact
<1> QED
  BY <1>1, Invariance, PTL

-----------------------------------------------------------------------------
(* The history.                                                             *)

\* The fields of an event that name a state agree with its type.
Fits(e) ==
    /\ e.type = "closed" => e.target = "closed"
    /\ e.type = "charter_recorded" => e.target = "initialized"

\* The journal is one that a replay accepts from its first line to its last,
\* and the line a process is about to write is one that follows.
JournalInv ==
    /\ Replayable(journal)
    /\ \A i \in 1..Len(journal) : Fits(journal[i])
    /\ \A p \in Procs : pc[p] = "append" => Fits(req[p]) /\ Replays(Replay(journal), req[p])

\* Who has a store object has read a journal; it is still there unless a line
\* without its newline swallowed the only one, and then nothing reads the file.
OpenInv ==
    /\ opened # {} => journal # <<>> \/ tail = "torn"
    /\ \A p \in Procs :
          /\ pc[p] \in {"cache", "replace"} /\ req[p] = NoFile => p \in opened
          /\ pc[p] = "publish" => view[p] = journal

\* The sidecar names the line it counts up to, as far as that is there ...
HeadInv ==
    head # NoFile =>
        /\ head.count > 0
        /\ head.count <= Len(journal) => head.last = journal[head.count].id

\* ... it counts no more than is stable while nothing was killed, unless the
\* last stable line was merged with another ...
StableInv ==
    /\ tail = "open" => "open" \in Cuts
    /\ faults.kills = 0 /\ (\A p \in Procs : pc[p] # "sync") => synced = Len(journal)
    /\ faults.kills = 0 /\ faults.outside = 0 /\ head # NoFile =>
          \/ head.count <= synced
          \/ tail = "torn" /\ synced = Len(journal) /\ "open" \in Cuts

\* ... and no more than a load finds if crashes of one kind alone took lines.
BehindInv ==
    Kept /\ head # NoFile => head.count <= Len(journal) \/ tail = "torn"

SInv == IInv /\ JournalInv /\ OpenInv /\ HeadInv /\ StableInv /\ BehindInv

-----------------------------------------------------------------------------
(* Sequences.                                                               *)

(* A sequence is its front and its last element. *)
LEMMA SplitLast ==
    ASSUME NEW S, NEW s \in Seq(S), NEW k \in 1..Len(s)
    PROVE  /\ s[k] \in S /\ SubSeq(s, 1, k - 1) \in Seq(S)
           /\ SubSeq(s, 1, k) = Append(SubSeq(s, 1, k - 1), s[k])
<1> DEFINE t == SubSeq(s, 1, k - 1)
           u == SubSeq(s, 1, k)
<1>1. Len(s) \in Nat /\ s[k] \in S
  BY LenFacts
<1>2. k - 1 \in 0..Len(s) /\ k \in 0..Len(s)
  BY <1>1
<1>3. t \in Seq(S) /\ Len(t) = k - 1 /\ \A i \in 1..(k - 1) : t[i] = s[i]
  BY <1>2, PrefixFacts
<1>4. u \in Seq(S) /\ Len(u) = k /\ \A i \in 1..k : u[i] = s[i]
  BY <1>2, PrefixFacts
<1> HIDE DEF t, u
<1>5. /\ Append(t, s[k]) \in Seq(S) /\ Len(Append(t, s[k])) = Len(t) + 1
      /\ \A i \in 1..Len(t) : Append(t, s[k])[i] = t[i]
      /\ Append(t, s[k])[Len(t) + 1] = s[k]
  BY <1>1, <1>3, AppendFacts
<1>6. \A i \in 1..k : i = k \/ i \in 1..(k - 1)
  BY <1>1
<1>7. \A i \in 1..k : Append(t, s[k])[i] = u[i]
  BY <1>2, <1>3, <1>4, <1>5, <1>6
<1>8. Len(Append(t, s[k])) = k
  BY <1>2, <1>3, <1>5
<1>9. u = Append(t, s[k])
  BY <1>4, <1>5, <1>7, <1>8, SeqEqual
<1> QED
  BY <1>1, <1>3, <1>9 DEF t, u

(* A prefix of a prefix is a prefix. *)
LEMMA PrefixPrefix ==
    ASSUME NEW S, NEW s \in Seq(S), NEW m \in 0..Len(s), NEW n \in 0..m
    PROVE  SubSeq(SubSeq(s, 1, m), 1, n) = SubSeq(s, 1, n)
<1> DEFINE t == SubSeq(s, 1, m)
<1>1. Len(s) \in Nat /\ n \in 0..Len(s)
  BY LenFacts
<1>2. t \in Seq(S) /\ Len(t) = m /\ \A i \in 1..m : t[i] = s[i]
  BY PrefixFacts
<1>3. /\ SubSeq(s, 1, n) \in Seq(S) /\ Len(SubSeq(s, 1, n)) = n
      /\ \A i \in 1..n : SubSeq(s, 1, n)[i] = s[i]
  BY <1>1, PrefixFacts
<1> HIDE DEF t
<1>4. /\ SubSeq(t, 1, n) \in Seq(S) /\ Len(SubSeq(t, 1, n)) = n
      /\ \A i \in 1..n : SubSeq(t, 1, n)[i] = t[i]
  BY <1>2, PrefixFacts
<1>5. \A i \in 1..n : SubSeq(t, 1, n)[i] = SubSeq(s, 1, n)[i]
  BY <1>1, <1>2, <1>3, <1>4
<1> QED
  BY <1>3, <1>4, <1>5, SeqEqual DEF t

(* A sequence grows by its elements. *)
LEMMA ConcatStep ==
    ASSUME NEW S, NEW s \in Seq(S), NEW t \in Seq(S), NEW e \in S
    PROVE  s \o Append(t, e) = Append(s \o t, e)
<1>1. <<e>> \in Seq(S) /\ s \o t \in Seq(S)
  BY ConcatProperties
<1>2. Append(t, e) = t \o <<e>> /\ Append(s \o t, e) = (s \o t) \o <<e>>
  BY <1>1, AppendIsConcat
<1> QED
  BY <1>1, <1>2, ConcatAssociative

-----------------------------------------------------------------------------
(* Legal journals.                                                          *)

(* Every event of the model reads back. *)
LEMMA EventLegible == Legible(Event)
  BY DEF Legible, Event

(* A session that has its genesis is in one of the states. *)
LEMMA ReplayState ==
    ASSUME NEW s \in Seq(Event), s # <<>>, Replayable(s)
    PROVE  Replay(s).state \in States
<1> DEFINE n == Len(s)
           t == SubSeq(s, 1, n - 1)
<1>1. n \in 1..Len(s) /\ SubSeq(s, 1, n) = s
  BY LenFacts, SubSeqFull
<1>2. s[n] \in Event /\ t \in Seq(Event) /\ s = Append(t, s[n])
  <2> HIDE DEF n
  <2>1. s[n] \in Event /\ t \in Seq(Event) /\ SubSeq(s, 1, n) = Append(t, s[n])
    BY <1>1, SplitLast
  <2> QED
    BY <1>1, <2>1
<1>3. Replays(Replay(t), s[n])
  BY <1>1 DEF Replayable
<1> HIDE DEF t, n
<1>4. Replay(t) \in Index /\ Replay(s) = Apply(Replay(t), s[n])
  BY <1>2, ReplayEnds, ReplayAppend, EventLegible
<1>5. /\ RegisterAll(Replay(t), s[n].records) \in Index
      /\ RegisterAll(Replay(t), s[n].records).state = Replay(t).state
  BY <1>2, <1>4, RegisterAllEnds, RegisterAllState DEF Event
<1>6. s[n].target \in States /\ s[n].type \in Types
  BY <1>2 DEF Event
<1>7. s[n].type \in {"charter_revised", "artifact_recorded"} => Replay(t).state \in States
  BY <1>3 DEF Replays
<1> QED
  BY <1>4, <1>5, <1>6, <1>7 DEF Apply, Index, Types, States

(* What a live mutation permits, a replay accepts. *)
LEMMA PermitsReplays ==
    ASSUME NEW s \in Seq(Event), s # <<>>, Replayable(s),
           NEW e \in Requests, Permits(Replay(s), e)
    PROVE  Fits(e) /\ Replays(Replay(s), e)
<1>1. Replay(s).state \in States
  BY ReplayState
<1>2. e.type \in Types \ {"charter_recorded"} /\ e.target \in States
  BY SessionRequests
<1> QED
  BY <1>1, <1>2 DEF Permits, Replays, Fits, Types

(* Replays and Fits read the type and the target of an event alone. *)
LEMMA SameKind ==
    ASSUME NEW r, NEW e, NEW f, e.type = f.type, e.target = f.target
    PROVE  /\ Replays(r, e) <=> Replays(r, f)
           /\ Fits(e) <=> Fits(f)
  BY DEF Replays, Fits

-----------------------------------------------------------------------------
(* The steps of the journal and the sidecar.                                *)

(* What happens to the faults: they are counted and stay counted. *)
LEMMA FaultsStep ==
    ASSUME IInv, Next
    PROVE  /\ faults'.kills = 0 => faults.kills = 0
           /\ faults'.power = 0 => faults.power = 0
           /\ faults'.outside = 0 => faults.outside = 0
           /\ (\E p \in Procs : Kill(p)) => faults'.kills # 0
           /\ LosePower => faults'.power # 0
           /\ LoseLine \/ LoseHead => faults'.outside # 0
<1>1. faults \in [kills : Nat, power : Nat, outside : Nat]
  BY DEF IInv, TypeOK
<1>2. (\E p \in Procs : Kill(p)) =>
          faults'.kills # 0 /\ UNCHANGED <<faults.power, faults.outside>>
  BY <1>1 DEF Kill
<1>3. LosePower => faults'.power # 0 /\ UNCHANGED <<faults.kills, faults.outside>>
  BY <1>1 DEF LosePower
<1>4. LoseLine \/ LoseHead =>
          faults'.outside # 0 /\ UNCHANGED <<faults.kills, faults.power>>
  BY <1>1 DEF LoseLine, LoseHead
<1>5. (\E p \in Procs : Step(p)) => faults' = faults
  BY DEF Step, InCall, BeginCreate, Open, BeginMutation, AppendLine, SyncFails,
         Sync, WriteCommittedHead, WriteTmp, ReplaceCache, ReplaceFails
<1>6. /\ faults'.kills = 0 => faults.kills = 0
      /\ faults'.power = 0 => faults.power = 0
      /\ faults'.outside = 0 => faults.outside = 0
  BY <1>1, <1>2, <1>3, <1>4, <1>5 DEF Next
<1> QED
  BY <1>2, <1>3, <1>4, <1>6

(* A process stands before its write because it has just begun, or it stood
   there before and nobody has touched the file since. *)
LEMMA BeforeWrite ==
    ASSUME IInv, Next, NEW p \in Procs, pc'[p] = "append"
    PROVE  \/ BeginCreate(p) \/ BeginMutation(p)
           \/ pc[p] = "append" /\ req'[p] = req[p] /\ journal' = journal
<1> USE DEF At, Goto
<1>1. /\ pc \in [Procs -> Points] /\ req \in [Procs -> Event \cup {NoFile}]
      /\ pc[p] = "append" => req[p] # NoFile /\ lock = p
  BY DEF IInv, TypeOK, LockInv
<1>2. \A q \in Procs : q # p /\ req[p] # NoFile => req[q] = NoFile
  BY Alone
<1>3. \A q \in Procs : req[q] = NoFile => pc[q] \notin {"append", "sync", "publish"}
  BY DEF IInv, LockInv
<1>4. CASE \E q \in Procs : BeginCreate(q)
  BY <1>1, <1>4, SessionSentinels DEF BeginCreate
<1>5. CASE \E q \in Procs : BeginMutation(q)
  BY <1>1, <1>5, SessionSentinels DEF BeginMutation, disk
<1>6. CASE \E q \in Procs : Open(q)
  BY <1>1, <1>6, SessionSentinels DEF Open
<1>7. CASE \E q \in Procs : \/ AppendLine(q) \/ SyncFails(q) \/ Sync(q)
                            \/ WriteCommittedHead(q)
  BY <1>1, <1>2, <1>3, <1>7 DEF AppendLine, SyncFails, Sync, WriteCommittedHead, Raise
<1>8. CASE \E q \in Procs : WriteTmp(q) \/ ReplaceCache(q) \/ ReplaceFails(q)
  BY <1>1, <1>8 DEF WriteTmp, ReplaceCache, ReplaceFails, Raise, disk
<1>9. CASE \E q \in Procs : Kill(q)
  <2> PICK q \in Procs : Kill(q)
    BY <1>9
  <2>1. q # p /\ pc'[p] = pc[p] /\ req'[p] = req[p]
    BY DEF Kill, Forget
  <2> QED
    BY <1>1, <1>2, <1>3, <2>1 DEF Kill
<1>10. CASE LosePower
  BY <1>10 DEF LosePower, Forget
<1>11. CASE LoseLine \/ LoseHead
  BY <1>1, <1>11, SessionSentinels DEF LoseLine, LoseHead, local
<1> QED
  BY <1>4, <1>5, <1>6, <1>7, <1>8, <1>9, <1>10, <1>11 DEF Next, Step, InCall

(* Whatever happens to the file, its events are a legal history, and the event
   that is written next continues it. *)
LEMMA JournalStep ==
    ASSUME SInv, Next
    PROVE  JournalInv'
<1>1. /\ IInv /\ journal \in Seq(Event) /\ Len(journal) \in Nat
      /\ journal' \in Seq(Event) /\ Len(journal') \in Nat
  BY LenFacts, FileStep DEF SInv, IInv, TypeOK
<1>2. \A p \in Procs : At(p, "append") => req[p] \in Event
  BY DEF SInv, IInv, TypeOK, LockInv, At
<1>3. Replayable(journal')
  <2>1. Replayable(journal)
    BY DEF SInv, JournalInv
  <2>2. CASE journal' = journal
    BY <2>1, <2>2
  <2>3. CASE \E n \in 0..Len(journal) : journal' = SubSeq(journal, 1, n)
    BY <1>1, <2>1, <2>3, ReplayablePrefix
  <2>4. ASSUME NEW p \in Procs, At(p, "append"), journal' = Append(journal, req[p])
        PROVE  Replayable(journal')
    <3>1. Replays(Replay(journal), req[p]) /\ req[p] \in Event
      BY <1>2, <2>4 DEF SInv, JournalInv, At
    <3> QED
      BY <1>1, <2>1, <2>4, <3>1, ReplayableAppend
  <2> QED
    BY <1>1, <2>2, <2>3, <2>4, FileChange
<1>4. ASSUME NEW i \in 1..Len(journal')  PROVE Fits(journal'[i])
  <2>1. CASE i <= Len(journal)
    <3>1. i \in 1..Len(journal) /\ journal'[i] = journal[i]
      BY <1>1, <2>1, FileStep
    <3> QED
      BY <3>1 DEF SInv, JournalInv
  <2>2. CASE i > Len(journal)
    <3>1. PICK p \in Procs : /\ At(p, "append") /\ Len(journal') = Len(journal) + 1
                             /\ journal'[Len(journal) + 1] = req[p]
      BY <1>1, <2>2, FileStep
    <3>2. journal'[i] = req[p]
      BY <1>1, <2>2, <3>1
    <3> QED
      BY <3>1, <3>2 DEF SInv, JournalInv, At
  <2> QED
    BY <1>1, <2>1, <2>2
<1>5. ASSUME NEW p \in Procs, pc'[p] = "append"
      PROVE  Fits(req'[p]) /\ Replays(Replay(journal'), req'[p])
  <2>1. CASE BeginCreate(p)
    <3>1. journal' = <<>>
      BY <1>1, <2>1 DEF BeginCreate, IInv, TailInv
    <3>2. Replay(journal') = Empty
      BY <1>1, <3>1, ReplayEnds, EventLegible
    <3>3. req'[p].type = "charter_recorded" /\ req'[p].target = "initialized"
      BY <1>1, <2>1 DEF BeginCreate, IInv, TypeOK
    <3> QED
      BY <3>2, <3>3 DEF Fits, Replays, Empty
  <2>2. CASE BeginMutation(p)
    <3> PICK e \in Requests : /\ Permits(Replay(journal), e)
                              /\ req' = [req EXCEPT ![p] =
                                    [id |-> minted + 1, type |-> e.type,
                                     target |-> e.target, records |-> e.records]]
      BY <2>2 DEF BeginMutation
    <3>1. journal' = journal /\ journal # <<>> /\ Replayable(journal)
      BY <2>2 DEF BeginMutation, Readable, disk, SInv, OpenInv
    <3>2. req'[p].type = e.type /\ req'[p].target = e.target
      BY <1>1 DEF IInv, TypeOK
    <3>3. Fits(e) /\ Replays(Replay(journal), e)
      BY <1>1, <3>1, PermitsReplays
    <3> QED
      BY <3>1, <3>2, <3>3, SameKind
  <2>3. CASE pc[p] = "append" /\ req'[p] = req[p] /\ journal' = journal
    BY <2>3 DEF SInv, JournalInv
  <2> QED
    BY <1>1, <1>5, <2>1, <2>2, <2>3, BeforeWrite
<1> QED
  BY <1>3, <1>4, <1>5 DEF JournalInv

(* The sidecar stays, is removed, or says what the whole journal is. *)
LEMMA HeadChange ==
    ASSUME SInv, Next
    PROVE  \/ head' = head
           \/ head' = NoFile
           \/ /\ head' = HeadOf(journal) /\ journal # <<>>
              /\ UNCHANGED <<journal, tail, synced, faults>>
              /\ faults.kills = 0 => synced = Len(journal)
<1>1. CASE \E p \in Procs : Open(p)
  <2>1. lock = NoProc /\ journal # <<>> /\ head' = HeadOf(journal)
        /\ UNCHANGED <<journal, tail, synced, faults>>
    BY <1>1 DEF Open
  <2>2. \A p \in Procs : pc[p] # "sync"
    BY <2>1, SessionSentinels DEF SInv, IInv, LockInv
  <2> QED
    BY <2>1, <2>2 DEF SInv, StableInv
<1>2. CASE \E p \in Procs : WriteCommittedHead(p)
  <2> PICK p \in Procs : WriteCommittedHead(p)
    BY <1>2
  <2>1. /\ view[p] = journal /\ synced = Len(journal) /\ Len(journal) > 0
    BY DEF WriteCommittedHead, At, SInv, IInv, LockInv, CallInv, OpenInv
  <2>2. journal # <<>>
    BY <2>1, LenFacts DEF SInv, IInv, TypeOK
  <2> QED
    BY <2>1, <2>2 DEF WriteCommittedHead
<1>3. CASE \E p \in Procs : BeginCreate(p)
  BY <1>3 DEF BeginCreate
<1>4. CASE \E p \in Procs : \/ BeginMutation(p) \/ AppendLine(p) \/ SyncFails(p)
                            \/ Sync(p) \/ WriteTmp(p) \/ ReplaceCache(p)
                            \/ ReplaceFails(p) \/ Kill(p)
  BY <1>4 DEF BeginMutation, AppendLine, SyncFails, Sync, WriteTmp, ReplaceCache,
              ReplaceFails, Kill, disk
<1>5. CASE LosePower \/ LoseLine \/ LoseHead
  BY <1>5 DEF LosePower, LoseLine, LoseHead
<1> QED
  BY <1>1, <1>2, <1>3, <1>4, <1>5 DEF Next, Step, InCall

(* While a process stands before its write the sidecar counts nothing that is
   not there. *)
LEMMA GrowthCovered ==
    ASSUME IInv, NEW p \in Procs, At(p, "append"), head # NoFile
    PROVE  head.count <= Len(journal)
  BY DEF IInv, LockInv, CallInv, At

(* The sidecar names the line it counts up to. *)
LEMMA HeadStep ==
    ASSUME SInv, Next
    PROVE  HeadInv'
<1>1. /\ IInv /\ Len(journal) \in Nat /\ Len(journal') \in Nat
      /\ journal \in Seq(Event) /\ head \in Sidecar \cup {NoFile}
  BY LenFacts, FileStep DEF SInv, IInv, TypeOK
<1>2. CASE head' = NoFile
  BY <1>2 DEF HeadInv
<1>3. CASE head' = head /\ head # NoFile
  <2>1. head.count > 0 /\ head.count \in Nat
    BY <1>1, <1>3 DEF SInv, HeadInv, Sidecar
  <2>2. ASSUME head.count <= Len(journal')  PROVE head.last = journal'[head.count].id
    <3>1. head.count <= Len(journal)
      BY <1>1, <1>3, <2>1, <2>2, FileStep, GrowthCovered
    <3>2. head.count \in 1..Len(journal') /\ journal'[head.count] = journal[head.count]
      BY <1>1, <2>1, <2>2, <3>1, FileStep
    <3> QED
      BY <1>3, <3>1, <3>2 DEF SInv, HeadInv
  <2> QED
    BY <1>3, <2>1, <2>2 DEF HeadInv
<1>4. CASE head' = HeadOf(journal) /\ journal # <<>> /\ journal' = journal
  <2>1. Len(journal) > 0 /\ head'.count = Len(journal)
        /\ head'.last = journal[Len(journal)].id
    BY <1>1, <1>4, LenFacts DEF HeadOf, LastId
  <2> QED
    BY <1>4, <2>1 DEF HeadInv
<1> QED
  BY <1>2, <1>3, <1>4, HeadChange

(* A store object is one of a session that has its genesis. *)
LEMMA OpenStep ==
    ASSUME SInv, Next
    PROVE  OpenInv'
<1> USE DEF At, Goto
<1>1. /\ IInv /\ Len(journal) \in Nat /\ Len(journal') \in Nat
      /\ journal \in Seq(Event) /\ journal' \in Seq(Event)
      /\ pc \in [Procs -> Points] /\ req \in [Procs -> Event \cup {NoFile}]
      /\ view \in [Procs -> Seq(Event)] /\ LockInv
  BY LenFacts, FileStep DEF SInv, IInv, TypeOK
<1>2. /\ Len(journal) = 0 <=> journal = <<>>
      /\ Len(journal') = 0 <=> journal' = <<>>
  BY <1>1, LenFacts
<1>3. opened' # {} => journal' # <<>> \/ tail' = "torn"
  <2>1. CASE \E p \in Procs : Open(p)
    BY <2>1 DEF Open
  <2>2. CASE \E p \in Procs : ReplaceCache(p)
    <3> PICK p \in Procs : ReplaceCache(p)
      BY <2>2
    <3>1. req[p] = NoFile => p \in opened
      BY DEF ReplaceCache, SInv, OpenInv
    <3>2. req[p] # NoFile => Len(journal) > 0
      BY <1>1 DEF ReplaceCache, IInv, CallInv
    <3>3. journal' = journal /\ tail' = tail
      BY DEF ReplaceCache, disk
    <3> QED
      BY <1>2, <3>1, <3>2, <3>3 DEF SInv, OpenInv
  <2>3. CASE \E p \in Procs : AppendLine(p)
    BY <1>1, <1>2, <2>3, Appends
  <2>4. CASE \E p \in Procs : Kill(p)
    <3> PICK p \in Procs : Kill(p)
      BY <2>4
    <3>1. opened' \subseteq opened
      BY DEF Kill, Forget
    <3>2. CASE journal' = journal /\ tail' = tail
      BY <3>1, <3>2 DEF SInv, OpenInv
    <3>3. CASE journal' = journal /\ tail = "absent"
      BY <1>1, <3>1, <3>3 DEF SInv, OpenInv, IInv, TailInv
    <3>4. CASE tail' = "torn" \/ Len(journal') = Len(journal) + 1
      BY <1>1, <1>2, <3>4
    <3> QED
      BY <1>1, <3>2, <3>3, <3>4, Killed
  <2>5. CASE LosePower
    BY <2>5 DEF LosePower, Forget, SInv, IInv, TypeOK
  <2>6. CASE LoseLine
    BY <1>1, <1>2, <2>6, LineLost
  <2>7. CASE \E p \in Procs : \/ BeginCreate(p) \/ BeginMutation(p) \/ SyncFails(p)
                              \/ Sync(p) \/ WriteCommittedHead(p) \/ WriteTmp(p)
                              \/ ReplaceFails(p)
    <3>1. opened' \subseteq opened /\ journal' = journal /\ tail' = tail
      BY <2>7 DEF BeginCreate, BeginMutation, SyncFails, Sync, WriteCommittedHead,
                  WriteTmp, ReplaceFails, Raise, disk
    <3> QED
      BY <3>1 DEF SInv, OpenInv
  <2>8. CASE LoseHead
    BY <2>8 DEF LoseHead, local, SInv, OpenInv
  <2> QED
    BY <2>1, <2>2, <2>3, <2>4, <2>5, <2>6, <2>7, <2>8 DEF Next, Step, InCall
<1>4. ASSUME NEW p \in Procs, pc'[p] \in {"cache", "replace"}, req'[p] = NoFile
      PROVE  p \in opened'
  <2> USE <1>1, <1>4, SessionSentinels DEF SInv, OpenInv
  <2>1. CASE \E q \in Procs : Open(q)
    BY <2>1 DEF Open
  <2>2. CASE \E q \in Procs : BeginCreate(q) \/ BeginMutation(q)
    BY <2>2 DEF BeginCreate, BeginMutation
  <2>3. CASE \E q \in Procs : AppendLine(q) \/ Sync(q) \/ WriteTmp(q)
    BY <2>3 DEF AppendLine, Sync, WriteTmp
  <2>4. CASE \E q \in Procs : WriteCommittedHead(q)
    BY <2>4 DEF WriteCommittedHead, LockInv
  <2>5. CASE \E q \in Procs : SyncFails(q) \/ ReplaceFails(q)
    BY <2>5 DEF SyncFails, ReplaceFails, Raise
  <2>6. CASE \E q \in Procs : ReplaceCache(q)
    BY <2>6 DEF ReplaceCache
  <2>7. CASE \E q \in Procs : Kill(q)
    BY <2>7 DEF Kill, Forget
  <2>8. CASE LosePower \/ LoseLine \/ LoseHead
    BY <2>8 DEF LosePower, LoseLine, LoseHead, Forget, local
  <2> QED
    BY <2>1, <2>2, <2>3, <2>4, <2>5, <2>6, <2>7, <2>8 DEF Next, Step, InCall
<1>5. ASSUME NEW p \in Procs, pc'[p] = "publish"
      PROVE  view'[p] = journal'
  <2> USE <1>1, <1>5, SessionSentinels DEF SInv, OpenInv
  <2>1. /\ pc[p] = "publish" => req[p] # NoFile /\ lock = p /\ view[p] = journal
        /\ \A q \in Procs : q # p /\ pc[p] = "publish" => pc[q] # "append"
    BY Alone DEF LockInv
  <2>2. CASE \E q \in Procs : BeginCreate(q) \/ Open(q) \/ BeginMutation(q)
    BY <2>1, <2>2 DEF BeginCreate, Open, BeginMutation, disk
  <2>3. CASE \E q \in Procs : AppendLine(q)
    BY <2>1, <2>3 DEF AppendLine
  <2>4. CASE \E q \in Procs : Sync(q)
    BY <2>1, <2>4 DEF Sync
  <2>5. CASE \E q \in Procs : \/ SyncFails(q) \/ WriteCommittedHead(q)
                              \/ WriteTmp(q) \/ ReplaceCache(q) \/ ReplaceFails(q)
    BY <2>1, <2>5 DEF SyncFails, WriteCommittedHead, WriteTmp, ReplaceCache,
                      ReplaceFails, Raise, disk
  <2>6. CASE \E q \in Procs : Kill(q)
    <3> PICK q \in Procs : Kill(q)
      BY <2>6
    <3>1. q # p /\ pc[p] = "publish" /\ view'[p] = view[p]
      BY DEF Kill, Forget
    <3>2. ~At(q, "append")
      BY <2>1, <3>1
    <3> QED
      BY <2>1, <3>1, <3>2 DEF Kill
  <2>7. CASE LosePower
    BY <2>7 DEF LosePower, Forget
  <2>8. CASE LoseLine \/ LoseHead
    BY <2>1, <2>8 DEF LoseLine, LoseHead, local
  <2> QED
    BY <2>2, <2>3, <2>4, <2>5, <2>6, <2>7, <2>8 DEF Next, Step, InCall
<1> QED
  BY <1>3, <1>4, <1>5 DEF OpenInv

(* Without a kill every line is synced before anybody else reads it. *)
LEMMA StableStep ==
    ASSUME SInv, Next
    PROVE  StableInv'
<1> USE DEF At, Goto
<1>1. /\ IInv /\ Len(journal) \in Nat /\ Len(journal') \in Nat
      /\ journal \in Seq(Event) /\ head \in Sidecar \cup {NoFile}
      /\ synced \in 0..Len(journal) /\ pc \in [Procs -> Points] /\ StableInv /\ LockInv
      /\ head # NoFile => head.count \in Nat
  BY LenFacts, FileStep DEF SInv, IInv, TypeOK, Sidecar
<1>2. tail' = "open" => "open" \in Cuts
  <2>1. CASE \E p \in Procs : AppendLine(p)
    BY <1>1, <2>1, Appends
  <2>2. CASE \E p \in Procs : Kill(p)
    BY <1>1, <2>2 DEF Kill, CutShort, Leaves, StableInv
  <2>3. CASE LosePower
    BY <1>1, <2>3 DEF LosePower, StableInv
  <2>4. CASE LoseLine \/ LoseHead
    BY <1>1, <2>4 DEF LoseLine, LoseHead, StableInv
  <2>5. CASE \E p \in Procs : \/ BeginCreate(p) \/ Open(p) \/ BeginMutation(p)
                              \/ SyncFails(p) \/ Sync(p) \/ WriteCommittedHead(p)
                              \/ WriteTmp(p) \/ ReplaceCache(p) \/ ReplaceFails(p)
    <3>1. tail' = tail
      BY <2>5 DEF BeginCreate, Open, BeginMutation, SyncFails, Sync,
                  WriteCommittedHead, WriteTmp, ReplaceCache, ReplaceFails, disk
    <3> QED
      BY <1>1, <3>1 DEF StableInv
  <2> QED
    BY <2>1, <2>2, <2>3, <2>4, <2>5 DEF Next, Step, InCall
<1>3. ASSUME faults'.kills = 0, \A p \in Procs : pc'[p] # "sync"
      PROVE  synced' = Len(journal')
  <2>1. faults.kills = 0 /\ ~(\E p \in Procs : Kill(p))
    BY <1>1, <1>3, FaultsStep
  <2>2. CASE \E p \in Procs : AppendLine(p)
    BY <1>1, <1>3, <2>2 DEF AppendLine
  <2>3. CASE \E p \in Procs : SyncFails(p) \/ Sync(p)
    BY <2>3 DEF SyncFails, Sync
  <2>4. CASE LosePower
    BY <2>4 DEF LosePower
  <2>5. CASE LoseLine
    <3>1. \A p \in Procs : pc[p] # "sync"
      BY <1>1, <2>5, SessionSentinels DEF LoseLine, LockInv
    <3> QED
      BY <1>1, <2>1, <2>5, <3>1, LineLost DEF StableInv
  <2>6. CASE \E p \in Procs : \/ BeginCreate(p) \/ Open(p) \/ BeginMutation(p)
                              \/ WriteCommittedHead(p) \/ WriteTmp(p)
                              \/ ReplaceCache(p) \/ ReplaceFails(p)
    <3>1. UNCHANGED <<journal, synced>> /\ \A p \in Procs : pc[p] # "sync"
      BY <1>1, <1>3, <2>6 DEF BeginCreate, Open, BeginMutation, WriteCommittedHead,
                  WriteTmp, ReplaceCache, ReplaceFails, Raise, disk
    <3> QED
      BY <1>1, <2>1, <3>1 DEF StableInv
  <2>7. CASE LoseHead
    BY <1>1, <1>3, <2>1, <2>7 DEF LoseHead, local, StableInv
  <2> QED
    BY <2>1, <2>2, <2>3, <2>4, <2>5, <2>6, <2>7 DEF Next, Step, InCall
<1>4. ASSUME faults'.kills = 0, faults'.outside = 0, head' # NoFile
      PROVE  \/ head'.count <= synced'
             \/ tail' = "torn" /\ synced' = Len(journal') /\ "open" \in Cuts
  <2>1. /\ faults.kills = 0 /\ faults.outside = 0 /\ ~(\E p \in Procs : Kill(p))
        /\ ~LoseLine /\ ~LoseHead
    BY <1>1, <1>4, FaultsStep
  <2>2. CASE head' = HeadOf(journal) /\ journal' = journal /\ synced' = synced
             /\ synced = Len(journal)
    BY <1>1, <2>2, HeadFacts
  <2>3. CASE head' = head
    <3>1. \/ head.count <= synced
          \/ tail = "torn" /\ synced = Len(journal) /\ "open" \in Cuts
      BY <1>1, <1>4, <2>1, <2>3 DEF StableInv
    <3>2. CASE \E p \in Procs : AppendLine(p)
      <4> PICK p \in Procs : AppendLine(p)
        BY <3>2
      <4>1. pc[p] = "append" /\ head.count <= Len(journal)
        BY <1>1, <1>4, <2>3, GrowthCovered DEF AppendLine
      <4>2. \A q \in Procs : pc[q] # "sync"
        BY <1>1, <4>1, Alone DEF LockInv
      <4>3. synced = Len(journal)
        BY <1>1, <2>1, <4>2 DEF StableInv
      <4>4. tail = "open" => "open" \in Cuts
        BY <1>1 DEF StableInv
      <4> QED
        BY <1>1, <2>3, <4>1, <4>3, <4>4, Appends
    <3>3. CASE \E p \in Procs : SyncFails(p) \/ Sync(p)
      <4>1. synced' = Len(journal) /\ journal' = journal /\ tail' = tail
        BY <3>3 DEF SyncFails, Sync
      <4> QED
        BY <1>1, <1>4, <2>3, <3>1, <4>1
    <3>4. CASE LosePower
      <4>1. CASE head.count <= synced
        BY <1>1, <1>4, <2>3, <3>4, <4>1, Powered
      <4>2. CASE tail = "torn" /\ synced = Len(journal) /\ "open" \in Cuts
        <5>1. journal' = journal /\ tail' = tail
          BY <1>1, <3>4, <4>2 DEF LosePower
        <5> QED
          BY <3>4, <4>2, <5>1 DEF LosePower
      <4> QED
        BY <3>1, <4>1, <4>2
    <3>5. CASE \E p \in Procs : \/ BeginCreate(p) \/ Open(p) \/ BeginMutation(p)
                                \/ WriteCommittedHead(p) \/ WriteTmp(p)
                                \/ ReplaceCache(p) \/ ReplaceFails(p)
      <4>1. UNCHANGED <<journal, tail, synced>>
        BY <3>5 DEF BeginCreate, Open, BeginMutation, WriteCommittedHead,
                    WriteTmp, ReplaceCache, ReplaceFails, disk
      <4> QED
        BY <2>3, <3>1, <4>1
    <3> QED
      BY <2>1, <3>2, <3>3, <3>4, <3>5 DEF Next, Step, InCall
  <2> QED
    BY <1>4, <2>1, <2>2, <2>3, HeadChange
<1> QED
  BY <1>2, <1>3, <1>4 DEF StableInv

(* Crashes of one kind take no line that the sidecar counts. *)
LEMMA BehindStep ==
    ASSUME SInv, Next
    PROVE  BehindInv'
<1> USE DEF At
<1>1. /\ IInv /\ Len(journal) \in Nat /\ Len(journal') \in Nat
      /\ journal \in Seq(Event) /\ head \in Sidecar \cup {NoFile}
      /\ synced \in 0..Len(journal) /\ tail \in Tails
      /\ head # NoFile => head.count \in Nat
  BY LenFacts, FileStep DEF SInv, IInv, TypeOK, Sidecar
<1> SUFFICES ASSUME Kept', head' # NoFile
             PROVE  head'.count <= Len(journal') \/ tail' = "torn"
  BY DEF BehindInv
<1>2. Kept /\ ~LoseLine /\ ~LoseHead /\ (LosePower => faults.kills = 0)
  BY <1>1, FaultsStep DEF Kept
<1>3. CASE head' = HeadOf(journal) /\ journal' = journal
  BY <1>1, <1>3, HeadFacts
<1>4. CASE head' = head
  <2>1. head.count <= Len(journal) \/ tail = "torn"
    BY <1>2, <1>4 DEF SInv, BehindInv
  <2>2. \A p \in Procs : At(p, "append") => head.count <= Len(journal)
    BY <1>1, <1>4, GrowthCovered
  <2>3. CASE \E p \in Procs : AppendLine(p)
    <3> PICK p \in Procs : AppendLine(p)
      BY <2>3
    <3>1. head.count <= Len(journal)
      BY <2>2 DEF AppendLine
    <3> QED
      BY <1>1, <1>4, <3>1, Appends
  <2>4. CASE \E p \in Procs : Kill(p)
    <3> PICK p \in Procs : Kill(p)
      BY <2>4
    <3>1. CASE journal' = journal /\ tail' = tail
      BY <1>4, <2>1, <3>1
    <3>2. CASE At(p, "append") /\ Len(journal') >= Len(journal)
      BY <1>1, <1>4, <2>2, <3>2
    <3>3. CASE tail' = "torn"
      BY <3>3
    <3> QED
      BY <1>1, <3>1, <3>2, <3>3, Killed
  <2>5. CASE LosePower
    <3>1. \/ head.count <= synced
          \/ tail = "torn" /\ synced = Len(journal)
      BY <1>2, <1>4, <2>5 DEF SInv, StableInv, Kept
    <3>2. CASE head.count <= synced
      BY <1>1, <1>4, <2>5, <3>2, Powered
    <3>3. CASE tail = "torn" /\ synced = Len(journal)
      BY <1>1, <2>5, <3>3 DEF LosePower
    <3> QED
      BY <3>1, <3>2, <3>3
  <2>6. CASE \E p \in Procs : \/ BeginCreate(p) \/ Open(p) \/ BeginMutation(p)
                              \/ SyncFails(p) \/ Sync(p) \/ WriteCommittedHead(p)
                              \/ WriteTmp(p) \/ ReplaceCache(p) \/ ReplaceFails(p)
    <3>1. UNCHANGED <<journal, tail>>
      BY <2>6 DEF BeginCreate, Open, BeginMutation, SyncFails, Sync,
                  WriteCommittedHead, WriteTmp, ReplaceCache, ReplaceFails, disk
    <3> QED
      BY <1>4, <2>1, <3>1
  <2> QED
    BY <1>2, <2>3, <2>4, <2>5, <2>6 DEF Next, Step, InCall
<1> QED
  BY <1>3, <1>4, HeadChange

-----------------------------------------------------------------------------
(* The journal and the sidecar: the theorems.                               *)

(* The invariant holds of a session that is not there yet. *)
LEMMA InitSInv ==
    ASSUME Init
    PROVE  SInv
<1>1. journal = <<>> /\ Len(journal) = 0
  BY DEF Init
<1>2. Replayable(journal)
  BY <1>1 DEF Replayable
<1>3. \A p \in Procs : pc[p] = "idle"
  BY DEF Init
<1> QED
  BY <1>1, <1>2, <1>3, InitIInv
     DEF Init, SInv, JournalInv, OpenInv, HeadInv, StableInv, BehindInv

(* Every step preserves it. *)
LEMMA StepSInv ==
    ASSUME SInv, [Next]_vars
    PROVE  SInv'
<1>1. CASE Next
  <2>1. IInv'
    BY <1>1, StepIInv DEF SInv
  <2> QED
    BY <1>1, <2>1, JournalStep, OpenStep, HeadStep, StableStep, BehindStep DEF SInv
<1>2. CASE UNCHANGED vars
  <2>1. IInv'
    BY <1>2, StepIInv DEF SInv
  <2>2. JournalInv' /\ OpenInv'
    BY <1>2 DEF vars, disk, local, SInv, JournalInv, OpenInv
  <2>3. HeadInv' /\ StableInv' /\ BehindInv'
    BY <1>2 DEF vars, disk, local, SInv, HeadInv, StableInv, BehindInv, Kept
  <2> QED
    BY <2>1, <2>2, <2>3 DEF SInv
<1> QED
  BY <1>1, <1>2

(* The inductive invariant of the sidecar. *)
THEOREM SidecarInvariance == Spec => []SInv
<1>1. Init => SInv
  BY InitSInv
<1>2. SInv /\ [Next]_vars => SInv'
  BY StepSInv
<1> QED
  BY <1>1, <1>2, PTL DEF Spec

(* The complete lines of the file are a legal history of a session, whatever was
   killed, lost or removed: a mutation replays the journal under the lock, and no
   other line can come between that and its write. *)
THEOREM HistoryLegal == Spec => []Replayable(journal)
<1>1. SInv => Replayable(journal)
  BY DEF SInv, JournalInv
<1> QED
  BY <1>1, SidecarInvariance, PTL

(* A crash that leaves whole lines leaves a session that opens. *)
LEMMA CrashReads == SInv => CrashReadable
<1> SUFFICES ASSUME SInv, Kept, head # NoFile, tail # "torn"
             PROVE  Replayable(journal) /\ HeadAccepts(journal)
  BY DEF CrashReadable, Readable
<1>1. Len(journal) \in Nat /\ journal \in Seq(Event)
      /\ (journal # <<>> => LastId(journal) = journal[Len(journal)].id)
  BY LenFacts DEF SInv, IInv, TypeOK, LastId
<1>2. head.count <= Len(journal) /\ head.count \in Nat /\ head.count > 0
      /\ (head.count <= Len(journal) => head.last = journal[head.count].id)
  BY DEF SInv, BehindInv, HeadInv, IInv, TypeOK, Sidecar
<1>3. HeadAccepts(journal)
  BY <1>1, <1>2 DEF HeadAccepts
<1> QED
  BY <1>3 DEF SInv, JournalInv

(* ... however a line may have been cut short. *)
THEOREM CrashCorrect == Spec => []CrashReadable
  BY CrashReads, SidecarInvariance, PTL

(* The sidecar neither locks out what a crash has left nor vouches for what a crash
   may still take: it is published after the sync, and nobody reads a line that
   is not synced while the process that wrote it is alive. *)
THEOREM SidecarCorrect == Spec => []SidecarSound
<1>1. SInv => HeadDurable
  BY DEF SInv, StableInv, HeadDurable
<1>2. SInv => SidecarSound
  BY <1>1, CrashReads DEF SidecarSound
<1> QED
  BY <1>2, SidecarInvariance, PTL

(* Unless a whole line can be left without its newline, it claims no line that is
   not stable in a file with a broken end either, while no process is killed. *)
THEOREM DurableUnlessMerged ==
    ASSUME "open" \notin Cuts
    PROVE  Spec => [](faults.kills = 0 /\ faults.outside = 0 /\ head # NoFile
                        => head.count <= synced)
<1>1. SInv => (faults.kills = 0 /\ faults.outside = 0 /\ head # NoFile
                  => head.count <= synced)
  BY DEF SInv, StableInv
<1> QED
  BY <1>1, SidecarInvariance, PTL

-----------------------------------------------------------------------------
(* Where the last move of a journal has taken the session.                  *)

MoveTypes == {"charter_recorded", "transition", "closed"}
MovesOf(events) == {i \in 1..Len(events) : events[i].type \in MoveTypes}

(* No events, no session. *)
LEMMA PhaseEmpty == PhaseOf(<<>>) = Absent
  BY DEF PhaseOf

(* An event that moves the session decides, any other changes nothing. *)
LEMMA PhaseAppend ==
    ASSUME NEW t \in Seq(Event), NEW e \in Event
    PROVE  PhaseOf(Append(t, e)) =
               IF e.type \in MoveTypes THEN e.target ELSE PhaseOf(t)
<1> DEFINE s == Append(t, e)
           n == Len(t)
           Top(M) == CHOOSE i \in M : \A j \in M : j <= i
<1>1. /\ n \in Nat /\ Len(s) = n + 1 /\ s[n + 1] = e
      /\ \A i \in 1..n : s[i] = t[i]
  BY LenFacts, AppendFacts
<1>2. /\ PhaseOf(s) = IF MovesOf(s) = {} THEN Absent ELSE s[Top(MovesOf(s))].target
      /\ PhaseOf(t) = IF MovesOf(t) = {} THEN Absent ELSE t[Top(MovesOf(t))].target
  BY DEF PhaseOf, MovesOf, MoveTypes
<1> HIDE DEF s
<1>3. CASE e.type \in MoveTypes
  <2>1. n + 1 \in MovesOf(s) /\ \A j \in MovesOf(s) : j <= n + 1 /\ j \in Nat
    BY <1>1, <1>3 DEF MovesOf
  <2>2. Top(MovesOf(s)) = n + 1
    <3>1. Top(MovesOf(s)) \in MovesOf(s) /\ \A j \in MovesOf(s) : j <= Top(MovesOf(s))
      BY <2>1
    <3> QED
      BY <2>1, <3>1
  <2> QED
    BY <1>1, <1>2, <1>3, <2>1, <2>2 DEF s
<1>4. CASE e.type \notin MoveTypes
  <2>1. MovesOf(s) = MovesOf(t) /\ MovesOf(t) \subseteq 1..n
    BY <1>1, <1>4 DEF MovesOf
  <2>2. MovesOf(t) # {} => Top(MovesOf(t)) \in MovesOf(t)
    <3> SUFFICES ASSUME MovesOf(t) # {}  PROVE Top(MovesOf(t)) \in MovesOf(t)
      OBVIOUS
    <3>1. \E i \in MovesOf(t) : \A j \in MovesOf(t) : j <= i
      <4>1. MovesOf(t) \in SUBSET (0..n)
        BY <1>1, <2>1
      <4> QED
        BY <1>1, <4>1, GreatestOf
    <3> QED
      BY <3>1
  <2> QED
    BY <1>1, <1>2, <1>4, <2>1, <2>2 DEF s
<1> QED
  BY <1>3, <1>4

(* Where an event that replays takes the session. *)
LEMMA ApplyState ==
    ASSUME NEW r \in Index, NEW e \in Event, Fits(e)
    PROVE  Apply(r, e).state = IF e.type \in MoveTypes THEN e.target ELSE r.state
<1>1. /\ RegisterAll(r, e.records) \in Index
      /\ RegisterAll(r, e.records).state = r.state
      /\ e.type \in Types
  BY RegisterAllEnds, RegisterAllState DEF Event
<1> QED
  BY <1>1 DEF Apply, Index, Types, MoveTypes, Fits

(* The target of the last move is the state that a replay leads to. *)
LEMMA PhaseIsState ==
    ASSUME NEW s \in Seq(Event), \A i \in 1..Len(s) : Fits(s[i])
    PROVE  PhaseOf(s) = Replay(s).state
<1> DEFINE T == {k \in 0..Len(s) : PhaseOf(SubSeq(s, 1, k)) = Replay(SubSeq(s, 1, k)).state}
<1>1. Len(s) \in Nat
  BY LenFacts
<1>2. 0 \in T
  <2>1. SubSeq(s, 1, 0) = <<>>
    <3>1. 0 \in 0..Len(s)
      BY <1>1
    <3> QED
      BY <3>1, PrefixFacts, LenFacts
  <2>2. Replay(<<>>) = Empty
    BY ReplayEnds, EventLegible, EmptySeq
  <2>3. PhaseOf(SubSeq(s, 1, 0)) = Absent
    BY <2>1, PhaseEmpty
  <2>4. Replay(SubSeq(s, 1, 0)) = Empty
    BY <2>1, <2>2
  <2>5. Empty.state = Absent
    BY DEF Empty
  <2> QED
    BY <1>1, <2>3, <2>4, <2>5
<1>3. ASSUME NEW k \in 1..Len(s), k - 1 \in T  PROVE k \in T
  <2> DEFINE t == SubSeq(s, 1, k - 1)
  <2>1. /\ s[k] \in Event /\ t \in Seq(Event) /\ SubSeq(s, 1, k) = Append(t, s[k])
    BY SplitLast
  <2>2. PhaseOf(t) = Replay(t).state /\ k \in 0..Len(s)
    BY <1>1, <1>3
  <2> HIDE DEF t
  <2>3. Replay(t) \in Index /\ Replay(Append(t, s[k])) = Apply(Replay(t), s[k])
    BY <2>1, ReplayEnds, ReplayAppend, EventLegible
  <2>4. PhaseOf(Append(t, s[k])) = Replay(Append(t, s[k])).state
    BY <2>1, <2>2, <2>3, PhaseAppend, ApplyState
  <2> QED
    BY <2>1, <2>2, <2>4
<1> HIDE DEF T
<1>4. 0..Len(s) \subseteq T
  BY <1>1, <1>2, <1>3, UpTo
<1>5. SubSeq(s, 1, Len(s)) = s
  BY SubSeqFull
<1>6. Len(s) \in T
  BY <1>1, <1>4
<1>7. PhaseOf(SubSeq(s, 1, Len(s))) = Replay(SubSeq(s, 1, Len(s))).state
  BY <1>6 DEF T
<1> QED
  BY <1>5, <1>7

(* The transitions the code allows are moves of the log. *)
LEMMA AllowedMoves ==
    /\ <<Absent, "initialized">> \in Log!Moves
    /\ \A s \in States : \A t \in Allowed[s] : <<s, t>> \in Log!Moves
    /\ \A s \in States \ {"closed"} : <<s, s>> \in Log!Moves
<1>1. /\ Len(Log!Primary) = 9
      /\ \A i \in 1..9 : i - 1 \in 1..8 => <<Log!Primary[i - 1], Log!Primary[i]>> \in Log!Moves
  BY DEF Log!Moves, Log!Primary
<1> QED
  BY <1>1 DEF Absent, States, Allowed, Log!Moves, Log!Primary, Log!Open

(* A legal history ends with a move of the log, in a state of the session. *)
LEMMA LastMove ==
    ASSUME NEW s \in Seq(Event), s # <<>>, Replayable(s),
           \A i \in 1..Len(s) : Fits(s[i])
    PROVE  /\ <<PhaseOf(Front(s)), PhaseOf(s)>> \in Log!Moves
           /\ PhaseOf(s) # "absent"
<1> DEFINE n == Len(s)
           t == Front(s)
<1>1. n \in 1..Len(s) /\ s[n] \in Event
  BY LenFacts
<1>2. t \in Seq(Event) /\ Len(t) = n - 1 /\ \A i \in 1..(n - 1) : t[i] = s[i]
  BY <1>1, FrontFacts
<1>3. s = Append(t, s[n])
  BY <1>1, SplitLast, SubSeqFull DEF Front
<1>4. Replays(Replay(t), s[n])
  BY <1>1 DEF Replayable, Front
<1> HIDE DEF t
<1>5. Replay(t).state = PhaseOf(t)
  <2>1. \A i \in 1..Len(t) : Fits(t[i])
    BY <1>1, <1>2
  <2> QED
    BY <1>2, <2>1, PhaseIsState
<1>6. PhaseOf(s) = IF s[n].type \in MoveTypes THEN s[n].target ELSE PhaseOf(t)
  <2> HIDE DEF n
  <2> QED
    BY <1>1, <1>2, <1>3, PhaseAppend
<1>7. Fits(s[n]) /\ s[n].type \in Types /\ s[n].target \in States
  BY <1>1 DEF Event
<1> HIDE DEF n
<1>8. CASE s[n].type = "charter_recorded"
  <2>1. PhaseOf(t) = Absent /\ PhaseOf(s) = "initialized"
    BY <1>4, <1>5, <1>6, <1>7, <1>8 DEF Replays, MoveTypes, Fits
  <2> QED
    BY <2>1, AllowedMoves DEF t
<1>9. CASE s[n].type \in {"transition", "closed"}
  <2>1. PhaseOf(t) \in States /\ PhaseOf(s) \in Allowed[PhaseOf(t)]
    BY <1>4, <1>5, <1>6, <1>7, <1>9 DEF Replays, MoveTypes, Fits
  <2>2. PhaseOf(s) \in States
    BY <1>6, <1>7, <1>9 DEF MoveTypes
  <2> QED
    BY <2>1, <2>2, AllowedMoves DEF t, States
<1>10. CASE s[n].type \in {"charter_revised", "artifact_recorded"}
  <2>1. PhaseOf(t) \in States \ {"closed"} /\ PhaseOf(s) = PhaseOf(t)
    BY <1>4, <1>5, <1>6, <1>10 DEF Replays, MoveTypes
  <2> QED
    BY <2>1, AllowedMoves DEF t, States
<1> QED
  BY <1>7, <1>8, <1>9, <1>10 DEF Types

-----------------------------------------------------------------------------
(* The refinement.                                                          *)

\* No line is left without its newline, and none is written after a fragment.
WholeInv ==
    /\ tail # "open"
    /\ \A p \in Procs : pc[p] \in {"append", "sync"} => tail # "torn"

(* A mutation begins on a file it can read and keeps everybody else out. *)
LEMMA WholeStep ==
    ASSUME SInv, WholeInv, Next, "open" \notin Cuts
    PROVE  WholeInv'
<1> USE DEF At, Goto
<1>1. /\ IInv /\ LockInv /\ pc \in [Procs -> Points] /\ WholeInv
      /\ req \in [Procs -> Event \cup {NoFile}]
  BY DEF SInv, IInv, TypeOK
<1>2. tail' # "open"
  BY StableStep DEF StableInv
<1>3. ASSUME NEW p \in Procs, pc'[p] \in {"append", "sync"}
      PROVE  tail' # "torn"
  <2>1. pc[p] \in {"append", "sync"} =>
            tail # "torn" /\ lock = p /\ \A q \in Procs : q # p => pc[q] # "append"
    BY <1>1, Alone DEF WholeInv, LockInv
  <2>2. CASE \E q \in Procs : BeginCreate(q)
    BY <2>2 DEF BeginCreate
  <2>3. CASE \E q \in Procs : BeginMutation(q)
    BY <2>3 DEF BeginMutation, Readable, disk
  <2>4. CASE \E q \in Procs : AppendLine(q)
    <3>1. tail # "open"
      BY <1>1 DEF WholeInv
    <3> QED
      BY <1>1, <2>4, <3>1, Appends
  <2>5. CASE \E q \in Procs : \/ Open(q) \/ SyncFails(q) \/ Sync(q)
                              \/ WriteCommittedHead(q) \/ WriteTmp(q)
                              \/ ReplaceCache(q) \/ ReplaceFails(q)
    <3>1. tail' = tail /\ pc[p] \in {"append", "sync"}
      BY <1>1, <1>3, <2>5 DEF Open, SyncFails, Sync, WriteCommittedHead, WriteTmp,
                        ReplaceCache, ReplaceFails, Raise, disk
    <3> QED
      BY <2>1, <3>1
  <2>6. CASE \E q \in Procs : Kill(q)
    <3> PICK q \in Procs : Kill(q)
      BY <2>6
    <3>1. q # p /\ pc[p] \in {"append", "sync"}
      BY <1>3 DEF Kill, Forget
    <3>2. ~At(q, "append")
      BY <2>1, <3>1
    <3> QED
      BY <2>1, <3>1, <3>2 DEF Kill
  <2>7. CASE LosePower
    BY <1>3, <2>7 DEF LosePower, Forget
  <2>8. CASE LoseLine \/ LoseHead
    BY <1>3, <2>1, <2>8, SessionSentinels DEF LoseLine, LoseHead, local
  <2> QED
    BY <2>2, <2>3, <2>4, <2>5, <2>6, <2>7, <2>8 DEF Next, Step, InCall
<1> QED
  BY <1>2, <1>3 DEF WholeInv

(* What is committed: all there is, but for the line a process has not synced. *)
LEMMA CommittedFacts ==
    /\ tail = "torn" \/ (\A p \in Procs : pc[p] # "sync") => Committed = journal
    /\ tail # "torn" /\ (\E p \in Procs : pc[p] = "sync") => Committed = Front(journal)
  BY DEF Committed, At

(* The phase is that of the committed events. *)
LEMMA PhaseSame ==
    ASSUME Committed' = Committed
    PROVE  PhaseOf(Committed)' = PhaseOf(Committed)
  BY DEF PhaseOf

LogState == <<Committed, synced, PhaseOf(Committed), faults.outside>>
LogMoves == Log!LogNext \/ Joined

(* What leaves the committed events and the stable ones alone is a stutter. *)
LEMMA StutterStep ==
    ASSUME Committed' = Committed, synced' = synced, faults'.outside = faults.outside
    PROVE  UNCHANGED LogState
  BY PhaseSame DEF LogState

\* Nobody writes behind a fragment.
AppendInv == \A p \in Procs : pc[p] = "append" => tail # "torn"

(* A mutation begins on a file it can read and keeps everybody else out. *)
LEMMA AppendStep ==
    ASSUME IInv, AppendInv, Next
    PROVE  AppendInv'
<1> USE DEF At, Goto
<1>1. /\ LockInv /\ pc \in [Procs -> Points] /\ req \in [Procs -> Event \cup {NoFile}]
  BY DEF IInv, TypeOK
<1> SUFFICES ASSUME NEW p \in Procs, pc'[p] = "append"  PROVE tail' # "torn"
  BY DEF AppendInv
<1>2. pc[p] = "append" =>
          tail # "torn" /\ lock = p /\ \A q \in Procs : q # p => pc[q] # "append"
  BY <1>1, Alone DEF AppendInv, LockInv
<1>3. CASE \E q \in Procs : BeginCreate(q)
  BY <1>3 DEF BeginCreate
<1>4. CASE \E q \in Procs : BeginMutation(q)
  BY <1>4 DEF BeginMutation, Readable, disk
<1>5. CASE \E q \in Procs : AppendLine(q)
  <2> PICK q \in Procs : AppendLine(q)
    BY <1>5
  <2>1. pc[q] = "append" /\ pc' = [pc EXCEPT ![q] = "sync"]
    BY DEF AppendLine
  <2> QED
    BY <1>1, <1>2, <2>1
<1>6. CASE \E q \in Procs : \/ Open(q) \/ SyncFails(q) \/ Sync(q)
                            \/ WriteCommittedHead(q) \/ WriteTmp(q)
                            \/ ReplaceCache(q) \/ ReplaceFails(q)
  <2>1. tail' = tail /\ pc[p] = "append"
    BY <1>1, <1>6 DEF Open, SyncFails, Sync, WriteCommittedHead, WriteTmp,
                      ReplaceCache, ReplaceFails, Raise, disk
  <2> QED
    BY <1>2, <2>1
<1>7. CASE \E q \in Procs : Kill(q)
  <2> PICK q \in Procs : Kill(q)
    BY <1>7
  <2>1. q # p /\ pc[p] = "append"
    BY DEF Kill, Forget
  <2>2. ~At(q, "append")
    BY <1>2, <2>1
  <2> QED
    BY <1>2, <2>1, <2>2 DEF Kill
<1>8. CASE LosePower
  BY <1>8 DEF LosePower, Forget
<1>9. CASE LoseLine \/ LoseHead
  BY <1>2, <1>9, SessionSentinels DEF LoseLine, LoseHead, local
<1> QED
  BY <1>3, <1>4, <1>5, <1>6, <1>7, <1>8, <1>9 DEF Next, Step, InCall

(* A line that joins the log is a legal move of it. *)
LEMMA GrowMove ==
    ASSUME NEW s \in Seq(Event), s # <<>>, Replayable(s),
           \A i \in 1..Len(s) : Fits(s[i]),
           Committed = Front(s), Committed' = s, synced' \in {synced, Len(s)},
           faults'.outside = faults.outside
    PROVE  Log!Grow
<1>1. Len(s) \in Nat /\ Len(s) > 0
  BY LenFacts
<1>2. /\ Len(Front(s)) = Len(s) - 1
      /\ SubSeq(s, 1, Len(Front(s))) = Front(s)
  BY <1>1, FrontFacts DEF Front
<1>3. PhaseOf(Committed)' = PhaseOf(s)
  BY DEF PhaseOf
<1>4. <<PhaseOf(Committed), PhaseOf(Committed)'>> \in Log!Moves
  BY <1>3, LastMove
<1>5. Len(Committed') = Len(Committed) + 1
  BY <1>1, <1>2
<1>6. SubSeq(Committed', 1, Len(Committed)) = Committed
  BY <1>2
<1> QED
  BY <1>4, <1>5, <1>6 DEF Log!Grow

(* The line being synced joins the log when it is synced, or when the crash of
   the process or of the machine has left it in the file. *)
LEMMA GrowStep ==
    ASSUME SInv, NEW p \in Procs, pc[p] = "sync", tail # "torn",
           journal' = journal, Committed' = journal, synced' \in {synced, Len(journal)},
           faults'.outside = faults.outside
    PROVE  Log!Grow
<1>1. /\ journal \in Seq(Event) /\ Len(journal) > 0
      /\ Replayable(journal) /\ \A i \in 1..Len(journal) : Fits(journal[i])
  BY DEF SInv, IInv, TypeOK, LockInv, CallInv, JournalInv
<1>2. journal # <<>>
  BY <1>1, LenFacts
<1>3. Committed = Front(journal)
  BY CommittedFacts
<1> QED
  BY <1>1, <1>2, <1>3, GrowMove

(* What is left of a log has a phase as long as anything is left. *)
LEMMA PhaseKept ==
    ASSUME SInv', Committed' = journal'
    PROVE  /\ journal' = <<>> => PhaseOf(Committed)' = "absent"
           /\ journal' # <<>> => PhaseOf(Committed)' # "absent"
<1>1. PhaseOf(Committed)' = PhaseOf(journal')
  BY DEF PhaseOf
<1>2. /\ journal' \in Seq(Event) /\ Replayable(journal')
      /\ \A i \in 1..Len(journal') : Fits(journal'[i])
  BY DEF SInv, IInv, TypeOK, JournalInv
<1> QED
  BY <1>1, <1>2, LastMove, PhaseEmpty DEF Absent

(* A power loss takes back nothing that is sure. *)
LEMMA LoseStep ==
    ASSUME SInv, SInv', NEW n \in synced..(Len(journal) - 1),
           journal' = SubSeq(journal, 1, n), synced' = n, Committed' = journal',
           faults'.outside = faults.outside
    PROVE  Log!Settle \/ Log!Lose
<1>1. /\ journal \in Seq(Event) /\ Len(journal) \in Nat /\ synced \in 0..Len(journal)
      /\ journal' \in Seq(Event) /\ n \in 0..Len(journal) /\ Len(journal') = n
  <2>1. /\ journal \in Seq(Event) /\ Len(journal) \in Nat /\ synced \in 0..Len(journal)
    BY LenFacts DEF SInv, IInv, TypeOK
  <2>2. n \in 0..Len(journal)
    BY <2>1
  <2> QED
    BY <2>1, <2>2, PrefixFacts
<1>2. (n = 0) <=> (PhaseOf(Committed)' = "absent")
  <2>1. n = 0 <=> journal' = <<>>
    BY <1>1, LenFacts
  <2> QED
    BY <2>1, PhaseKept
<1>3. CASE Committed = journal
  BY <1>2, <1>3 DEF Log!Lose
<1>4. CASE Committed = Front(journal)
  <2>1. Len(Committed) = Len(journal) - 1
    BY <1>1, <1>4, FrontFacts
  <2>2. CASE n = Len(journal) - 1
    <3>1. Committed' = Committed
      BY <1>4, <2>2 DEF Front
    <3>2. PhaseOf(Committed)' = PhaseOf(Committed)
      BY <3>1, PhaseSame
    <3> QED
      BY <2>1, <2>2, <3>1, <3>2 DEF Log!Settle
  <2>3. CASE n # Len(journal) - 1
    <3>1. n \in synced..(Len(Committed) - 1)
      BY <1>1, <2>1, <2>3
    <3>2. SubSeq(Front(journal), 1, n) = SubSeq(journal, 1, n)
      <4>1. Len(journal) - 1 \in 0..Len(journal) /\ n \in 0..(Len(journal) - 1)
        BY <1>1
      <4> QED
        BY <1>1, <4>1, PrefixPrefix DEF Front
    <3> QED
      BY <1>2, <1>4, <3>1, <3>2 DEF Log!Lose
  <2> QED
    BY <2>2, <2>3
<1> QED
  BY <1>3, <1>4, CommittedFacts

(* What is left without its last line, to an outsider or to one that a write has
   joined with another. *)
LEMMA TakeStep ==
    ASSUME IInv, Committed = journal, Len(journal) > 0,
           Committed' = Front(journal), journal' = Front(journal),
           synced' = IF synced > Len(journal') THEN Len(journal') ELSE synced
    PROVE  Log!TakeLast
<1>1. /\ journal \in Seq(Event) /\ Len(journal) \in Nat /\ synced \in 0..Len(journal)
  BY LenFacts DEF IInv, TypeOK
<1>2. Len(Front(journal)) = Len(journal) - 1 /\ journal # <<>>
  BY <1>1, FrontFacts, LenFacts
<1>3. synced' = IF synced < Len(journal) THEN synced ELSE Len(Committed')
  BY <1>1, <1>2
<1> QED
  BY <1>2, <1>3 DEF Log!TakeLast, Front

(* What was there before the last line. *)
LEMMA FrontAppend ==
    ASSUME NEW s \in Seq(Event), NEW e \in Event
    PROVE  Front(Append(s, e)) = s
<1> DEFINE grown == Append(s, e)
<1>1. /\ grown \in Seq(Event) /\ Len(grown) = Len(s) + 1 /\ Len(s) \in Nat
      /\ \A i \in 1..Len(s) : grown[i] = s[i]
  BY AppendFacts, LenFacts
<1> HIDE DEF grown
<1>2. Len(grown) > 0 /\ Len(grown) - 1 = Len(s)
  BY <1>1
<1>3. /\ Front(grown) \in Seq(Event) /\ Len(Front(grown)) = Len(s)
      /\ \A i \in 1..Len(s) : Front(grown)[i] = grown[i]
  BY <1>1, <1>2, FrontFacts
<1>4. Front(grown) = s
  BY <1>1, <1>3, SeqEqual
<1> QED
  BY <1>4 DEF grown

(* A kill adds the line being written, joins it with another or loses it. *)
LEMMA KillStep ==
    ASSUME SInv, SInv', NEW p \in Procs, Kill(p)
    PROVE  LogMoves \/ UNCHANGED LogState
<1> USE DEF At, Goto
<1>1. /\ IInv /\ LockInv /\ Len(journal) \in Nat /\ journal \in Seq(Event)
      /\ synced \in 0..Len(journal) /\ pc \in [Procs -> Points]
  BY LenFacts DEF SInv, IInv, TypeOK
<1>2. \A q \in Procs : pc'[q] = IF q = p THEN "idle" ELSE pc[q]
  BY DEF Kill, Forget
<1>3. faults'.outside = faults.outside
  BY <1>1 DEF IInv, TypeOK, Kill
<1>4. synced' = IF synced > Len(journal') THEN Len(journal') ELSE synced
  BY DEF Kill
<1>5. CASE pc[p] = "append"
  <2>1. \A q \in Procs : pc[q] # "sync" /\ pc'[q] # "sync"
    BY <1>1, <1>2, <1>5, Alone DEF LockInv
  <2>2. Committed = journal /\ Committed' = journal'
    BY <2>1 DEF Committed
  <2> PICK file \in CutShort(req[p]) : Leaves(file)
    BY <1>5 DEF Kill
  <2>3. CASE file.lines = journal
    <3>1. journal' = journal /\ synced' = synced
      BY <1>1, <1>4, <2>3 DEF Leaves
    <3> QED
      BY <1>3, <2>2, <3>1, StutterStep
  <2>4. CASE file.lines = Front(journal) /\ file.end = "torn" /\ tail = "open"
    <3>1. journal' = Front(journal) /\ tail' = "torn" /\ Len(journal) > 0
      BY <1>1, <2>4 DEF Leaves, IInv, TailInv
    <3>2. Log!TakeLast
      BY <1>1, <1>4, <2>2, <3>1, TakeStep
    <3> QED
      BY <1>3, <2>4, <3>1, <3>2 DEF LogMoves, Joined
  <2>5. CASE file.lines = Append(journal, req[p])
    <3>1. req[p] \in Event
      BY <1>1, <1>5 DEF SInv, IInv, TypeOK, LockInv
    <3>2. journal' = Append(journal, req[p]) /\ Len(journal') = Len(journal) + 1
      BY <1>1, <2>5, <3>1, AppendFacts DEF Leaves
    <3>3. synced' = synced /\ Front(journal') = journal
      BY <1>1, <1>4, <3>1, <3>2, FrontAppend
    <3>4. /\ journal' \in Seq(Event) /\ Replayable(journal')
          /\ \A i \in 1..Len(journal') : Fits(journal'[i])
      BY DEF SInv, IInv, TypeOK, JournalInv
    <3>5. journal' # <<>>
      BY <1>1, <3>2, <3>4, LenFacts
    <3> QED
      BY <1>3, <2>2, <3>3, <3>4, <3>5, GrowMove DEF LogMoves, Log!LogNext
  <2> QED
    BY <2>3, <2>4, <2>5, CutFacts
<1>6. CASE pc[p] # "append"
  <2>1. journal' = journal /\ tail' = tail /\ synced' = synced
    BY <1>1, <1>4, <1>6 DEF Kill
  <2>2. CASE pc[p] = "sync" /\ tail # "torn"
    <3>1. \A q \in Procs : pc'[q] # "sync"
      BY <1>1, <1>2, <2>2, Alone DEF LockInv
    <3>2. Committed' = journal
      BY <2>1, <3>1 DEF Committed
    <3> QED
      BY <1>3, <2>1, <2>2, <3>2, GrowStep DEF LogMoves, Log!LogNext
  <2>3. CASE ~(pc[p] = "sync" /\ tail # "torn")
    <3>1. tail # "torn" => \A q \in Procs : pc'[q] = "sync" <=> pc[q] = "sync"
      BY <1>2, <2>3
    <3>2. Committed' = Committed
      BY <2>1, <3>1 DEF Committed, Front
    <3> QED
      BY <1>3, <2>1, <3>2, StutterStep
  <2> QED
    BY <2>2, <2>3
<1> QED
  BY <1>5, <1>6

(* A power loss keeps what was sure, and perhaps the line being synced. *)
LEMMA PowerStep ==
    ASSUME SInv, SInv', LosePower
    PROVE  LogMoves
<1> USE DEF At, Goto
<1>1. /\ IInv /\ Len(journal) \in Nat /\ journal \in Seq(Event)
      /\ synced \in 0..Len(journal) /\ journal' \in Seq(Event)
  BY LenFacts DEF SInv, IInv, TypeOK
<1>2. Committed' = journal' /\ synced' = Len(journal')
  BY DEF LosePower, Forget, Committed
<1>3. faults'.outside = faults.outside
  BY <1>1 DEF IInv, TypeOK, LosePower
<1>4. CASE journal' = journal
  <2>1. CASE tail = "torn" \/ \A p \in Procs : pc[p] # "sync"
    <3>1. Committed = journal /\ Committed' = Committed
      BY <1>2, <1>4, <2>1, CommittedFacts
    <3>2. PhaseOf(Committed)' = PhaseOf(Committed)
      BY <3>1, PhaseSame
    <3> QED
      BY <1>2, <1>3, <1>4, <3>1, <3>2 DEF Log!Settle, Log!LogNext, LogMoves
  <2>2. CASE tail # "torn" /\ \E p \in Procs : pc[p] = "sync"
    BY <1>2, <1>3, <1>4, <2>2, GrowStep DEF Log!LogNext, LogMoves
  <2> QED
    BY <2>1, <2>2
<1>5. ASSUME NEW n \in synced..(Len(journal) - 1), journal' = SubSeq(journal, 1, n)
      PROVE  LogMoves
  <2>1. n \in 0..Len(journal)
    BY <1>1
  <2>2. synced' = n
    BY <1>1, <1>2, <1>5, <2>1, PrefixFacts
  <2> QED
    BY <1>2, <1>3, <1>5, <2>2, LoseStep DEF Log!LogNext, LogMoves
<1>6. ASSUME NEW n \in synced..(Len(journal) - 1), journal' = SubSeq(journal, 1, n + 1)
      PROVE  LogMoves
  <2>1. CASE n + 1 = Len(journal)
    <3>1. journal' = journal
      BY <1>1, <1>6, <2>1, SubSeqFull
    <3> QED
      BY <1>4, <3>1
  <2>2. CASE n + 1 # Len(journal)
    <3>1. n + 1 \in synced..(Len(journal) - 1)
      BY <1>1, <2>2
    <3> QED
      BY <1>5, <1>6, <3>1
  <2> QED
    BY <2>1, <2>2
<1> QED
  BY <1>4, <1>5, <1>6 DEF LosePower

(* An outsider takes a line of a session nobody is working on, or the sidecar. *)
LEMMA RemoveStep ==
    ASSUME SInv, SInv', LoseLine \/ LoseHead
    PROVE  LogMoves
<1> USE DEF At
<1>1. /\ IInv /\ LockInv /\ Len(journal) \in Nat /\ journal \in Seq(Event)
      /\ lock = NoProc /\ UNCHANGED <<tail, pc>>
  BY LenFacts DEF SInv, IInv, TypeOK, LoseLine, LoseHead, local
<1>2. \A p \in Procs : pc[p] # "sync"
  BY <1>1, SessionSentinels DEF LockInv
<1>3. Committed = journal /\ Committed' = journal'
  BY <1>1, <1>2 DEF Committed
<1>4. faults'.outside = faults.outside + 1
  BY <1>1 DEF IInv, TypeOK, LoseLine, LoseHead
<1>5. CASE LoseLine
  <2>1. journal' = Front(journal) /\ Len(journal) > 0 /\ journal' # <<>>
    <3>1. journal' = Front(journal) /\ Len(journal) > 1
      BY <1>5 DEF LoseLine
    <3>2. Len(journal') > 0 /\ journal' \in Seq(Event)
      BY <1>1, <1>5, LineLost
    <3> QED
      BY <1>1, <3>1, <3>2, LenFacts
  <2>2. synced' = IF synced > Len(journal') THEN Len(journal') ELSE synced
    BY <1>5 DEF LoseLine
  <2>3. Log!TakeLast
    BY <1>1, <1>3, <2>1, <2>2, TakeStep
  <2>4. PhaseOf(Committed)' # "absent"
    BY <1>3, <2>1, PhaseKept
  <2> QED
    BY <1>4, <2>3, <2>4 DEF Log!Remove, Log!LogNext, LogMoves
<1>6. CASE LoseHead
  <2>1. Committed' = Committed /\ synced' = synced
    BY <1>3, <1>6 DEF LoseHead
  <2>2. PhaseOf(Committed)' = PhaseOf(Committed)
    BY <2>1, PhaseSame
  <2> QED
    BY <1>4, <2>1, <2>2 DEF Log!Remove, Log!LogNext, LogMoves
<1> QED
  BY <1>5, <1>6

(* A line is written behind the others or joined with the last. *)
LEMMA WriteStep ==
    ASSUME SInv, AppendInv, NEW p \in Procs, AppendLine(p)
    PROVE  LogMoves \/ UNCHANGED LogState
<1> USE DEF At, Goto
<1>1. /\ IInv /\ LockInv /\ Len(journal) \in Nat /\ journal \in Seq(Event)
      /\ synced \in 0..Len(journal) /\ pc \in [Procs -> Points]
  BY LenFacts DEF SInv, IInv, TypeOK
<1>2. pc[p] = "append" /\ pc'[p] = "sync" /\ \A q \in Procs : pc[q] # "sync"
  BY <1>1, Alone DEF AppendLine, LockInv
<1>3. Committed = journal
  BY <1>2, CommittedFacts
<1>4. faults' = faults /\ req[p] \in Event
  BY <1>1, Appends DEF AppendLine
<1>5. CASE tail = "open"
  <2>1. journal' = Front(journal) /\ tail' = "torn" /\ Len(journal) > 0
    BY <1>1, <1>5 DEF AppendLine, Leaves, Written, IInv, TailInv
  <2>2. Len(journal') = Len(journal) - 1
    BY <1>1, <2>1, FrontFacts
  <2>3. synced' = IF synced > Len(journal') THEN Len(journal') ELSE synced
    BY <1>1, <1>5, <2>2 DEF AppendLine
  <2>4. Committed' = journal'
    BY <2>1 DEF Committed
  <2>5. Log!TakeLast
    BY <1>1, <1>3, <2>1, <2>3, <2>4, TakeStep
  <2> QED
    BY <1>4, <1>5, <2>1, <2>5 DEF LogMoves, Joined
<1>6. CASE tail # "open"
  <2>1. journal' = Append(journal, req[p]) /\ tail' = "clean" /\ synced' = synced
    BY <1>6 DEF AppendLine, Leaves, Written
  <2>2. Committed' = Front(journal')
    BY <1>2, <2>1 DEF Committed, Front
  <2>3. Committed' = Committed
    BY <1>1, <1>3, <1>4, <2>1, <2>2, FrontAppend
  <2> QED
    BY <1>4, <2>1, <2>3, StutterStep
<1> QED
  BY <1>5, <1>6

(* Every step is a step of the log or a stutter. *)
LEMMA LogStep ==
    ASSUME SInv, AppendInv, Next, SInv'
    PROVE  LogMoves \/ UNCHANGED LogState
<1> USE DEF At, Goto
<1>1. /\ IInv /\ LockInv /\ Len(journal) \in Nat /\ journal \in Seq(Event)
      /\ synced \in 0..Len(journal) /\ pc \in [Procs -> Points]
  BY LenFacts DEF SInv, IInv, TypeOK
<1>2. CASE \E p \in Procs : \/ BeginCreate(p) \/ Open(p) \/ BeginMutation(p)
                            \/ WriteCommittedHead(p) \/ WriteTmp(p)
                            \/ ReplaceCache(p) \/ ReplaceFails(p)
  <2>1. UNCHANGED <<journal, tail, synced, faults>>
    BY <1>2 DEF BeginCreate, Open, BeginMutation, WriteCommittedHead, WriteTmp,
                ReplaceCache, ReplaceFails, disk
  <2>2. \A q \in Procs : pc'[q] = "sync" <=> pc[q] = "sync"
    BY <1>1, <1>2 DEF BeginCreate, Open, BeginMutation, WriteCommittedHead, WriteTmp,
                ReplaceCache, ReplaceFails, Raise
  <2>3. Committed' = Committed
    BY <2>1, <2>2 DEF Committed, Front
  <2> QED
    BY <2>1, <2>3, StutterStep
<1>3. CASE \E p \in Procs : AppendLine(p)
  BY <1>3, WriteStep
<1>4. CASE \E p \in Procs : SyncFails(p)
  <2>1. /\ tail = "torn" /\ UNCHANGED <<journal, tail, faults>> /\ synced' = Len(journal)
    BY <1>4 DEF SyncFails
  <2>2. Committed = journal /\ Committed' = journal
    BY <2>1 DEF Committed
  <2>3. PhaseOf(Committed)' = PhaseOf(Committed)
    BY <2>2, PhaseSame
  <2> QED
    BY <2>1, <2>2, <2>3 DEF Log!Settle, Log!LogNext, LogMoves
<1>5. CASE \E p \in Procs : Sync(p)
  <2> PICK p \in Procs : Sync(p)
    BY <1>5
  <2>1. /\ pc[p] = "sync" /\ tail # "torn" /\ pc'[p] = "publish"
        /\ UNCHANGED <<journal, faults>> /\ synced' = Len(journal)
    BY <1>1 DEF Sync
  <2>2. \A q \in Procs : pc'[q] # "sync"
    BY <1>1, <2>1, Alone DEF Sync, LockInv
  <2>3. Committed' = journal
    BY <2>1, <2>2 DEF Committed
  <2> QED
    BY <2>1, <2>3, GrowStep DEF Log!LogNext, LogMoves
<1>6. CASE \E p \in Procs : Kill(p)
  BY <1>6, KillStep
<1>7. CASE LosePower
  BY <1>7, PowerStep
<1>8. CASE LoseLine \/ LoseHead
  BY <1>8, RemoveStep
<1> QED
  BY <1>2, <1>3, <1>4, <1>5, <1>6, <1>7, <1>8 DEF Next, Step, InCall

(* Unless a whole line can be left without its newline, the file is never merged
   or torn where a process is writing. *)
LEMMA WholeInvariance ==
    ASSUME "open" \notin Cuts
    PROVE  Spec => [](SInv /\ WholeInv)
<1>1. Init => SInv /\ WholeInv
  BY InitSInv DEF Init, WholeInv
<1>2. SInv /\ WholeInv /\ [Next]_vars => SInv' /\ WholeInv'
  <2> SUFFICES ASSUME SInv, WholeInv, [Next]_vars  PROVE SInv' /\ WholeInv'
    OBVIOUS
  <2>1. SInv'
    BY StepSInv
  <2>2. CASE Next
    BY <2>1, <2>2, WholeStep
  <2>3. CASE UNCHANGED vars
    BY <2>1, <2>3 DEF vars, disk, local, WholeInv
  <2> QED
    BY <2>2, <2>3
<1> QED
  BY <1>1, <1>2, PTL DEF Spec

(* What a mutation has appended to a journal it accepted reads back, unless a
   crash can leave a whole line without its newline: that is the only way. *)
THEOREM LinesReadBack ==
    ASSUME "open" \notin Cuts
    PROVE  Spec => []LineReadsBack
<1>1. WholeInv => LineReadsBack
  BY DEF WholeInv, LineReadsBack, At
<1> QED
  BY <1>1, WholeInvariance, PTL

(* The session store is a log: it grows by one event at a time, in the order of
   the primary states, and loses no event whose line was synced but to an
   outsider, or where a write joins it with a line that lacks its newline. *)
THEOREM StoreIsLog == Spec => LogSpec
<1>1. Init => AppendInv
  BY DEF Init, AppendInv
<1>2. SInv /\ AppendInv /\ [Next]_vars => AppendInv'
  <2>1. SInv /\ AppendInv /\ Next => AppendInv'
    BY AppendStep DEF SInv
  <2>2. AppendInv /\ UNCHANGED vars => AppendInv'
    BY DEF AppendInv, vars, disk, local
  <2> QED
    BY <2>1, <2>2
<1>3. Init => Log!LogInit
  <2> SUFFICES ASSUME Init  PROVE Log!LogInit
    OBVIOUS
  <2>1. Committed = <<>> /\ synced = 0 /\ faults.outside = 0
    BY CommittedFacts DEF Init
  <2>2. PhaseOf(Committed) = "absent"
    BY <2>1, PhaseEmpty DEF Absent
  <2> QED
    BY <2>1, <2>2 DEF Log!LogInit
<1>4. SInv /\ AppendInv /\ [Next]_vars /\ SInv' => [Log!LogNext \/ Joined]_Log!logVars
  <2> SUFFICES ASSUME SInv, AppendInv, [Next]_vars, SInv'
               PROVE  LogMoves \/ UNCHANGED LogState
    BY DEF LogMoves, LogState, Log!logVars
  <2>1. CASE Next
    BY <2>1, LogStep
  <2>2. CASE UNCHANGED vars
    <3>1. Committed' = Committed /\ synced' = synced /\ faults' = faults
      BY <2>2 DEF vars, disk, local, Committed, At, Front
    <3> QED
      BY <3>1, StutterStep
  <2> QED
    BY <2>1, <2>2
<1> QED
  BY <1>1, <1>2, <1>3, <1>4, SidecarInvariance, PTL DEF Spec, LogSpec

-----------------------------------------------------------------------------
(* Staleness.                                                               *)

\* What the first k records say of a node.
HashAt(records, n, k) ==
    IF LastOf(records, n, k) = 0 THEN NoHash ELSE records[LastOf(records, n, k)].hash
DepsAt(records, n, k) ==
    IF LastOf(records, n, k) = 0 THEN {} ELSE records[LastOf(records, n, k)].deps

\* An index says of every node what a sequence of records does.
Tells(r, records) ==
    /\ r \in Index
    /\ \A n \in Nodes : /\ r.hash[n] = HashAt(records, n, Len(records))
                        /\ r.deps[n] = DepsAt(records, n, Len(records))
    /\ r.stale = StaleOf(records)

MineOf(records, n, k) == {i \in 1..k : records[i].node = n}

(* The last record of a node is one of its records. *)
LEMMA LastFacts ==
    ASSUME NEW records, NEW n, NEW k \in Nat
    PROVE  /\ LastOf(records, n, k) \in 0..k
           /\ LastOf(records, n, k) # 0 => records[LastOf(records, n, k)].node = n
<1> DEFINE mine == MineOf(records, n, k)
<1>1. LastOf(records, n, k) =
          IF mine = {} THEN 0 ELSE CHOOSE i \in mine : \A j \in mine : j <= i
  BY DEF LastOf, MineOf
<1>2. mine \in SUBSET (0..k) /\ \A i \in mine : i \in 1..k /\ records[i].node = n
  BY DEF MineOf
<1> HIDE DEF mine
<1>3. mine # {} => \E i \in mine : \A j \in mine : j <= i
  BY <1>2, GreatestOf
<1>4. mine # {} => LastOf(records, n, k) \in mine
  BY <1>1, <1>3
<1>5. mine = {} => LastOf(records, n, k) = 0
  BY <1>1
<1>6. LastOf(records, n, k) \in mine => LastOf(records, n, k) \in 0..k
  BY <1>2
<1> QED
  BY <1>2, <1>4, <1>5, <1>6

(* A record is the last of its node, and of no other. *)
LEMMA LastStep ==
    ASSUME NEW records, NEW n, NEW k \in Nat \ {0}
    PROVE  LastOf(records, n, k) =
               IF records[k].node = n THEN k ELSE LastOf(records, n, k - 1)
<1> DEFINE mine == MineOf(records, n, k)
           Top(M) == CHOOSE i \in M : \A j \in M : j <= i
<1>1. /\ LastOf(records, n, k) = IF mine = {} THEN 0 ELSE Top(mine)
      /\ LastOf(records, n, k - 1) = IF MineOf(records, n, k - 1) = {} THEN 0
                                     ELSE Top(MineOf(records, n, k - 1))
  BY DEF LastOf, MineOf
<1>2. CASE records[k].node = n
  <2>1. k \in mine /\ \A j \in mine : j \in Nat /\ j <= k
    BY <1>2 DEF MineOf
  <2> HIDE DEF mine
  <2>2. Top(mine) \in mine /\ k <= Top(mine)
    BY <2>1
  <2>3. ASSUME NEW i \in mine, k <= i  PROVE i = k
    BY <2>1, <2>3
  <2>4. Top(mine) = k
    BY <2>2, <2>3, Zenon
  <2> QED
    BY <1>1, <1>2, <2>1, <2>4
<1>3. CASE records[k].node # n
  <2>1. mine = MineOf(records, n, k - 1)
    BY <1>3 DEF MineOf
  <2> HIDE DEF mine, Top
  <2> QED
    BY <1>1, <1>3, <2>1
<1> QED
  BY <1>2, <1>3

(* The first k records decide what they say. *)
LEMMA LastSame ==
    ASSUME NEW s, NEW t, NEW k \in Nat, \A i \in 1..k : s[i] = t[i]
    PROVE  \A n : /\ LastOf(s, n, k) = LastOf(t, n, k)
                  /\ HashAt(s, n, k) = HashAt(t, n, k)
                  /\ DepsAt(s, n, k) = DepsAt(t, n, k)
<1> SUFFICES ASSUME NEW n
             PROVE  /\ LastOf(s, n, k) = LastOf(t, n, k)
                    /\ HashAt(s, n, k) = HashAt(t, n, k)
                    /\ DepsAt(s, n, k) = DepsAt(t, n, k)
  OBVIOUS
<1>1. MineOf(s, n, k) = MineOf(t, n, k)
  BY DEF MineOf
<1>2. LastOf(s, n, k) = LastOf(t, n, k)
  <2>1. /\ LastOf(s, n, k) = IF MineOf(s, n, k) = {} THEN 0
                ELSE CHOOSE i \in MineOf(s, n, k) : \A j \in MineOf(s, n, k) : j <= i
        /\ LastOf(t, n, k) = IF MineOf(t, n, k) = {} THEN 0
                ELSE CHOOSE i \in MineOf(t, n, k) : \A j \in MineOf(t, n, k) : j <= i
    BY DEF LastOf, MineOf
  <2> QED
    BY <1>1, <2>1
<1>3. LastOf(t, n, k) # 0 => LastOf(t, n, k) \in 1..k
  BY LastFacts
<1> QED
  BY <1>2, <1>3 DEF HashAt, DepsAt

(* A node depended on that of record k if the loop of Dependents finds it in an
   index that has the dependencies of that time. *)
LEMMA DependedOnFacts ==
    ASSUME NEW r, NEW records, NEW k \in Nat, records[k].node \in Nodes,
           \A m \in Nodes : r.deps[m] = DepsAt(records, m, k)
    PROVE  Dependents(r, {records[k].node}) = {n \in Nodes : DependedOn(records, n, k)}
<1> DEFINE D == Dependents(r, {records[k].node})
<1>1. \A n : DependedOn(records, n, k) <=>
          \A S \in SUBSET Nodes :
              (\A m \in Nodes : DepsAt(records, m, k) \cap (S \cup {records[k].node}) # {}
                                    => m \in S) => n \in S
  BY DEF DependedOn, DepsAt
<1>2. \A S \in SUBSET Nodes :
          (\A m \in Nodes : DepsAt(records, m, k) \cap (S \cup {records[k].node}) # {}
                                => m \in S)
          <=> ClosedOver(r, {records[k].node}, S)
  BY DEF ClosedOver, Direct
<1>3. D \in SUBSET Nodes /\ ClosedOver(r, {records[k].node}, D)
  BY DependentsFacts
<1>4. \A S \in SUBSET Nodes : ClosedOver(r, {records[k].node}, S) => D \subseteq S
  BY DependentsFacts
<1> HIDE DEF D
<1>5. \A n : DependedOn(records, n, k) <=>
          \A S \in SUBSET Nodes : ClosedOver(r, {records[k].node}, S) => n \in S
  BY <1>1, <1>2
<1>6. D = {n \in Nodes : DependedOn(records, n, k)}
  BY <1>3, <1>4, <1>5
<1> QED
  BY <1>6 DEF D

(* What was revised, and what depended on it then, does not change later. *)
LEMMA PastSame ==
    ASSUME NEW s, NEW t, NEW k \in Nat \ {0}, \A i \in 1..k : s[i] = t[i]
    PROVE  /\ Revision(s, k) <=> Revision(t, k)
           /\ \A n : DependedOn(s, n, k) <=> DependedOn(t, n, k)
<1>1. s[k] = t[k] /\ k - 1 \in Nat /\ \A i \in 1..(k - 1) : s[i] = t[i]
  OBVIOUS
<1>2. LastOf(s, s[k].node, k - 1) = LastOf(t, t[k].node, k - 1)
  BY <1>1, LastSame
<1>3. LastOf(t, t[k].node, k - 1) # 0 => LastOf(t, t[k].node, k - 1) \in 1..(k - 1)
  BY <1>1, LastFacts
<1>4. Revision(s, k) <=> Revision(t, k)
  BY <1>1, <1>2, <1>3 DEF Revision
<1>5. \A m : DepsAt(s, m, k) = DepsAt(t, m, k)
  BY LastSame
<1>6. ASSUME NEW n  PROVE DependedOn(s, n, k) <=> DependedOn(t, n, k)
  <2>1. /\ DependedOn(s, n, k) <=> \A S \in SUBSET Nodes :
                (\A m \in Nodes : DepsAt(s, m, k) \cap (S \cup {s[k].node}) # {}
                                      => m \in S) => n \in S
        /\ DependedOn(t, n, k) <=> \A S \in SUBSET Nodes :
                (\A m \in Nodes : DepsAt(t, m, k) \cap (S \cup {t[k].node}) # {}
                                      => m \in S) => n \in S
    BY DEF DependedOn, DepsAt
  <2> QED
    BY <1>1, <1>5, <2>1
<1> QED
  BY <1>4, <1>6

(* A record more makes those stale that depend on its node, if it is a revision. *)
LEMMA StaleStep ==
    ASSUME NEW t \in Seq(Record), NEW e \in Record
    PROVE  StaleOf(Append(t, e)) =
               StaleOf(t) \cup {n \in Nodes : /\ Revision(Append(t, e), Len(t) + 1)
                                              /\ DependedOn(Append(t, e), n, Len(t) + 1)}
<1> DEFINE s == Append(t, e)
           N == Len(t)
<1>1. /\ N \in Nat /\ Len(s) = N + 1 /\ \A i \in 1..N : s[i] = t[i]
  BY LenFacts, AppendFacts
<1> HIDE DEF s, N
<1>2. ASSUME NEW k \in 1..N, NEW n
      PROVE  /\ Revision(s, k) <=> Revision(t, k)
             /\ DependedOn(s, n, k) <=> DependedOn(t, n, k)
  <2>1. k \in Nat \ {0} /\ \A i \in 1..k : s[i] = t[i]
    BY <1>1
  <2> QED
    BY <2>1, PastSame
<1>3. \A k : k \in 1..Len(s) <=> k \in 1..N \/ k = N + 1
  BY <1>1
<1>4. StaleOf(s) = {n \in Nodes : \E k \in 1..Len(s) :
                        Revision(s, k) /\ DependedOn(s, n, k)}
  BY DEF StaleOf
<1>5. StaleOf(t) = {n \in Nodes : \E k \in 1..N :
                        Revision(t, k) /\ DependedOn(t, n, k)}
  BY DEF StaleOf, N
<1>6. StaleOf(s) = StaleOf(t) \cup {n \in Nodes : /\ Revision(s, N + 1)
                                                  /\ DependedOn(s, n, N + 1)}
  BY <1>2, <1>3, <1>4, <1>5
<1> QED
  BY <1>6 DEF s, N

(* What Register does: it notes the record, and what depends on a revised node
   is stale. *)
LEMMA RegisterFacts ==
    ASSUME NEW r \in Index, NEW e \in Record
    PROVE  /\ \A n \in Nodes :
                 /\ Register(r, e).hash[n] = IF n = e.node THEN e.hash ELSE r.hash[n]
                 /\ Register(r, e).deps[n] = IF n = e.node THEN e.deps ELSE r.deps[n]
           /\ Register(r, e).stale = r.stale \cup
                  IF r.hash[e.node] \notin {NoHash, e.hash}
                  THEN Dependents(Register(r, e), {e.node}) ELSE {}
<1> DEFINE then == [r EXCEPT !.hash[e.node] = e.hash, !.deps[e.node] = e.deps]
           D == Dependents(then, {e.node})
<1>1. /\ then \in Index /\ e.node \in Nodes
      /\ \A n \in Nodes : then.hash[n] = IF n = e.node THEN e.hash ELSE r.hash[n]
      /\ \A n \in Nodes : then.deps[n] = IF n = e.node THEN e.deps ELSE r.deps[n]
      /\ then.stale = r.stale
  BY DEF Index, Record
<1>2. Register(r, e) = IF r.hash[e.node] \notin {NoHash, e.hash}
                       THEN [then EXCEPT !.stale = @ \cup D] ELSE then
  BY DEF Register
<1> HIDE DEF then, D
<1>3. [then EXCEPT !.stale = @ \cup D].deps = then.deps
      /\ [then EXCEPT !.stale = @ \cup D].hash = then.hash
      /\ [then EXCEPT !.stale = @ \cup D].stale = then.stale \cup D
  BY <1>1 DEF Index
<1>4. ASSUME NEW x, x.deps = then.deps  PROVE Dependents(x, {e.node}) = D
  BY <1>4 DEF D, Dependents, Direct
<1>5. CASE r.hash[e.node] \notin {NoHash, e.hash}
  <2> DEFINE more == [then EXCEPT !.stale = @ \cup D]
  <2>1. Register(r, e) = more
    BY <1>2, <1>5
  <2>2. more.deps = then.deps /\ more.hash = then.hash /\ more.stale = then.stale \cup D
    BY <1>3
  <2> HIDE DEF more
  <2>3. Dependents(more, {e.node}) = D
    BY <1>4, <2>2
  <2> QED
    BY <1>1, <1>5, <2>1, <2>2, <2>3
<1>6. CASE r.hash[e.node] \in {NoHash, e.hash}
  BY <1>1, <1>2, <1>6
<1> QED
  BY <1>5, <1>6

(* An index that tells what was recorded tells it after one record more ... *)
LEMMA TellsStep ==
    ASSUME NEW r, NEW t \in Seq(Record), Tells(r, t), NEW e \in Record
    PROVE  Tells(Register(r, e), Append(t, e))
<1> DEFINE s == Append(t, e)
           next == Register(r, e)
           N == Len(t)
<1>1. /\ N \in Nat /\ N + 1 \in Nat \ {0} /\ Len(s) = N + 1 /\ s[N + 1] = e
      /\ (N + 1) - 1 = N /\ \A i \in 1..N : s[i] = t[i]
  BY LenFacts, AppendFacts
<1>2. r \in Index /\ e.node \in Nodes /\ e.hash \in Hashes /\ next \in Index
  BY RegisterType DEF Tells, Record
<1>3. /\ \A n \in Nodes :
            /\ next.hash[n] = IF n = e.node THEN e.hash ELSE r.hash[n]
            /\ next.deps[n] = IF n = e.node THEN e.deps ELSE r.deps[n]
      /\ next.stale = r.stale \cup
             IF r.hash[e.node] \notin {NoHash, e.hash}
             THEN Dependents(next, {e.node}) ELSE {}
  BY <1>2, RegisterFacts
<1>4. StaleOf(s) =
          StaleOf(t) \cup {n \in Nodes : Revision(s, N + 1) /\ DependedOn(s, n, N + 1)}
  BY StaleStep
<1> HIDE DEF s, next
<1>5. \A n \in Nodes : /\ r.hash[n] = HashAt(t, n, N) /\ r.deps[n] = DepsAt(t, n, N)
  BY DEF Tells
<1> HIDE DEF N
<1>6. \A n : /\ LastOf(s, n, N) = LastOf(t, n, N)
             /\ HashAt(s, n, N) = HashAt(t, n, N)
             /\ DepsAt(s, n, N) = DepsAt(t, n, N)
  BY <1>1, LastSame
<1>7. \A n : LastOf(s, n, N + 1) = IF n = e.node THEN N + 1 ELSE LastOf(s, n, N)
  <2>1. \A n : LastOf(s, n, N + 1) =
            IF s[N + 1].node = n THEN N + 1 ELSE LastOf(s, n, (N + 1) - 1)
    BY <1>1, LastStep
  <2> QED
    BY <1>1, <2>1
<1>8. ASSUME NEW n \in Nodes
      PROVE  next.hash[n] = HashAt(s, n, N + 1) /\ next.deps[n] = DepsAt(s, n, N + 1)
  <2>1. CASE n = e.node
    BY <1>1, <1>3, <1>7, <2>1 DEF HashAt, DepsAt
  <2>2. CASE n # e.node
    <3>1. HashAt(s, n, N + 1) = HashAt(s, n, N) /\ DepsAt(s, n, N + 1) = DepsAt(s, n, N)
      BY <1>7, <2>2 DEF HashAt, DepsAt
    <3> QED
      BY <1>3, <1>5, <1>6, <2>2, <3>1
  <2> QED
    BY <2>1, <2>2
<1>9. Revision(s, N + 1) <=> r.hash[e.node] \notin {NoHash, e.hash}
  <2>1. Revision(s, N + 1) <=>
            LastOf(s, e.node, N) # 0 /\ s[LastOf(s, e.node, N)].hash # e.hash
    BY <1>1 DEF Revision
  <2>2. r.hash[e.node] = HashAt(s, e.node, N)
    BY <1>2, <1>5, <1>6
  <2>3. LastOf(s, e.node, N) # 0 => s[LastOf(s, e.node, N)].hash \in Hashes
    <3>1. LastOf(s, e.node, N) \in 0..N
      BY <1>1, LastFacts
    <3>2. \A i \in 1..N : s[i] \in Record
      <4>1. \A i \in 1..N : t[i] \in Record
        BY LenFacts DEF N
      <4> QED
        BY <1>1, <4>1
    <3>3. LastOf(s, e.node, N) # 0 => LastOf(s, e.node, N) \in 1..N
      BY <1>1, <3>1
    <3> QED
      BY <3>2, <3>3 DEF Record
  <2> QED
    BY <2>1, <2>2, <2>3, SessionHashes DEF HashAt
<1>10. Dependents(next, {e.node}) = {n \in Nodes : DependedOn(s, n, N + 1)}
  BY <1>1, <1>2, <1>8, DependedOnFacts
<1>11. r.stale = StaleOf(t)
  BY DEF Tells
<1>12. next.stale = StaleOf(s)
  BY <1>3, <1>4, <1>9, <1>10, <1>11
<1>13. Tells(next, s)
  BY <1>1, <1>2, <1>8, <1>12 DEF Tells
<1> QED
  BY <1>13 DEF next, s

(* ... after any number of them ... *)
LEMMA TellsAll ==
    ASSUME NEW r, NEW t \in Seq(Record), Tells(r, t), NEW records \in Seq(Record)
    PROVE  Tells(RegisterAll(r, records), t \o records)
<1>1. r \in Index /\ Len(records) \in Nat
  BY LenFacts DEF Tells
<1>2. PICK f : /\ f \in [0..Len(records) -> Index] /\ f[0] = r
               /\ \A k \in 1..Len(records) : f[k] = Register(f[k - 1], records[k])
               /\ RegisterAll(r, records) = f[Len(records)]
  BY <1>1, RegisterAllFacts
<1> DEFINE T == {k \in 0..Len(records) : Tells(f[k], t \o SubSeq(records, 1, k))}
<1>3. 0 \in T
  <2>1. SubSeq(records, 1, 0) = <<>>
    <3>1. 0 \in 0..Len(records)
      BY <1>1
    <3> QED
      BY <3>1, PrefixFacts, LenFacts
  <2>2. t \o SubSeq(records, 1, 0) = t
    BY <2>1, ConcatEmptySeq
  <2>3. Tells(f[0], t \o SubSeq(records, 1, 0))
    BY <1>2, <2>2
  <2> QED
    BY <1>1, <2>3
<1>4. ASSUME NEW k \in 1..Len(records), k - 1 \in T  PROVE k \in T
  <2> DEFINE u == SubSeq(records, 1, k - 1)
  <2>1. /\ records[k] \in Record /\ u \in Seq(Record)
        /\ SubSeq(records, 1, k) = Append(u, records[k])
    BY SplitLast
  <2>2. Tells(f[k - 1], t \o u) /\ k \in 0..Len(records) /\ f[k] = Register(f[k - 1], records[k])
    BY <1>1, <1>2, <1>4
  <2> HIDE DEF u
  <2>3. t \o u \in Seq(Record) /\ t \o Append(u, records[k]) = Append(t \o u, records[k])
    BY <2>1, ConcatStep, ConcatProperties
  <2>4. Tells(Register(f[k - 1], records[k]), Append(t \o u, records[k]))
    BY <2>1, <2>2, <2>3, TellsStep
  <2>5. Tells(f[k], t \o SubSeq(records, 1, k))
    BY <2>1, <2>2, <2>3, <2>4
  <2> QED
    BY <2>2, <2>5
<1> HIDE DEF T
<1>5. 0..Len(records) \subseteq T
  BY <1>1, <1>3, <1>4, UpTo
<1>6. Len(records) \in T
  BY <1>1, <1>5
<1>7. SubSeq(records, 1, Len(records)) = records
  BY SubSeqFull
<1>8. Tells(f[Len(records)], t \o SubSeq(records, 1, Len(records)))
  BY <1>6 DEF T
<1> QED
  BY <1>2, <1>7, <1>8

(* ... and after an event. *)
LEMMA TellsApply ==
    ASSUME NEW r, NEW t \in Seq(Record), Tells(r, t), NEW e \in Event
    PROVE  Tells(Apply(r, e), t \o e.records)
<1>1. Apply(r, e) \in Index
  BY ApplyType, EventLegible DEF Tells
<1>2. e.records \in Seq(Record) /\ RegisterAll(r, e.records) \in Index
  BY RegisterAllEnds DEF Event, Tells
<1>3. /\ Apply(r, e).hash = RegisterAll(r, e.records).hash
      /\ Apply(r, e).deps = RegisterAll(r, e.records).deps
      /\ Apply(r, e).stale = RegisterAll(r, e.records).stale
  BY <1>2 DEF Apply, Index
<1>4. Tells(RegisterAll(r, e.records), t \o e.records)
  BY <1>2, TellsAll
<1> QED
  BY <1>1, <1>3, <1>4 DEF Tells

(* The records of a journal are those of its events, one after the other. *)
LEMMA RecordsFacts ==
    ASSUME NEW events \in Seq(Event)
    PROVE  \E f : /\ f \in [0..Len(events) -> Seq(Record)]
                  /\ f[0] = <<>>
                  /\ \A k \in 1..Len(events) : f[k] = f[k - 1] \o events[k].records
                  /\ RecordsOf(events) = f[Len(events)]
<1> DEFINE n == Len(events)
           F == [k \in 1..n |-> [x \in Seq(Record) |-> x \o events[k].records]]
           body(f) == [k \in 0..n |-> IF k = 0 THEN <<>> ELSE f[k - 1] \o events[k].records]
           G == CHOOSE f : f = body(f)
<1>1. n \in Nat /\ \A k \in 1..n : events[k].records \in Seq(Record)
  <2>1. n \in Nat /\ \A k \in 1..n : events[k] \in Event
    BY LenFacts
  <2> HIDE DEF n
  <2> QED  BY <2>1 DEF Event
<1>2. F \in [1..n -> [Seq(Record) -> Seq(Record)]]
  <2>1. \A k \in 1..n : \A x \in Seq(Record) : x \o events[k].records \in Seq(Record)
    BY <1>1, ConcatProperties
  <2> HIDE DEF n
  <2> QED  BY <2>1
<1>3. PICK f : Iterated(f, n, Seq(Record), <<>>, F)
  <2>1. <<>> \in Seq(Record) /\ F \in Steps(n, Seq(Record))
    BY <1>2, EmptySeq DEF Steps
  <2> HIDE DEF F, n
  <2> QED  BY <1>1, <2>1, Iterates
<1>4. f = body(f)
  <2> HIDE DEF n
  <2>1. \A k \in 1..n : k - 1 \in 0..n /\ f[k - 1] \in Seq(Record)
    <3>1. f \in [0..n -> Seq(Record)]
      BY <1>3 DEF Iterated
    <3> QED  BY <1>1, <3>1
  <2>2. \A k \in 1..n : f[k] = f[k - 1] \o events[k].records
    BY <1>3, <2>1 DEF Iterated
  <2>3. \A k \in 0..n : k = 0 \/ k \in 1..n
    BY <1>1
  <2> HIDE DEF n
  <2> QED  BY <1>3, <2>2, <2>3 DEF Iterated
<1>5. G = body(G)
  <2> HIDE DEF body
  <2> QED  BY <1>4
<1>6. RecordsOf(events) = G[n]
  BY DEF RecordsOf
<1>7. \A k \in 0..n :
          /\ G[k] = (IF k = 0 THEN <<>> ELSE G[k - 1] \o events[k].records)
          /\ f[k] = (IF k = 0 THEN <<>> ELSE f[k - 1] \o events[k].records)
  BY <1>4, <1>5
<1>8. n \in 0..n /\ 0 \in 0..n /\ \A k \in 1..n : k \in 0..n /\ k # 0
  BY <1>1
<1>9. G[n] = f[n]
  <2> HIDE DEF G, n
  <2>1. G[0] = f[0] /\ \A k \in 1..n : G[k - 1] = f[k - 1] => G[k] = f[k]
    BY <1>7, <1>8
  <2>2. n \in Nat
    BY <1>1
  <2>3. Alike(G, f, n)
    BY <2>1 DEF Alike
  <2>4. \A k \in 0..n : G[k] = f[k]
    BY <2>2, <2>3, SameIterates
  <2> QED  BY <1>8, <2>4
<1>10. f[0] = <<>> /\ f \in [0..n -> Seq(Record)]
  BY <1>3 DEF Iterated
<1>11. \A k \in 1..n : f[k] = f[k - 1] \o events[k].records
  BY <1>7, <1>8
<1> QED  BY <1>6, <1>9, <1>10, <1>11

(* What a replay leads to tells what the journal has recorded. *)
LEMMA ReplayTells ==
    ASSUME NEW events \in Seq(Event)
    PROVE  Tells(Replay(events), RecordsOf(events))
<1>1. Len(events) \in Nat /\ \A k \in 1..Len(events) : events[k] \in Event
  BY LenFacts
<1>2. PICK f : /\ f[0] = Empty
               /\ \A k \in 1..Len(events) : f[k] = Apply(f[k - 1], events[k])
               /\ Replay(events) = f[Len(events)]
  BY ReplayFacts, EventLegible
<1>3. PICK g : /\ g \in [0..Len(events) -> Seq(Record)] /\ g[0] = <<>>
               /\ \A k \in 1..Len(events) : g[k] = g[k - 1] \o events[k].records
               /\ RecordsOf(events) = g[Len(events)]
  BY RecordsFacts
<1> DEFINE T == {k \in 0..Len(events) : Tells(f[k], g[k])}
<1>4. 0 \in T
  <2>1. \A n : LastOf(<<>>, n, 0) = 0
    BY LastFacts
  <2>2. StaleOf(<<>>) = {}
    BY DEF StaleOf
  <2>3. Tells(Empty, <<>>)
    BY <2>1, <2>2, EmptyType DEF Tells, HashAt, DepsAt, Empty
  <2> QED
    BY <1>1, <1>2, <1>3, <2>3
<1>5. ASSUME NEW k \in 1..Len(events), k - 1 \in T  PROVE k \in T
  <2>1. k \in 0..Len(events) /\ k - 1 \in 0..Len(events) /\ events[k] \in Event
        /\ g[k - 1] \in Seq(Record) /\ Tells(f[k - 1], g[k - 1])
    BY <1>1, <1>3, <1>5
  <2>2. Tells(Apply(f[k - 1], events[k]), g[k - 1] \o events[k].records)
    BY <2>1, TellsApply
  <2> QED
    BY <1>2, <1>3, <2>1, <2>2
<1> HIDE DEF T
<1>6. 0..Len(events) \subseteq T
  BY <1>1, <1>4, <1>5, UpTo
<1> QED
  BY <1>1, <1>2, <1>3, <1>6 DEF T

(* A node is stale at least while it has not been recorded since an input of its
   own, or of what it then rested on, was revised; and every stale node depended,
   through any number of others, on one whose content was changed after it had
   been recorded: for any journal. *)
THEOREM StaleCorrect == Spec => []StaleSound
<1>1. TypeOK => StaleSound
  <2> SUFFICES ASSUME TypeOK  PROVE StaleSound
    OBVIOUS
  <2>1. Replay(journal).stale = StaleOf(RecordsOf(journal))
    BY ReplayTells DEF TypeOK, Tells
  <2>2. Outdated(RecordsOf(journal)) \subseteq StaleOf(RecordsOf(journal))
    BY DEF Outdated, StaleOf
  <2> QED
    BY <2>1, <2>2 DEF StaleSound
<1> QED
  BY <1>1, TypeCorrect, PTL

(* More than that: nothing ever leaves the stale set.  It holds every node that
   ever depended on one when that was revised, recorded again since or not. *)
THEOREM StaleForGood == Spec => [](Replay(journal).stale = StaleOf(RecordsOf(journal)))
<1>1. TypeOK => Replay(journal).stale = StaleOf(RecordsOf(journal))
  BY ReplayTells DEF TypeOK, Tells
<1> QED
  BY <1>1, TypeCorrect, PTL

===============================================================================
