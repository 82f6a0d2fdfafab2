------------------------ MODULE SourceRegistry_proofs ------------------------
(***************************************************************************)
(* Theorems about SourceRegistry for any number of threads, sources,       *)
(* handles, faults and nested contexts.                                    *)
(***************************************************************************)
EXTENDS SourceRegistry, SequenceTheorems, TLAPS

(***************************************************************************)
(* The inductive invariant.  Every handle has one place: registered, a     *)
(* candidate, on a cleanup list, or bound to a context.  A reload has its  *)
(* lock from the first candidate to the publication, so that what it has   *)
(* swapped on the connection is what it is about to publish.               *)
(***************************************************************************)

Reloading == {"prepare", "swap", "restore"}
BoundsOf(contexts) == UNION {contexts[i].bound : i \in DOMAIN contexts}
Bounds(self) == BoundsOf(ctx[self])

\* The lock is taken once for every open context and once for a reload.
LockInv ==
    /\ owner = NoThread <=> depth = 0
    /\ \A self \in Threads :
          /\ owner # self => ctx[self] = <<>> /\ pc[self] \in {"idle", "cleanup"}
          /\ owner = self /\ pc[self] \in Reloading => depth = Len(ctx[self]) + 1
          /\ owner = self /\ pc[self] \notin Reloading => depth = Len(ctx[self])
          /\ pc[self] \in {"binding", "fetch"} => ctx[self] # <<>>

\* An open handle of source s, one of those made so far.
OpenHandle(s, h) == h \in live /\ h[1] = s

\* Every handle ever seen has been made.
Known == {h \in Handles : h[2] <= made[h[1]]}
ScopedKnown == {h \in Known : h[1] \in Scoped}

MadeInv ==
    /\ live \subseteq Known
    /\ \A self \in Threads : trash[self] \subseteq Known /\ Bounds(self) \subseteq ScopedKnown
    /\ \A h \in attached : Kind[h[1]] = "database"

\* An open registry serves every source.
RegInv ==
    \A s \in Sources :
        IF closed THEN reg[s] = Nothing
        ELSE IF Kind[s] = "reader" THEN reg[s] = Provider
        ELSE OpenHandle(s, reg[s])

\* The candidates of a reload are newer than what they are to replace.
Prepared(self, s) ==
    /\ pc[self] \in Reloading
    /\ s \in goal[self]
    /\ pc[self] = "prepare" => s \notin todo[self]

Newer(s, h) ==
    IF Kind[s] = "reader" THEN h = Provider ELSE OpenHandle(s, h) /\ reg[s][2] < h[2]

CandOf(self) ==
    /\ pc[self] \in Reloading => ~closed /\ todo[self] \subseteq goal[self]
    /\ pc[self] \notin Reloading => goal[self] = {}
    /\ pc[self] = "binding" => todo[self] \subseteq {s \in Scoped : reg[s] # Nothing}
    /\ \A s \in Sources :
          IF Prepared(self, s) THEN Newer(s, cand[self][s]) ELSE cand[self][s] = Nothing

CandInv == \A self \in Threads : CandOf(self)

\* What is registered or a candidate is on no cleanup list, and bound to nobody.
ApartInv ==
    \A self, t \in Threads : \A s \in Sources :
        /\ reg[s] \notin trash[t] \cup Bounds(t)
        /\ cand[self][s] \notin trash[t] \cup Bounds(t)

\* A query-scoped name resolves to a reader of its own or to nothing; any other
\* to what is registered, or while a reload is at it, to the candidate.
ScopedConnInv ==
    \A s \in Scoped : conn[s] # Nothing =>
        /\ OpenHandle(s, conn[s])
        /\ conn[s] # reg[s]
        /\ \A t \in Threads : conn[s] # cand[t][s] /\ conn[s] \notin trash[t]

SwappedBy(self, s) ==
    /\ s \in goal[self]
    /\ \/ pc[self] = "swap" /\ s \notin todo[self]
       \/ pc[self] = "restore" /\ s \in todo[self]
    /\ conn[s] = cand[self][s]

ConnInv ==
    lost = 0 => \A s \in Persistent :
        /\ conn[s] = reg[s] \/ \E self \in Threads : SwappedBy(self, s)
        /\ \A self \in Threads : pc[self] = "swap" /\ s \in goal[self] \ todo[self] =>
              conn[s] = cand[self][s]

IInv ==
    /\ TypeOK /\ LockInv /\ MadeInv /\ RegInv /\ CandInv /\ ApartInv
    /\ ScopedConnInv /\ ConnInv /\ NoLeak

\* Without contexts inside one another, a name bound to a query stays bound.
BoundInv ==
    \A self \in Threads :
        /\ Len(ctx[self]) <= 1
        /\ pc[self] = "binding" => \A h \in Bounds(self) : h[1] \notin todo[self]
        /\ ~closed => \A h \in Bounds(self) : conn[h[1]] = h

\* A reader has been opened for a scan of the thread.
StreamOpen(self) ==
    \E i \in DOMAIN ctx[self] :
        /\ ctx[self][i].stream = "reader"
        /\ pc[self] = "binding" => i < Len(ctx[self])

\* The result on the connection is of the thread that has the lock, which is
\* about to fetch it or has a reader open on it.
ResultInv ==
    /\ result # Other /\ attached = {}
    /\ \A self \in Threads :
          /\ answer[self] \in {self, NoThread}
          /\ result = self => pc[self] = "fetch" \/ StreamOpen(self)

-----------------------------------------------------------------------------
(* What the operations on a thread's contexts do to the handles bound there. *)

(* A new context adds what it binds and leaves those below it as they are. *)
LEMMA PushContext ==
    ASSUME NEW q \in Seq(Context), NEW c \in Context
    PROVE  /\ Append(q, c) \in Seq(Context)
           /\ Append(q, c) # <<>>
           /\ Len(Append(q, c)) = Len(q) + 1
           /\ BoundsOf(Append(q, c)) = BoundsOf(q) \cup c.bound
           /\ \A i \in DOMAIN q : Append(q, c)[i] = q[i]
<1> DEFINE r == Append(q, c)
<1>1. /\ r \in Seq(Context) /\ r # <<>> /\ Len(r) = Len(q) + 1
      /\ \A i \in 1..Len(q) : r[i] = q[i]
      /\ r[Len(q) + 1] = c
  BY AppendProperties
<1>2. Len(q) \in Nat /\ DOMAIN q = 1..Len(q) /\ DOMAIN r = 1..(Len(q) + 1)
  BY <1>1, LenProperties
<1>3. BoundsOf(r) = BoundsOf(q) \cup c.bound
  <2>1. BoundsOf(r) \subseteq BoundsOf(q) \cup c.bound
    <3> SUFFICES ASSUME NEW i \in DOMAIN r PROVE r[i].bound \subseteq BoundsOf(q) \cup c.bound
      BY DEF BoundsOf
    <3>1. i \in DOMAIN q \/ i = Len(q) + 1
      BY <1>2
    <3> QED  BY <3>1, <1>1, <1>2 DEF BoundsOf
  <2>2. BoundsOf(q) \subseteq BoundsOf(r)
    <3> SUFFICES ASSUME NEW i \in DOMAIN q PROVE q[i].bound \subseteq BoundsOf(r)
      BY DEF BoundsOf
    <3>1. i \in DOMAIN r /\ r[i] = q[i]
      BY <1>1, <1>2
    <3> QED  BY <3>1 DEF BoundsOf
  <2>3. Len(q) + 1 \in DOMAIN r
    BY <1>2
  <2>4. c.bound \subseteq BoundsOf(r)
    BY <1>1, <2>3 DEF BoundsOf
  <2> QED  BY <2>1, <2>2, <2>4
<1> QED  BY <1>1, <1>2, <1>3

(* Without its last context a thread holds what the ones below bind. *)
LEMMA PopContext ==
    ASSUME NEW q \in Seq(Context), q # <<>>
    PROVE  /\ SubSeq(q, 1, Len(q) - 1) \in Seq(Context)
           /\ Len(q) > 0
           /\ Len(SubSeq(q, 1, Len(q) - 1)) = Len(q) - 1
           /\ BoundsOf(q) = BoundsOf(SubSeq(q, 1, Len(q) - 1)) \cup q[Len(q)].bound
           /\ \A i \in 1..(Len(q) - 1) : SubSeq(q, 1, Len(q) - 1)[i] = q[i]
<1> DEFINE r == SubSeq(q, 1, Len(q) - 1)
<1>1. Len(q) \in Nat \ {0} /\ DOMAIN q = 1..Len(q) /\ \A i \in 1..Len(q) : q[i] \in Context
  BY LenProperties, EmptySeq, ElementOfSeq
<1>2. /\ r \in Seq(Context)
      /\ Len(r) = Len(q) - 1
      /\ \A i \in 1..(Len(q) - 1) : r[i] = q[i]
  <2>1. /\ SubSeq(q, 1, Len(q) - 1) \in Seq(Context)
        /\ Len(SubSeq(q, 1, Len(q) - 1)) =
              IF 1 <= Len(q) - 1 THEN Len(q) - 1 - 1 + 1 ELSE 0
        /\ \A i \in 1..(Len(q) - 1 - 1 + 1) :
              SubSeq(q, 1, Len(q) - 1)[i] = q[1 + i - 1]
    BY <1>1, SubSeqProperties
  <2> QED  BY <1>1, <2>1
<1>3. DOMAIN r = 1..(Len(q) - 1)
  BY <1>2, LenProperties
<1>4. BoundsOf(q) = BoundsOf(r) \cup q[Len(q)].bound
  <2>1. BoundsOf(q) \subseteq BoundsOf(r) \cup q[Len(q)].bound
    <3> SUFFICES ASSUME NEW i \in DOMAIN q
                 PROVE  q[i].bound \subseteq BoundsOf(r) \cup q[Len(q)].bound
      BY DEF BoundsOf
    <3>1. i \in DOMAIN r \/ i = Len(q)
      BY <1>1, <1>3
    <3> QED  BY <3>1, <1>2, <1>3 DEF BoundsOf
  <2>2. BoundsOf(r) \subseteq BoundsOf(q)
    <3> SUFFICES ASSUME NEW i \in DOMAIN r PROVE r[i].bound \subseteq BoundsOf(q)
      BY DEF BoundsOf
    <3>1. i \in DOMAIN q /\ r[i] = q[i]
      BY <1>1, <1>2, <1>3
    <3> QED  BY <3>1 DEF BoundsOf
  <2>3. q[Len(q)].bound \subseteq BoundsOf(q)
    BY <1>1 DEF BoundsOf
  <2> QED  BY <2>1, <2>2, <2>3
<1> QED  BY <1>1, <1>2, <1>4

(* A change of the last context that only adds handles changes nothing below it. *)
LEMMA SetTop ==
    ASSUME NEW q \in Seq(Context), q # <<>>, NEW c \in Context,
           q[Len(q)].bound \subseteq c.bound
    PROVE  /\ [q EXCEPT ![Len(q)] = c] \in Seq(Context)
           /\ Len([q EXCEPT ![Len(q)] = c]) = Len(q)
           /\ [q EXCEPT ![Len(q)] = c] # <<>>
           /\ BoundsOf([q EXCEPT ![Len(q)] = c]) = BoundsOf(q) \cup c.bound
           /\ \A i \in DOMAIN q :
                 [q EXCEPT ![Len(q)] = c][i] = IF i = Len(q) THEN c ELSE q[i]
<1> DEFINE r == [q EXCEPT ![Len(q)] = c]
<1>1. Len(q) \in Nat \ {0} /\ DOMAIN q = 1..Len(q)
  BY LenProperties, EmptySeq
<1>2. /\ r \in Seq(Context) /\ Len(r) = Len(q)
      /\ \A j \in 1..Len(q) : r[j] = IF j = Len(q) THEN c ELSE q[j]
  BY <1>1, ExceptSeq
<1>3. DOMAIN r = DOMAIN q /\ r # <<>>
  BY <1>1, <1>2, LenProperties, EmptySeq
<1>4. BoundsOf(r) = BoundsOf(q) \cup c.bound
  <2>1. BoundsOf(r) \subseteq BoundsOf(q) \cup c.bound
    <3> SUFFICES ASSUME NEW i \in DOMAIN q PROVE r[i].bound \subseteq BoundsOf(q) \cup c.bound
      BY <1>3 DEF BoundsOf
    <3> QED  BY <1>1, <1>2 DEF BoundsOf
  <2>2. BoundsOf(q) \subseteq BoundsOf(r)
    <3> SUFFICES ASSUME NEW i \in DOMAIN q PROVE q[i].bound \subseteq BoundsOf(r)
      BY DEF BoundsOf
    <3>1. q[i].bound \subseteq r[i].bound
      BY <1>1, <1>2
    <3> QED  BY <1>3, <3>1 DEF BoundsOf
  <2>3. Len(q) \in DOMAIN r /\ r[Len(q)] = c
    BY <1>1, <1>2, <1>3
  <2>4. c.bound \subseteq BoundsOf(r)
    BY <2>3 DEF BoundsOf
  <2> QED  BY <2>1, <2>2, <2>4
<1> QED  BY <1>1, <1>2, <1>3, <1>4

(* A context is opened with nothing bound, on top of those the thread has. *)
LEMMA OpensStep ==
    ASSUME TypeOK, NEW self \in Threads, NEW S \in SUBSET Sources, NEW stream \in Streams,
           Opens(self, S, stream)
    PROVE  /\ ctx' \in [Threads -> Seq(Context)]
           /\ ctx'[self] # <<>>
           /\ Len(ctx'[self]) = Len(ctx[self]) + 1
           /\ \A i \in DOMAIN ctx[self] : ctx'[self][i] = ctx[self][i]
           /\ \A t \in Threads : Bounds(t)' = Bounds(t)
           /\ \A t \in Threads \ {self} : ctx'[t] = ctx[t]
<1> DEFINE c == [srcs |-> S, bound |-> {}, stream |-> stream]
<1>1. c \in Context /\ c.bound = {}
  BY DEF Context
<1>2. ctx \in [Threads -> Seq(Context)] /\ ctx' = [ctx EXCEPT ![self] = Append(@, c)]
  BY DEF TypeOK, Opens
<1>3. /\ Append(ctx[self], c) \in Seq(Context)
      /\ Append(ctx[self], c) # <<>>
      /\ Len(Append(ctx[self], c)) = Len(ctx[self]) + 1
      /\ BoundsOf(Append(ctx[self], c)) = BoundsOf(ctx[self]) \cup c.bound
      /\ \A i \in DOMAIN ctx[self] : Append(ctx[self], c)[i] = ctx[self][i]
  BY <1>1, <1>2, PushContext
<1> HIDE DEF c
<1>4. ctx'[self] = Append(ctx[self], c) /\ \A t \in Threads \ {self} : ctx'[t] = ctx[t]
  BY <1>2
<1>5. \A t \in Threads : BoundsOf(ctx'[t]) = BoundsOf(ctx[t])
  BY <1>1, <1>3, <1>4
<1>6. ctx' \in [Threads -> Seq(Context)]
  BY <1>2, <1>3
<1> QED  BY <1>3, <1>4, <1>5, <1>6 DEF Bounds

(* What the last context binds is bound by its thread, to names of sources. *)
LEMMA TopBound ==
    ASSUME TypeOK, NEW self \in Threads, ctx[self] # <<>>
    PROVE  /\ Top(self) \in Context
           /\ Top(self).bound \subseteq Bounds(self)
           /\ Top(self).bound \subseteq Handles
           /\ BoundNames(self) \subseteq Sources
           /\ Len(ctx[self]) \in DOMAIN ctx[self]
<1>1. ctx[self] \in Seq(Context)
  BY DEF TypeOK
<1>2. Len(ctx[self]) \in 1..Len(ctx[self]) /\ DOMAIN ctx[self] = 1..Len(ctx[self])
  BY <1>1, LenProperties, EmptySeq
<1>3. Top(self) \in Context
  BY <1>1, <1>2, ElementOfSeq DEF Top
<1>4. Top(self).bound \subseteq Handles
  BY <1>3 DEF Context
<1>5. Top(self).bound \subseteq Bounds(self)
  BY <1>2 DEF Bounds, BoundsOf, Top
<1>6. BoundNames(self) \subseteq Sources
  BY <1>4 DEF BoundNames, Handles
<1> QED  BY <1>2, <1>3, <1>4, <1>5, <1>6

\* Whichever way a context is left, its names and its readers go with it.
Leaves(self, names) ==
    /\ BoundNames(self) \subseteq names
    /\ ctx[self] # <<>>
    /\ Unbind(self, names)
    /\ pc[self] \in {"idle", "binding"}
    /\ result' \in {result, NoThread}
    /\ lost' = lost /\ faults' \in Nat
    /\ UNCHANGED <<table, attached, made, goal, cand, trash, answer>>

(* A failed binding, a failed scan and the end of a context are the same step out. *)
LEMMA LeavesStep ==
    ASSUME TypeOK, LockInv, NEW self \in Threads,
           BindFails(self) \/ ScanFails(self) \/ EndBind(self)
    PROVE  \E names \in SUBSET Sources : Leaves(self, names)
<1>1. CASE BindFails(self)
  <2>1. PICK s \in Sources : BindFails(self)!(s)
    BY <1>1 DEF BindFails
  <2>2. ctx[self] # <<>> /\ pc[self] = "binding"
    BY <2>1 DEF Binds, At, LockInv
  <2>3. BoundNames(self) \cup {s} \in SUBSET Sources
    BY <2>2, TopBound
  <2>4. Leaves(self, BoundNames(self) \cup {s})
    BY <2>1, <2>2 DEF Leaves, Fault, TypeOK, bad
  <2> QED  BY <2>3, <2>4
<1>2. CASE ScanFails(self)
  <2>1. ctx[self] # <<>> /\ pc[self] = "binding"
    BY <1>2 DEF ScanFails, At, LockInv
  <2>2. Leaves(self, BoundNames(self))
    BY <1>2, <2>1 DEF ScanFails, Leaves, Fault, TypeOK, bad
  <2> QED  BY <2>1, <2>2, TopBound
<1>3. CASE EndBind(self)
  <2>1. ctx[self] # <<>> /\ pc[self] = "idle"
    BY <1>3 DEF EndBind, At
  <2>2. Leaves(self, BoundNames(self))
    BY <1>3, <2>1 DEF EndBind, Leaves, TypeOK, bad
  <2> QED  BY <2>1, <2>2, TopBound
<1> QED  BY <1>1, <1>2, <1>3

(* That step takes one context off and gives up no more than what it bound. *)
LEMMA LeavesContext ==
    ASSUME TypeOK, NEW self \in Threads, NEW names, Leaves(self, names)
    PROVE  /\ ctx' \in [Threads -> Seq(Context)]
           /\ Len(ctx[self]) > 0
           /\ Len(ctx'[self]) = Len(ctx[self]) - 1
           /\ \A i \in 1..(Len(ctx[self]) - 1) : ctx'[self][i] = ctx[self][i]
           /\ Bounds(self) = Bounds(self)' \cup Top(self).bound
           /\ \A t \in Threads : Bounds(t)' \subseteq Bounds(t)
           /\ \A t \in Threads \ {self} : ctx'[t] = ctx[t]
<1>1. /\ ctx \in [Threads -> Seq(Context)] /\ ctx[self] # <<>>
      /\ ctx' = [ctx EXCEPT ![self] = SubSeq(@, 1, Len(@) - 1)]
  BY DEF TypeOK, Leaves, Unbind, Pop
<1> DEFINE q == ctx[self]
           r == SubSeq(q, 1, Len(q) - 1)
<1>2. /\ r \in Seq(Context) /\ Len(q) > 0 /\ Len(r) = Len(q) - 1
      /\ BoundsOf(q) = BoundsOf(r) \cup q[Len(q)].bound
      /\ \A i \in 1..(Len(q) - 1) : r[i] = q[i]
  BY <1>1, PopContext
<1>3. ctx'[self] = r /\ \A t \in Threads \ {self} : ctx'[t] = ctx[t]
  BY <1>1
<1>4. ctx' \in [Threads -> Seq(Context)]
  BY <1>1, <1>2
<1> HIDE DEF r
<1>5. \A t \in Threads : BoundsOf(ctx'[t]) \subseteq BoundsOf(ctx[t])
  BY <1>2, <1>3
<1> QED  BY <1>2, <1>3, <1>4, <1>5 DEF Bounds, Top

(* A binding adds one name with its handle to the last context. *)
LEMMA BindContext ==
    ASSUME TypeOK, LockInv, NEW self \in Threads, NEW s \in Sources,
           BindSource(self)!(s)
    PROVE  /\ ctx' \in [Threads -> Seq(Context)]
           /\ ctx[self] # <<>> /\ ctx'[self] # <<>>
           /\ Len(ctx'[self]) = Len(ctx[self])
           /\ \A i \in DOMAIN ctx[self] : ctx'[self][i].stream = ctx[self][i].stream
           /\ DOMAIN ctx'[self] = DOMAIN ctx[self]
           /\ Bounds(self)' = Bounds(self) \cup {Fresh(s)}
           /\ \A t \in Threads \ {self} : ctx'[t] = ctx[t]
           /\ Fresh(s) \in Handles
<1> DEFINE q == ctx[self]
           c == [Top(self) EXCEPT !.bound = @ \cup {Fresh(s)}]
<1>1. q \in Seq(Context) /\ q # <<>> /\ ctx \in [Threads -> Seq(Context)]
  BY DEF TypeOK, LockInv, BindSource, Binds, At
<1>2. Fresh(s) \in Handles
  BY DEF Fresh, Handles, TypeOK
<1>3. Top(self) \in Context /\ Len(q) \in DOMAIN q /\ Top(self) = q[Len(q)]
  BY <1>1, TopBound DEF Top
<1>4. /\ c \in Context /\ c.bound = Top(self).bound \cup {Fresh(s)}
      /\ c.stream = Top(self).stream
  BY <1>2, <1>3 DEF Context
<1>5. ctx' = [ctx EXCEPT ![self] = [q EXCEPT ![Len(q)] = c]]
  BY <1>1, <1>3 DEF BindSource, Top
<1> HIDE DEF c
<1>6. /\ [q EXCEPT ![Len(q)] = c] \in Seq(Context)
      /\ Len([q EXCEPT ![Len(q)] = c]) = Len(q)
      /\ [q EXCEPT ![Len(q)] = c] # <<>>
      /\ BoundsOf([q EXCEPT ![Len(q)] = c]) = BoundsOf(q) \cup c.bound
      /\ \A i \in DOMAIN q :
            [q EXCEPT ![Len(q)] = c][i] = IF i = Len(q) THEN c ELSE q[i]
  BY <1>1, <1>3, <1>4, SetTop
<1>7. /\ ctx'[self] = [q EXCEPT ![Len(q)] = c]
      /\ \A t \in Threads \ {self} : ctx'[t] = ctx[t]
      /\ ctx' \in [Threads -> Seq(Context)]
  BY <1>1, <1>5, <1>6
<1>8. \A i \in DOMAIN q : ctx'[self][i].stream = q[i].stream
  BY <1>3, <1>4, <1>6, <1>7
<1>9. BoundsOf(ctx'[self]) = BoundsOf(q) \cup {Fresh(s)}
  <2>1. Top(self).bound \subseteq BoundsOf(q)
    BY <1>1, TopBound DEF Bounds
  <2> QED  BY <1>4, <1>6, <1>7, <2>1
<1> QED  BY <1>1, <1>2, <1>6, <1>7, <1>8, <1>9 DEF Bounds

(* A cancelled scan changes its own stream and nothing below it. *)
LEMMA CancelContext ==
    ASSUME TypeOK, NEW self \in Threads, CancelScan(self)
    PROVE  /\ ctx' \in [Threads -> Seq(Context)]
           /\ ctx[self] # <<>> /\ ctx'[self] # <<>>
           /\ Len(ctx'[self]) = Len(ctx[self])
           /\ \A i \in DOMAIN ctx[self] : i # Len(ctx[self]) =>
                  ctx'[self][i] = ctx[self][i]
           /\ DOMAIN ctx'[self] = DOMAIN ctx[self]
           /\ \A t \in Threads : Bounds(t)' = Bounds(t)
           /\ \A t \in Threads \ {self} : ctx'[t] = ctx[t]
<1> DEFINE q == ctx[self]
           c == [Top(self) EXCEPT !.stream = "cancelled"]
<1>1. q \in Seq(Context) /\ q # <<>> /\ ctx \in [Threads -> Seq(Context)]
  BY DEF TypeOK, CancelScan, Scans
<1>3. Top(self) \in Context /\ Len(q) \in DOMAIN q /\ Top(self) = q[Len(q)]
  BY <1>1, TopBound DEF Top
<1>4. c \in Context /\ c.bound = Top(self).bound
  BY <1>3 DEF Context, Streams
<1>5. ctx' = [ctx EXCEPT ![self] = [q EXCEPT ![Len(q)] = c]]
  BY <1>1, <1>3 DEF CancelScan, Top
<1> HIDE DEF c
<1>6. /\ [q EXCEPT ![Len(q)] = c] \in Seq(Context)
      /\ Len([q EXCEPT ![Len(q)] = c]) = Len(q)
      /\ [q EXCEPT ![Len(q)] = c] # <<>>
      /\ BoundsOf([q EXCEPT ![Len(q)] = c]) = BoundsOf(q) \cup c.bound
      /\ \A i \in DOMAIN q :
            [q EXCEPT ![Len(q)] = c][i] = IF i = Len(q) THEN c ELSE q[i]
  BY <1>1, <1>3, <1>4, SetTop
<1>7. /\ ctx'[self] = [q EXCEPT ![Len(q)] = c]
      /\ \A t \in Threads \ {self} : ctx'[t] = ctx[t]
      /\ ctx' \in [Threads -> Seq(Context)]
  BY <1>1, <1>5, <1>6
<1>8. \A t \in Threads : BoundsOf(ctx'[t]) = BoundsOf(ctx[t])
  <2>1. Top(self).bound \subseteq BoundsOf(q)
    BY <1>1, TopBound DEF Bounds
  <2> QED  BY <1>4, <1>6, <1>7, <2>1
<1> QED  BY <1>1, <1>6, <1>7, <1>8 DEF Bounds

-----------------------------------------------------------------------------
(* The invariant is kept.                                                   *)

(* A thread without the lock has no context and is in no reload. *)
LEMMA OwnerOnly ==
    ASSUME TypeOK, LockInv, NEW t \in Threads
    PROVE  /\ Len(ctx[t]) \in Nat
           /\ Len(ctx[t]) = 0 <=> ctx[t] = <<>>
           /\ owner # t => /\ ctx[t] = <<>> /\ Bounds(t) = {}
                            /\ pc[t] \in {"idle", "cleanup"}
<1>1. ctx[t] \in Seq(Context)
  BY DEF TypeOK
<1>2. Len(ctx[t]) \in Nat /\ (Len(ctx[t]) = 0 <=> ctx[t] = <<>>)
  BY <1>1, LenProperties, EmptySeq
<1>3. ctx[t] = <<>> => Bounds(t) = {}
  BY DEF Bounds, BoundsOf
<1> QED  BY <1>2, <1>3 DEF LockInv

(* The end of a reload gives its share of the lock back. *)
LEMMA ReloadLeaves ==
    ASSUME TypeOK, LockInv, NEW self \in Threads, pc[self] \in Reloading,
           Leave(self), Goto(self, "cleanup"), ctx' = ctx
    PROVE  LockInv'
<1>1. owner = self /\ self # NoThread
  BY RegistrySentinels DEF LockInv, Reloading
<1>2. depth = Len(ctx[self]) + 1 /\ Len(ctx[self]) \in Nat
  BY <1>1, OwnerOnly DEF LockInv
<1>3. /\ depth' = depth - 1 /\ owner' = IF depth = 1 THEN NoThread ELSE owner
      /\ pc'[self] = "cleanup" /\ \A t \in Threads \ {self} : pc'[t] = pc[t]
  BY DEF Leave, Goto, TypeOK
<1>4. \A t \in Threads \ {self} : ctx[t] = <<>> /\ pc[t] \in {"idle", "cleanup"}
  BY <1>1 DEF LockInv
<1>5. CASE depth = 1
  <2>1. ctx[self] = <<>>
    BY <1>2, <1>5, OwnerOnly
  <2>2. owner' = NoThread /\ depth' = 0
    BY <1>3, <1>5
  <2> QED  BY <1>3, <1>4, <2>1, <2>2, RegistrySentinels DEF LockInv
<1>6. CASE depth # 1
  <2>1. owner' = self /\ depth' = Len(ctx[self]) /\ depth' # 0
    BY <1>1, <1>2, <1>3, <1>6
  <2> QED  BY <1>1, <1>3, <1>4, <2>1 DEF LockInv, Reloading
<1> QED  BY <1>5, <1>6

(* Every way into the lock counts up, every way out counts down. *)
LEMMA LockStep ==
    ASSUME TypeOK, LockInv, [Next]_vars
    PROVE  LockInv'
<1> USE RegistrySentinels DEF TypeOK, LockInv, Reloading, At, Goto, rlock, table, duck, pool, job, bad
<1>1. CASE UNCHANGED vars
  BY <1>1 DEF vars, rlock, table, duck, pool, job, bad
<1>2. ASSUME NEW self \in Threads, BeginReload(self)  PROVE LockInv'
  BY <1>2 DEF BeginReload, Enter
<1>3. ASSUME NEW self \in Threads, PrepareCandidate(self)  PROVE LockInv'
  BY <1>3 DEF PrepareCandidate, Prepares, Fresh, Kept, Handles
<1>4. ASSUME NEW self \in Threads, PrepareFails(self)  PROVE LockInv'
  <2>1. /\ depth' = depth - 1 /\ owner' = IF depth = 1 THEN NoThread ELSE owner
        /\ pc[self] = "prepare" /\ pc' = [pc EXCEPT ![self] = "cleanup"]
        /\ ctx' = ctx
    BY <1>4 DEF PrepareFails, Prepares, GiveUp, Leave
  <2> QED  BY <2>1, ReloadLeaves DEF Leave
<1>5. ASSUME NEW self \in Threads, BeginSwap(self)  PROVE LockInv'
  BY <1>5 DEF BeginSwap
<1>6. ASSUME NEW self \in Threads, SwapCandidate(self)  PROVE LockInv'
  BY <1>6 DEF SwapCandidate, Swaps, Registers
<1>7. ASSUME NEW self \in Threads, SwapFails(self)  PROVE LockInv'
  BY <1>7 DEF SwapFails, Swaps, Fault
<1>8. ASSUME NEW self \in Threads, RestoreOld(self)  PROVE LockInv'
  BY <1>8 DEF RestoreOld, Registers
<1>9. ASSUME NEW self \in Threads, RestoreLost(self)  PROVE LockInv'
  BY <1>9 DEF RestoreLost
<1>10. ASSUME NEW self \in Threads, AbortReload(self)  PROVE LockInv'
  BY <1>10, ReloadLeaves DEF AbortReload, GiveUp
<1>11. ASSUME NEW self \in Threads, PublishReload(self)  PROVE LockInv'
  BY <1>11, ReloadLeaves DEF PublishReload, GiveUp
<1>12. ASSUME NEW self \in Threads, CloseReplaced(self)  PROVE LockInv'
  BY <1>12 DEF CloseReplaced
<1>13. ASSUME NEW self \in Threads, EndReload(self)  PROVE LockInv'
  BY <1>13 DEF EndReload
<1>14. ASSUME NEW self \in Threads, Close(self)  PROVE LockInv'
  BY <1>14 DEF Close, None
<1>15. ASSUME NEW self \in Threads, BeginBind(self) \/ BeginScan(self)  PROVE LockInv'
  <2>1. PICK S \in SUBSET Sources, stream \in Streams : Opens(self, S, stream)
    BY <1>15 DEF BeginBind, BeginScan, Streams
  <2>2. /\ ctx'[self] # <<>> /\ Len(ctx'[self]) = Len(ctx[self]) + 1
        /\ \A t \in Threads \ {self} : ctx'[t] = ctx[t]
    BY <2>1, OpensStep
  <2>3. /\ owner \in {NoThread, self} /\ owner' = self /\ depth' = depth + 1
        /\ pc[self] = "idle" /\ pc' = [pc EXCEPT ![self] = "binding"]
    BY <2>1 DEF Opens, Enter
  <2>4. Len(ctx[self]) = depth
    BY <2>3, OwnerOnly
  <2> QED  BY <2>2, <2>3, <2>4
<1>16. ASSUME NEW self \in Threads, BindSource(self)  PROVE LockInv'
  <2>1. PICK s \in Sources : BindSource(self)!(s)
    BY <1>16 DEF BindSource
  <2>2. /\ ctx'[self] # <<>> /\ Len(ctx'[self]) = Len(ctx[self])
        /\ \A t \in Threads \ {self} : ctx'[t] = ctx[t]
    BY <2>1, BindContext
  <2> QED  BY <2>1, <2>2 DEF Binds
<1>17. ASSUME NEW self \in Threads, BindFails(self) \/ ScanFails(self) \/ EndBind(self)  PROVE LockInv'
  <2>1. PICK names \in SUBSET Sources : Leaves(self, names)
    BY <1>17, LeavesStep
  <2>2. /\ Len(ctx[self]) > 0 /\ Len(ctx'[self]) = Len(ctx[self]) - 1
        /\ \A t \in Threads \ {self} : ctx'[t] = ctx[t]
    BY <2>1, LeavesContext
  <2>3. /\ depth' = depth - 1 /\ owner' = IF depth = 1 THEN NoThread ELSE owner
        /\ pc[self] \notin Reloading /\ pc' = [pc EXCEPT ![self] = "idle"]
    BY <2>1 DEF Leaves, Unbind, Leave
  <2>4. owner = self /\ Len(ctx[self]) = depth
    BY <2>2, <2>3, OwnerOnly
  <2>5. Len(ctx'[self]) = 0 => ctx'[self] = <<>>
    BY <2>1, LeavesContext, EmptySeq
  <2> QED  BY <2>2, <2>3, <2>4, <2>5
<1>18. ASSUME NEW self \in Threads, BindDone(self)  PROVE LockInv'
  BY <1>18 DEF BindDone
<1>19. ASSUME NEW self \in Threads, ExecuteQuery(self)  PROVE LockInv'
  BY <1>19 DEF ExecuteQuery
<1>20. ASSUME NEW self \in Threads, FetchResult(self)  PROVE LockInv'
  BY <1>20 DEF FetchResult
<1>21. ASSUME NEW self \in Threads, ReadBatch(self)  PROVE LockInv'
  BY <1>21 DEF ReadBatch, Scans
<1>22. ASSUME NEW self \in Threads, Recheck(self)  PROVE LockInv'
  BY <1>22 DEF Recheck, Scans, Fresh, Handles
<1>23. ASSUME NEW self \in Threads, CancelScan(self)  PROVE LockInv'
  <2>1. /\ ctx'[self] # <<>> /\ Len(ctx'[self]) = Len(ctx[self])
        /\ \A t \in Threads \ {self} : ctx'[t] = ctx[t]
    BY <1>23, CancelContext
  <2> QED  BY <1>23, <2>1 DEF CancelScan, Scans
<1> QED
    BY <1>1, <1>2, <1>3, <1>4, <1>5, <1>6, <1>7, <1>8, <1>9, <1>10, <1>11, <1>12, <1>13, <1>14, <1>15, <1>16, <1>17, <1>18, <1>19, <1>20, <1>21, <1>22, <1>23
     DEF Next, Step, Reload, Binding

(* The next handle of a source is a handle, with the next number. *)
LEMMA FreshHandle ==
    ASSUME TypeOK, NEW s \in Sources
    PROVE  /\ Fresh(s) \in Handles /\ Fresh(s)[1] = s /\ Fresh(s)[2] = made[s] + 1
           /\ made[s] \in Nat
BY DEF Fresh, Handles, TypeOK

(* The lock keeps its type when its owner goes down one level. *)
LEMMA LeaveType ==
    ASSUME TypeOK, LockInv, owner # NoThread, Leave(owner)
    PROVE  owner' \in Threads \cup {NoThread} /\ depth' \in Nat
<1>1. depth \in Nat /\ depth # 0
  BY DEF TypeOK, LockInv
<1> QED  BY <1>1 DEF Leave, TypeOK

(* A reload that ends early keeps the types of all it writes. *)
LEMMA GiveUpType ==
    ASSUME TypeOK, LockInv, NEW self \in Threads, NEW more \in SUBSET Handles,
           pc[self] \in Reloading, GiveUp(self, more)
    PROVE  /\ owner' \in Threads \cup {NoThread} /\ depth' \in Nat
           /\ trash' \in [Threads -> SUBSET Handles]
           /\ todo' \in [Threads -> SUBSET Sources]
           /\ goal' \in [Threads -> SUBSET Sources]
           /\ cand' \in [Threads -> [Sources -> Slot]]
           /\ pc' \in [Threads -> Points]
<1>1. owner # NoThread /\ Leave(owner)
  BY RegistrySentinels DEF GiveUp, Leave, LockInv, Reloading
<1>2. owner' \in Threads \cup {NoThread} /\ depth' \in Nat
  BY <1>1, LeaveType
<1>3. None \in [Sources -> Slot]
  BY DEF None, Slot
<1> QED  BY <1>2, <1>3 DEF GiveUp, TypeOK, Goto, Points

(* Every step keeps every variable in its type. *)
LEMMA TypeStep ==
    ASSUME TypeOK, LockInv, MadeInv, RegInv, CandInv, [Next]_vars
    PROVE  TypeOK'
<1> USE RegistryKinds, RegistryNumbers DEF TypeOK, At, Goto, rlock, table, duck, pool, job, bad, Points, Slot
<1>1. CASE UNCHANGED vars
  BY <1>1 DEF vars, rlock, table, duck, pool, job, bad
<1>2. ASSUME NEW self \in Threads, BeginReload(self)  PROVE TypeOK'
  <2>1. depth' \in Nat /\ owner' \in Threads
    BY <1>2 DEF BeginReload, Enter
  <2>2. goal' \in [Threads -> SUBSET Sources] /\ todo' \in [Threads -> SUBSET Sources]
    BY <1>2 DEF BeginReload
  <2>3. cand' \in [Threads -> [Sources -> Slot]]
    BY <1>2 DEF BeginReload, None
  <2> QED  BY <1>2, <2>1, <2>2, <2>3 DEF BeginReload
<1>3. ASSUME NEW self \in Threads, PrepareCandidate(self)  PROVE TypeOK'
  BY <1>3 DEF PrepareCandidate, Prepares, Fresh, Kept, Handles
<1>4. ASSUME NEW self \in Threads, PrepareFails(self)  PROVE TypeOK'
  <2>1. PICK s \in Sources : PrepareFails(self)!(s)
    BY <1>4 DEF PrepareFails
  <2>2. pc[self] \in Reloading /\ Fresh(s) \in Handles
    BY <2>1 DEF Prepares, Reloading, Fresh, Handles
  <2>3. PICK more \in SUBSET Handles : GiveUp(self, more)
    BY <2>1, <2>2 DEF HandlesOf
  <2>4. live' \in SUBSET Handles /\ live \subseteq live' /\ made' \in [Sources -> Nat]
    BY <2>1, <2>2
  <2>5. /\ owner' \in Threads \cup {NoThread} /\ depth' \in Nat
        /\ trash' \in [Threads -> SUBSET Handles]
        /\ todo' \in [Threads -> SUBSET Sources]
        /\ goal' \in [Threads -> SUBSET Sources]
        /\ cand' \in [Threads -> [Sources -> Slot]]
        /\ pc' \in [Threads -> Points]
    BY <2>2, <2>3, GiveUpType
  <2>6. faults' \in Nat /\ lost' \in Nat
    BY <2>1 DEF Fault
  <2> HIDE DEF Points, Slot
  <2> QED  BY <2>1, <2>4, <2>5, <2>6
<1>5. ASSUME NEW self \in Threads, BeginSwap(self)  PROVE TypeOK'
  BY <1>5 DEF BeginSwap
<1>6. ASSUME NEW self \in Threads, SwapCandidate(self)  PROVE TypeOK'
  <2>1. PICK s \in Sources : SwapCandidate(self)!(s)
    BY <1>6 DEF SwapCandidate
  <2>2. cand[self][s] \in Slot
    BY <2>1
  <2>3. s \notin Scoped /\ Kind[s] = "database" => cand[self][s] \in live
    BY <2>1 DEF Swaps, First, CandInv, CandOf, Prepared, Newer, Reloading, Scoped, OpenHandle
  <2>4. conn' \in [Sources -> Slot]
    BY <2>1, <2>2 DEF Registers
  <2>5. attached' \subseteq live /\ result' \in Threads \cup {NoThread, Other}
    BY <2>1, <2>3 DEF Registers
  <2> QED  BY <2>1, <2>4, <2>5
<1>7. ASSUME NEW self \in Threads, SwapFails(self)  PROVE TypeOK'
  <2>1. PICK s \in Persistent : SwapFails(self)!(s)
    BY <1>7 DEF SwapFails
  <2>2. s \in Sources /\ cand[self][s] \in Slot
    BY <2>1 DEF Persistent
  <2>3. conn' \in [Sources -> Slot] /\ UNCHANGED <<attached, result>>
    BY <2>1, <2>2
  <2>4. todo' \in [Threads -> SUBSET Sources] /\ faults' \in Nat
    BY <2>1, <2>2 DEF Fault
  <2> QED  BY <2>1, <2>3, <2>4 DEF Fault
<1>8. ASSUME NEW self \in Threads, RestoreOld(self)  PROVE TypeOK'
  <2>1. PICK s \in Sources : RestoreOld(self)!(s)
    BY <1>8 DEF RestoreOld
  <2>2. reg[s] \in Slot
    BY <2>1
  <2>3. s \notin Scoped /\ Kind[s] = "database" => reg[s] \in live
    BY <2>1 DEF CandInv, CandOf, RegInv, Reloading, Scoped, OpenHandle
  <2>4. conn' \in [Sources -> Slot]
    BY <2>1, <2>2 DEF Registers
  <2>5. attached' \subseteq live /\ result' \in Threads \cup {NoThread, Other}
    BY <2>1, <2>3 DEF Registers
  <2> QED  BY <2>1, <2>4, <2>5
<1>9. ASSUME NEW self \in Threads, RestoreLost(self)  PROVE TypeOK'
  BY <1>9 DEF RestoreLost
<1>10. ASSUME NEW self \in Threads, AbortReload(self)  PROVE TypeOK'
  <2>1. pc[self] \in Reloading /\ HandlesOf(cand[self]) \in SUBSET Handles
    BY <1>10 DEF AbortReload, Reloading, HandlesOf
  <2> HIDE DEF Points, Slot
  <2> QED  BY <1>10, <2>1, GiveUpType DEF AbortReload
<1>11. ASSUME NEW self \in Threads, PublishReload(self)  PROVE TypeOK'
  <2>1. pc[self] \in Reloading /\ {reg[s] : s \in goal[self]} \cap Handles \in SUBSET Handles
    BY <1>11 DEF PublishReload, Reloading
  <2>2. reg' \in [Sources -> Slot]
    BY <1>11 DEF PublishReload
  <2>3. gen' \in [Sources -> Nat]
    BY <1>11 DEF PublishReload
  <2> HIDE DEF Points, Slot
  <2> QED  BY <1>11, <2>1, <2>2, <2>3, GiveUpType DEF PublishReload
<1>12. ASSUME NEW self \in Threads, CloseReplaced(self)  PROVE TypeOK'
  BY <1>12 DEF CloseReplaced
<1>13. ASSUME NEW self \in Threads, EndReload(self)  PROVE TypeOK'
  BY <1>13 DEF EndReload
<1>14. ASSUME NEW self \in Threads, Close(self)  PROVE TypeOK'
  BY <1>14 DEF Close, None
<1>15. ASSUME NEW self \in Threads, BeginBind(self) \/ BeginScan(self)  PROVE TypeOK'
  <2>1. PICK S \in SUBSET Sources, stream \in Streams : Opens(self, S, stream)
    BY <1>15 DEF BeginBind, BeginScan, Streams
  <2>2. ctx' \in [Threads -> Seq(Context)]
    BY <2>1, OpensStep
  <2>3. depth' \in Nat /\ owner' \in Threads
    BY <2>1 DEF Opens, Enter
  <2>4. todo' \in [Threads -> SUBSET Sources]
    BY <2>1 DEF Opens
  <2> QED  BY <2>1, <2>2, <2>3, <2>4 DEF Opens
<1>16. ASSUME NEW self \in Threads, BindSource(self)  PROVE TypeOK'
  <2>1. PICK s \in Sources : BindSource(self)!(s)
    BY <1>16 DEF BindSource
  <2>2. ctx' \in [Threads -> Seq(Context)] /\ Fresh(s) \in Handles
    BY <2>1, BindContext
  <2>3. live' \in SUBSET Handles /\ live \subseteq live' /\ made' \in [Sources -> Nat]
    BY <2>1, <2>2
  <2>4. conn' \in [Sources -> Slot]
    BY <2>1, <2>2
  <2>5. todo' \in [Threads -> SUBSET Sources]
    BY <2>1
  <2> QED  BY <2>1, <2>2, <2>3, <2>4, <2>5
<1>17. ASSUME NEW self \in Threads, BindFails(self) \/ ScanFails(self) \/ EndBind(self)  PROVE TypeOK'
  <2>1. PICK names \in SUBSET Sources : Leaves(self, names)
    BY <1>17, LeavesStep
  <2>2. ctx' \in [Threads -> Seq(Context)]
    BY <2>1, LeavesContext
  <2>3. attached \cap Top(self).bound = {}
    BY <2>1, TopBound DEF Leaves, MadeInv, Scoped, ScopedKnown
  <2>4. owner = self /\ owner # NoThread /\ Leave(owner)
    BY <2>1, RegistrySentinels DEF Leaves, Unbind, Leave, LockInv
  <2>5. depth' \in Nat /\ owner' \in Threads \cup {NoThread}
    BY <2>4, LeaveType
  <2>6. conn' \in [Sources -> Slot]
    BY <2>1 DEF Leaves, Unbind
  <2>7. live' \in SUBSET Handles /\ attached' \subseteq live'
    BY <2>1, <2>3 DEF Leaves, Unbind
  <2>8. todo' \in [Threads -> SUBSET Sources] /\ pc' \in [Threads -> Points]
    BY <2>1 DEF Leaves, Unbind
  <2> QED  BY <2>1, <2>2, <2>5, <2>6, <2>7, <2>8 DEF Leaves
<1>18. ASSUME NEW self \in Threads, BindDone(self)  PROVE TypeOK'
  BY <1>18 DEF BindDone
<1>19. ASSUME NEW self \in Threads, ExecuteQuery(self)  PROVE TypeOK'
  BY <1>19 DEF ExecuteQuery
<1>20. ASSUME NEW self \in Threads, FetchResult(self)  PROVE TypeOK'
  BY <1>20 DEF FetchResult
<1>21. ASSUME NEW self \in Threads, ReadBatch(self)  PROVE TypeOK'
  BY <1>21 DEF ReadBatch, Scans
<1>22. ASSUME NEW self \in Threads, Recheck(self)  PROVE TypeOK'
  <2>1. PICK s \in Top(self).srcs : Recheck(self)!2!(s)
    BY <1>22 DEF Recheck
  <2>2. Top(self) \in Context
    BY <1>22, TopBound DEF Recheck, Scans
  <2>3. s \in Sources
    BY <2>1, <2>2 DEF Context
  <2>4. Fresh(s) \in Handles
    BY <2>3, FreshHandle
  <2>5. /\ live' \in SUBSET Handles /\ live \subseteq live'
        /\ trash' \in [Threads -> SUBSET Handles]
    BY <2>1, <2>3, <2>4
  <2>6. made' \in [Sources -> Nat]
    BY <2>1, <2>3
  <2> QED  BY <1>22, <2>5, <2>6 DEF Recheck, Scans
<1>23. ASSUME NEW self \in Threads, CancelScan(self)  PROVE TypeOK'
  <2>1. ctx' \in [Threads -> Seq(Context)]
    BY <1>23, CancelContext
  <2> QED  BY <1>23, <2>1 DEF CancelScan, Scans
<1> QED
    BY <1>1, <1>2, <1>3, <1>4, <1>5, <1>6, <1>7, <1>8, <1>9, <1>10, <1>11, <1>12, <1>13, <1>14, <1>15, <1>16, <1>17, <1>18, <1>19, <1>20, <1>21, <1>22, <1>23
     DEF Next, Step, Reload, Binding

(* What a thread has bound depends on its contexts alone. *)
LEMMA BoundsKept ==
    ASSUME UNCHANGED ctx
    PROVE  \A t \in Threads : Bounds(t)' = Bounds(t)
BY DEF Bounds, BoundsOf

(* Which handles were ever made depends on the counters alone. *)
LEMMA KnownKept ==
    ASSUME UNCHANGED made
    PROVE  Known' = Known /\ ScopedKnown' = ScopedKnown
BY DEF Known, ScopedKnown

(* A handle about to be made is in nobody's hands, and then it is known. *)
LEMMA FreshIsNew ==
    ASSUME TypeOK, MadeInv, NEW s \in Sources
    PROVE  /\ Fresh(s) \notin live
           /\ \A t \in Threads : Fresh(s) \notin trash[t] \cup Bounds(t)
<1>1. Fresh(s)[1] = s /\ Fresh(s)[2] = made[s] + 1 /\ made[s] \in Nat
  BY FreshHandle
<1>2. Fresh(s) \notin Known
  BY <1>1 DEF Known
<1> QED  BY <1>2 DEF MadeInv, ScopedKnown

(* Making a handle makes it known and forgets none. *)
LEMMA KnownGrows ==
    ASSUME TypeOK, NEW s \in Sources, made' = [made EXCEPT ![s] = @ + 1]
    PROVE  /\ Known \subseteq Known' /\ ScopedKnown \subseteq ScopedKnown'
           /\ Fresh(s) \in Known'
<1>1. Fresh(s) \in Handles /\ Fresh(s)[1] = s /\ Fresh(s)[2] = made[s] + 1
  BY FreshHandle
<1>2. made \in [Sources -> Nat]
  BY DEF TypeOK
<1>3. Fresh(s) \in Known'
  BY <1>1, <1>2 DEF Known
<1>4. Known \subseteq Known'
  <2> SUFFICES ASSUME NEW h \in Known PROVE h \in Known'
    OBVIOUS
  <2>1. h[1] \in Sources /\ h[2] \in Nat /\ h[2] <= made[h[1]] /\ h \in Handles
    BY DEF Known, Handles
  <2>2. made'[h[1]] \in Nat /\ made[h[1]] \in Nat /\ made[h[1]] <= made'[h[1]]
    BY <1>2, <2>1
  <2> QED  BY <2>1, <2>2 DEF Known
<1> QED  BY <1>3, <1>4 DEF ScopedKnown

(* What is registered, and what is a candidate, is open. *)
LEMMA RegisteredOpen ==
    ASSUME TypeOK, RegInv
    PROVE  HandlesOf(reg) \subseteq live
BY RegistrySlots DEF HandlesOf, RegInv, OpenHandle

(* A candidate in a slot is an open handle. *)
LEMMA CandidatesOpen ==
    ASSUME TypeOK, CandInv, NEW self \in Threads
    PROVE  HandlesOf(cand[self]) \subseteq live
BY RegistrySlots DEF HandlesOf, CandInv, CandOf, Newer, OpenHandle

(* Handles are numbered as they are made, and only databases are attached. *)
LEMMA MadeStep ==
    ASSUME TypeOK, LockInv, MadeInv, CandInv, RegInv, [Next]_vars
    PROVE  MadeInv'
<1> USE RegistryKinds DEF At, Goto, rlock, table, duck, pool, job, bad, MadeInv
<1>1. CASE UNCHANGED vars
  BY <1>1, BoundsKept, KnownKept DEF vars
<1>2. ASSUME NEW self \in Threads, BeginReload(self)  PROVE MadeInv'
  <2>1. Known' = Known /\ ScopedKnown' = ScopedKnown /\ \A t \in Threads : Bounds(t)' = Bounds(t)
    BY <1>2, BoundsKept, KnownKept DEF BeginReload, Enter
  <2> QED  BY <1>2, <2>1 DEF TypeOK, BeginReload, Enter
<1>3. ASSUME NEW self \in Threads, PrepareCandidate(self)  PROVE MadeInv'
  <2>1. PICK s \in Sources : PrepareCandidate(self)!(s)
    BY <1>3 DEF PrepareCandidate
  <2>2. Known \subseteq Known' /\ ScopedKnown \subseteq ScopedKnown' /\ Fresh(s) \in Known'
    BY <2>1, KnownGrows
  <2>3. \A t \in Threads : Bounds(t)' = Bounds(t)
    BY <2>1, BoundsKept
  <2>4. \A t \in Threads : trash'[t] \subseteq trash[t] \cup {Fresh(s)}
    BY <2>1 DEF TypeOK
  <2> QED  BY <2>1, <2>2, <2>3, <2>4
<1>4. ASSUME NEW self \in Threads, PrepareFails(self)  PROVE MadeInv'
  <2>1. PICK s \in Sources : PrepareFails(self)!(s)
    BY <1>4 DEF PrepareFails
  <2>2. \A t \in Threads : Bounds(t)' = Bounds(t)
    BY <2>1, BoundsKept
  <2>3. HandlesOf(cand[self]) \subseteq Known
    BY CandidatesOpen
  <2>4. CASE GiveUp(self, HandlesOf(cand[self])) /\ UNCHANGED pool
    <3>1. Known' = Known /\ ScopedKnown' = ScopedKnown
      BY <2>4, KnownKept
    <3>2. \A t \in Threads : trash'[t] \subseteq trash[t] \cup HandlesOf(cand[self])
      BY <2>4 DEF GiveUp, TypeOK
    <3> QED  BY <2>1, <2>2, <2>3, <2>4, <3>1, <3>2
  <2>5. CASE /\ GiveUp(self, HandlesOf(cand[self]) \cup {Fresh(s)})
             /\ made' = [made EXCEPT ![s] = @ + 1] /\ live' = live \cup {Fresh(s)}
    <3>1. Known \subseteq Known' /\ ScopedKnown \subseteq ScopedKnown' /\ Fresh(s) \in Known'
      BY <2>5, KnownGrows
    <3>2. \A t \in Threads :
             trash'[t] \subseteq trash[t] \cup HandlesOf(cand[self]) \cup {Fresh(s)}
      BY <2>5 DEF GiveUp, TypeOK
    <3> QED  BY <2>1, <2>2, <2>3, <2>5, <3>1, <3>2
  <2> QED  BY <2>1, <2>4, <2>5
<1>5. ASSUME NEW self \in Threads, BeginSwap(self)  PROVE MadeInv'
  <2>1. Known' = Known /\ ScopedKnown' = ScopedKnown /\ \A t \in Threads : Bounds(t)' = Bounds(t)
    BY <1>5, BoundsKept, KnownKept DEF BeginSwap
  <2> QED  BY <1>5, <2>1 DEF TypeOK, BeginSwap
<1>6. ASSUME NEW self \in Threads, SwapCandidate(self)  PROVE MadeInv'
  <2>1. Known' = Known /\ ScopedKnown' = ScopedKnown /\ \A t \in Threads : Bounds(t)' = Bounds(t)
    BY <1>6, BoundsKept, KnownKept DEF SwapCandidate
  <2>2. PICK s \in Sources : SwapCandidate(self)!(s)
    BY <1>6 DEF SwapCandidate
  <2>3. s \notin Scoped => cand[self][s][1] = s
    BY <2>2 DEF Swaps, First, CandInv, CandOf, Prepared, Newer, Reloading, OpenHandle, Scoped
  <2> QED  BY <2>1, <2>2, <2>3 DEF Registers
<1>7. ASSUME NEW self \in Threads, SwapFails(self)  PROVE MadeInv'
  <2>1. Known' = Known /\ ScopedKnown' = ScopedKnown /\ \A t \in Threads : Bounds(t)' = Bounds(t)
    BY <1>7, BoundsKept, KnownKept DEF SwapFails
  <2> QED  BY <1>7, <2>1 DEF SwapFails
<1>8. ASSUME NEW self \in Threads, RestoreOld(self)  PROVE MadeInv'
  <2>1. Known' = Known /\ ScopedKnown' = ScopedKnown /\ \A t \in Threads : Bounds(t)' = Bounds(t)
    BY <1>8, BoundsKept, KnownKept DEF RestoreOld
  <2>2. PICK s \in Sources : RestoreOld(self)!(s)
    BY <1>8 DEF RestoreOld
  <2>3. s \notin Scoped => reg[s][1] = s
    BY <2>2 DEF CandInv, CandOf, RegInv, Reloading, OpenHandle, Scoped
  <2> QED  BY <2>1, <2>2, <2>3 DEF Registers
<1>9. ASSUME NEW self \in Threads, RestoreLost(self)  PROVE MadeInv'
  <2>1. Known' = Known /\ ScopedKnown' = ScopedKnown /\ \A t \in Threads : Bounds(t)' = Bounds(t)
    BY <1>9, BoundsKept, KnownKept DEF RestoreLost
  <2> QED  BY <1>9, <2>1 DEF TypeOK, RestoreLost
<1>10. ASSUME NEW self \in Threads, AbortReload(self)  PROVE MadeInv'
  <2>1. Known' = Known /\ ScopedKnown' = ScopedKnown /\ \A t \in Threads : Bounds(t)' = Bounds(t)
    BY <1>10, BoundsKept, KnownKept DEF AbortReload
  <2>2. HandlesOf(cand[self]) \subseteq Known
    BY CandidatesOpen
  <2> QED  BY <1>10, <2>1, <2>2 DEF AbortReload, GiveUp, TypeOK
<1>11. ASSUME NEW self \in Threads, PublishReload(self)  PROVE MadeInv'
  <2>1. Known' = Known /\ ScopedKnown' = ScopedKnown /\ \A t \in Threads : Bounds(t)' = Bounds(t)
    BY <1>11, BoundsKept, KnownKept DEF PublishReload
  <2>2. {reg[s] : s \in goal[self]} \cap Handles \subseteq HandlesOf(reg)
    BY DEF HandlesOf, TypeOK
  <2>3. HandlesOf(reg) \subseteq Known
    BY RegisteredOpen
  <2> QED  BY <1>11, <2>1, <2>2, <2>3 DEF PublishReload, GiveUp, TypeOK
<1>12. ASSUME NEW self \in Threads, CloseReplaced(self)  PROVE MadeInv'
  <2>1. Known' = Known /\ ScopedKnown' = ScopedKnown /\ \A t \in Threads : Bounds(t)' = Bounds(t)
    BY <1>12, BoundsKept, KnownKept DEF CloseReplaced
  <2> QED  BY <1>12, <2>1 DEF TypeOK, CloseReplaced
<1>13. ASSUME NEW self \in Threads, EndReload(self)  PROVE MadeInv'
  <2>1. Known' = Known /\ ScopedKnown' = ScopedKnown /\ \A t \in Threads : Bounds(t)' = Bounds(t)
    BY <1>13, BoundsKept, KnownKept DEF EndReload
  <2> QED  BY <1>13, <2>1 DEF TypeOK, EndReload
<1>14. ASSUME NEW self \in Threads, Close(self)  PROVE MadeInv'
  <2>1. Known' = Known /\ ScopedKnown' = ScopedKnown /\ \A t \in Threads : Bounds(t)' = Bounds(t)
    BY <1>14, BoundsKept, KnownKept DEF Close
  <2> QED  BY <1>14, <2>1 DEF TypeOK, Close
<1>15. ASSUME NEW self \in Threads, BeginBind(self) \/ BeginScan(self)  PROVE MadeInv'
  <2>1. PICK S \in SUBSET Sources, stream \in Streams : Opens(self, S, stream)
    BY <1>15 DEF BeginBind, BeginScan, Streams
  <2>2. Known' = Known /\ ScopedKnown' = ScopedKnown /\ \A t \in Threads : Bounds(t)' = Bounds(t)
    BY <2>1, OpensStep, KnownKept DEF Opens
  <2> QED  BY <2>1, <2>2 DEF Opens
<1>16. ASSUME NEW self \in Threads, BindSource(self)  PROVE MadeInv'
  <2>1. PICK s \in Sources : BindSource(self)!(s)
    BY <1>16 DEF BindSource
  <2>2. /\ Bounds(self)' = Bounds(self) \cup {Fresh(s)}
        /\ \A t \in Threads \ {self} : ctx'[t] = ctx[t]
    BY <2>1, BindContext
  <2>3. \A t \in Threads \ {self} : Bounds(t)' = Bounds(t)
    BY <2>2 DEF Bounds, BoundsOf
  <2>4. Known \subseteq Known' /\ ScopedKnown \subseteq ScopedKnown' /\ Fresh(s) \in Known'
    BY <2>1, KnownGrows
  <2>5. Fresh(s) \in ScopedKnown'
    BY <2>1, <2>4, FreshHandle DEF Binds, First, CandInv, CandOf, ScopedKnown
  <2>6. \A t \in Threads : Bounds(t)' \subseteq Bounds(t) \cup {Fresh(s)}
    BY <2>2, <2>3
  <2> QED  BY <2>1, <2>4, <2>5, <2>6
<1>17. ASSUME NEW self \in Threads, BindFails(self) \/ ScanFails(self) \/ EndBind(self)  PROVE MadeInv'
  <2>1. PICK names \in SUBSET Sources : Leaves(self, names)
    BY <1>17, LeavesStep
  <2>2. \A t \in Threads : Bounds(t)' \subseteq Bounds(t)
    BY <2>1, LeavesContext
  <2>3. Known' = Known /\ ScopedKnown' = ScopedKnown
    BY <2>1, KnownKept DEF Leaves
  <2> QED  BY <2>1, <2>2, <2>3 DEF Leaves, Unbind
<1>18. ASSUME NEW self \in Threads, BindDone(self)  PROVE MadeInv'
  <2>1. Known' = Known /\ ScopedKnown' = ScopedKnown /\ \A t \in Threads : Bounds(t)' = Bounds(t)
    BY <1>18, BoundsKept, KnownKept DEF BindDone
  <2> QED  BY <1>18, <2>1 DEF TypeOK, BindDone
<1>19. ASSUME NEW self \in Threads, ExecuteQuery(self)  PROVE MadeInv'
  <2>1. Known' = Known /\ ScopedKnown' = ScopedKnown /\ \A t \in Threads : Bounds(t)' = Bounds(t)
    BY <1>19, BoundsKept, KnownKept DEF ExecuteQuery
  <2> QED  BY <1>19, <2>1 DEF TypeOK, ExecuteQuery
<1>20. ASSUME NEW self \in Threads, FetchResult(self)  PROVE MadeInv'
  <2>1. Known' = Known /\ ScopedKnown' = ScopedKnown /\ \A t \in Threads : Bounds(t)' = Bounds(t)
    BY <1>20, BoundsKept, KnownKept DEF FetchResult
  <2> QED  BY <1>20, <2>1 DEF TypeOK, FetchResult
<1>21. ASSUME NEW self \in Threads, ReadBatch(self)  PROVE MadeInv'
  <2>1. Known' = Known /\ ScopedKnown' = ScopedKnown /\ \A t \in Threads : Bounds(t)' = Bounds(t)
    BY <1>21, BoundsKept, KnownKept DEF ReadBatch, Scans
  <2> QED  BY <1>21, <2>1 DEF TypeOK, ReadBatch, Scans
<1>22. ASSUME NEW self \in Threads, Recheck(self)  PROVE MadeInv'
  <2>1. PICK s \in Top(self).srcs : Recheck(self)!2!(s)
    BY <1>22 DEF Recheck
  <2>2. s \in Sources
    BY <1>22, <2>1, TopBound DEF Recheck, Scans, Context
  <2>3. Known \subseteq Known' /\ ScopedKnown \subseteq ScopedKnown' /\ Fresh(s) \in Known'
    BY <2>1, <2>2, KnownGrows
  <2>4. \A t \in Threads : Bounds(t)' = Bounds(t)
    BY <1>22, BoundsKept DEF Recheck
  <2>5. \A t \in Threads : trash'[t] \subseteq trash[t] \cup {Fresh(s)}
    BY <2>1 DEF TypeOK
  <2> QED  BY <1>22, <2>1, <2>3, <2>4, <2>5 DEF Recheck
<1>23. ASSUME NEW self \in Threads, CancelScan(self)  PROVE MadeInv'
  <2>1. Known' = Known /\ ScopedKnown' = ScopedKnown /\ \A t \in Threads : Bounds(t)' = Bounds(t)
    BY <1>23, CancelContext, KnownKept DEF CancelScan
  <2> QED  BY <1>23, <2>1 DEF CancelScan, Scans
<1> QED
    BY <1>1, <1>2, <1>3, <1>4, <1>5, <1>6, <1>7, <1>8, <1>9, <1>10, <1>11, <1>12, <1>13, <1>14, <1>15, <1>16, <1>17, <1>18, <1>19, <1>20, <1>21, <1>22, <1>23
     DEF Next, Step, Reload, Binding

(* An open registry goes on serving every source. *)
LEMMA RegStep ==
    ASSUME TypeOK, LockInv, MadeInv, RegInv, CandInv, ApartInv, [Next]_vars
    PROVE  RegInv'
<1> USE RegistryKinds DEF At, Goto, rlock, table, duck, pool, job, bad, RegInv, OpenHandle
<1>1. CASE UNCHANGED vars
  BY <1>1 DEF vars, rlock, table, duck, pool, job, bad
<1>2. ASSUME NEW self \in Threads, BeginReload(self)  PROVE RegInv'
  BY <1>2 DEF BeginReload
<1>3. ASSUME NEW self \in Threads, PrepareCandidate(self)  PROVE RegInv'
  BY <1>3 DEF PrepareCandidate
<1>4. ASSUME NEW self \in Threads, PrepareFails(self)  PROVE RegInv'
  BY <1>4 DEF PrepareFails
<1>5. ASSUME NEW self \in Threads, BeginSwap(self)  PROVE RegInv'
  BY <1>5 DEF BeginSwap
<1>6. ASSUME NEW self \in Threads, SwapCandidate(self)  PROVE RegInv'
  BY <1>6 DEF SwapCandidate
<1>7. ASSUME NEW self \in Threads, SwapFails(self)  PROVE RegInv'
  BY <1>7 DEF SwapFails
<1>8. ASSUME NEW self \in Threads, RestoreOld(self)  PROVE RegInv'
  BY <1>8 DEF RestoreOld
<1>9. ASSUME NEW self \in Threads, RestoreLost(self)  PROVE RegInv'
  BY <1>9 DEF RestoreLost
<1>10. ASSUME NEW self \in Threads, AbortReload(self)  PROVE RegInv'
  BY <1>10 DEF AbortReload
<1>11. ASSUME NEW self \in Threads, PublishReload(self)  PROVE RegInv'
  <2>1. \A s \in goal[self] : Newer(s, cand[self][s])
    BY <1>11 DEF PublishReload, CandInv, CandOf, Prepared, Reloading, TypeOK
  <2>2. ~closed
    BY <1>11 DEF PublishReload, CandInv, CandOf, Reloading
  <2> QED  BY <1>11, <2>1, <2>2 DEF PublishReload, Newer, TypeOK
<1>12. ASSUME NEW self \in Threads, CloseReplaced(self)  PROVE RegInv'
  <2>1. PICK h \in trash[self] : CloseReplaced(self)!(h)
    BY <1>12 DEF CloseReplaced
  <2>2. \A s \in Sources : reg[s] # h
    BY <2>1 DEF ApartInv
  <2> QED  BY <2>1, <2>2
<1>13. ASSUME NEW self \in Threads, EndReload(self)  PROVE RegInv'
  BY <1>13 DEF EndReload
<1>14. ASSUME NEW self \in Threads, Close(self)  PROVE RegInv'
  BY <1>14 DEF Close, None
<1>15. ASSUME NEW self \in Threads, BeginBind(self) \/ BeginScan(self)  PROVE RegInv'
  <2>1. PICK S \in SUBSET Sources, stream \in Streams : Opens(self, S, stream)
    BY <1>15 DEF BeginBind, BeginScan, Streams
  <2> QED  BY <2>1 DEF Opens
<1>16. ASSUME NEW self \in Threads, BindSource(self)  PROVE RegInv'
  BY <1>16 DEF BindSource
<1>17. ASSUME NEW self \in Threads, BindFails(self) \/ ScanFails(self) \/ EndBind(self)  PROVE RegInv'
  <2>1. PICK names \in SUBSET Sources : Leaves(self, names)
    BY <1>17, LeavesStep
  <2>2. \A s \in Sources : reg[s] \notin Top(self).bound
    BY <2>1, TopBound DEF ApartInv, Leaves
  <2> QED  BY <2>1, <2>2 DEF Leaves, Unbind
<1>18. ASSUME NEW self \in Threads, BindDone(self)  PROVE RegInv'
  BY <1>18 DEF BindDone
<1>19. ASSUME NEW self \in Threads, ExecuteQuery(self)  PROVE RegInv'
  BY <1>19 DEF ExecuteQuery
<1>20. ASSUME NEW self \in Threads, FetchResult(self)  PROVE RegInv'
  BY <1>20 DEF FetchResult
<1>21. ASSUME NEW self \in Threads, ReadBatch(self)  PROVE RegInv'
  BY <1>21 DEF ReadBatch, Scans
<1>22. ASSUME NEW self \in Threads, Recheck(self)  PROVE RegInv'
  BY <1>22 DEF Recheck
<1>23. ASSUME NEW self \in Threads, CancelScan(self)  PROVE RegInv'
  BY <1>23 DEF CancelScan
<1> QED
    BY <1>1, <1>2, <1>3, <1>4, <1>5, <1>6, <1>7, <1>8, <1>9, <1>10, <1>11, <1>12, <1>13, <1>14, <1>15, <1>16, <1>17, <1>18, <1>19, <1>20, <1>21, <1>22, <1>23
     DEF Next, Step, Reload, Binding

(* A thread outside the reload has nothing prepared; one whose own state and
   whose registrations a step leaves alone keeps its candidates. *)
LEMMA NoCandidates ==
    ASSUME NEW t \in Threads, CandOf(t), pc[t] \notin Reloading,
           pc'[t] \in {"idle", "cleanup"}, goal'[t] = goal[t], cand'[t] = cand[t]
    PROVE  CandOf(t)'
BY DEF CandOf, Prepared, Reloading

(* Candidates stay prepared while their slots, the registry and what is open stay. *)
LEMMA CandidatesKept ==
    ASSUME NEW t \in Threads, CandOf(t), UNCHANGED <<closed, reg>>,
           pc'[t] = pc[t], goal'[t] = goal[t], todo'[t] = todo[t], cand'[t] = cand[t],
           \A s \in Sources : cand[t][s] \in live => cand[t][s] \in live'
    PROVE  CandOf(t)'
BY DEF CandOf, Prepared, Newer, OpenHandle

(* Candidates are newer than what is registered until they are published. *)
LEMMA CandStep ==
    ASSUME TypeOK, LockInv, MadeInv, RegInv, CandInv, ApartInv, [Next]_vars
    PROVE  CandInv'
<1> USE RegistryKinds, RegistrySlots DEF TypeOK, At, Goto, rlock, table, duck, pool, job, bad, CandInv
<1>1. CASE UNCHANGED vars
  BY <1>1, CandidatesKept DEF vars, rlock, table, duck, pool, job, bad
<1>2. ASSUME NEW self \in Threads, BeginReload(self)  PROVE CandInv'
  <2>1. ASSUME NEW t \in Threads \ {self}  PROVE CandOf(t)'
    BY <1>2, <2>1, CandidatesKept DEF BeginReload
  <2>2. CandOf(self)'
    BY <1>2 DEF BeginReload, CandOf, Prepared, Reloading, None
  <2> QED  BY <2>1, <2>2
<1>3. ASSUME NEW self \in Threads, PrepareCandidate(self)  PROVE CandInv'
  <2>1. ASSUME NEW t \in Threads \ {self}  PROVE CandOf(t)'
    BY <1>3, <2>1, CandidatesKept DEF PrepareCandidate
  <2>2. CandOf(self)'
    <3>1. PICK s \in Sources : PrepareCandidate(self)!(s)
      BY <1>3 DEF PrepareCandidate
    <3>2. pc[self] = "prepare" /\ pc'[self] = "prepare" /\ s \in todo[self] /\ s \in goal[self]
      BY <3>1 DEF Prepares, First, CandOf, Reloading
    <3>3. PICK h \in Handles : h = Fresh(s)
      BY FreshHandle
    <3>4. /\ todo'[self] = todo[self] \ {s} /\ goal'[self] = goal[self]
          /\ cand'[self][s] = Kept(s, h) /\ reg' = reg /\ live' = live \cup {h}
          /\ \A r \in Sources \ {s} : cand'[self][r] = cand[self][r]
      BY <3>1, <3>3
    <3>5. ~closed /\ ~closed'
      BY <3>1, <3>2 DEF CandOf, Reloading
    <3>6. Newer(s, Kept(s, h))'
      <4>1. CASE Kind[s] = "reader"
        BY <4>1 DEF Newer, Kept
      <4>2. CASE Kind[s] # "reader"
        <5>1. reg[s] \in Known /\ reg[s][1] = s
          BY <4>2, <3>5 DEF RegInv, OpenHandle, MadeInv
        <5>2. reg[s][2] <= made[s] /\ reg[s][2] \in Nat
          BY <5>1 DEF Known, Handles
        <5>3. h[1] = s /\ h[2] = made[s] + 1 /\ made[s] \in Nat
          BY <3>3, FreshHandle
        <5>4. h \in live' /\ reg'[s][2] < h[2]
          BY <3>4, <5>2, <5>3
        <5> QED  BY <4>2, <5>3, <5>4 DEF Newer, Kept, OpenHandle
      <4> QED  BY <4>1, <4>2
    <3>7. \A r \in Sources, c \in Slot : Newer(r, c) => Newer(r, c)'
      BY <3>4 DEF Newer, OpenHandle
    <3>8. \A r \in Sources \ {s} : Prepared(self, r)' <=> Prepared(self, r)
      BY <3>2, <3>4 DEF Prepared
    <3>9. ASSUME NEW r \in Sources
          PROVE  (IF Prepared(self, r) THEN Newer(r, cand[self][r])
                  ELSE cand[self][r] = Nothing)'
      <4>1. CASE r = s
        <5>1. Prepared(self, s)'
          BY <3>2, <3>4 DEF Prepared, Reloading
        <5> QED  BY <3>4, <3>6, <4>1, <5>1 DEF Newer
      <4>2. CASE r # s
        <5>1. cand[self][r] \in Slot /\ cand'[self][r] = cand[self][r]
          BY <3>4, <4>2
        <5>2. Newer(r, cand[self][r]) => Newer(r, cand[self][r])'
          BY <3>7, <5>1 DEF Newer
        <5> QED  BY <3>8, <4>2, <5>1, <5>2 DEF CandOf
      <4> QED  BY <4>1, <4>2
    <3>10. todo'[self] \subseteq goal'[self]
      BY <3>2, <3>4 DEF CandOf, Reloading
    <3> QED  BY <3>2, <3>5, <3>9, <3>10 DEF CandOf, Reloading
  <2> QED  BY <2>1, <2>2
<1>4. ASSUME NEW self \in Threads, PrepareFails(self)  PROVE CandInv'
  <2>1. ASSUME NEW t \in Threads \ {self}  PROVE CandOf(t)'
    BY <1>4, <2>1, CandidatesKept DEF PrepareFails, GiveUp
  <2>2. CandOf(self)'
    BY <1>4 DEF PrepareFails, GiveUp, CandOf, Prepared, Reloading, None
  <2> QED  BY <2>1, <2>2
<1>5. ASSUME NEW self \in Threads, BeginSwap(self)  PROVE CandInv'
  <2>1. ASSUME NEW t \in Threads \ {self}  PROVE CandOf(t)'
    BY <1>5, <2>1, CandidatesKept DEF BeginSwap
  <2>2. CandOf(self)'
    BY <1>5 DEF BeginSwap, CandOf, Prepared, Newer, OpenHandle, Reloading
  <2> QED  BY <2>1, <2>2
<1>6. ASSUME NEW self \in Threads, SwapCandidate(self)  PROVE CandInv'
  <2>1. ASSUME NEW t \in Threads \ {self}  PROVE CandOf(t)'
    BY <1>6, <2>1, CandidatesKept DEF SwapCandidate
  <2>2. CandOf(self)'
    BY <1>6 DEF SwapCandidate, Swaps, CandOf, Prepared, Newer, OpenHandle, Reloading
  <2> QED  BY <2>1, <2>2
<1>7. ASSUME NEW self \in Threads, SwapFails(self)  PROVE CandInv'
  <2>1. ASSUME NEW t \in Threads \ {self}  PROVE CandOf(t)'
    BY <1>7, <2>1, CandidatesKept DEF SwapFails
  <2>2. CandOf(self)'
    BY <1>7 DEF SwapFails, Swaps, First, CandOf, Prepared, Newer, OpenHandle, Reloading
  <2> QED  BY <2>1, <2>2
<1>8. ASSUME NEW self \in Threads, RestoreOld(self)  PROVE CandInv'
  <2>1. ASSUME NEW t \in Threads \ {self}  PROVE CandOf(t)'
    BY <1>8, <2>1, CandidatesKept DEF RestoreOld
  <2>2. CandOf(self)'
    BY <1>8 DEF RestoreOld, CandOf, Prepared, Newer, OpenHandle, Reloading
  <2> QED  BY <2>1, <2>2
<1>9. ASSUME NEW self \in Threads, RestoreLost(self)  PROVE CandInv'
  <2>1. ASSUME NEW t \in Threads \ {self}  PROVE CandOf(t)'
    BY <1>9, <2>1, CandidatesKept DEF RestoreLost
  <2>2. CandOf(self)'
    BY <1>9 DEF RestoreLost, CandOf, Prepared, Newer, OpenHandle, Reloading
  <2> QED  BY <2>1, <2>2
<1>10. ASSUME NEW self \in Threads, AbortReload(self)  PROVE CandInv'
  <2>1. ASSUME NEW t \in Threads \ {self}  PROVE CandOf(t)'
    BY <1>10, <2>1, CandidatesKept DEF AbortReload, GiveUp
  <2>2. CandOf(self)'
    BY <1>10 DEF AbortReload, GiveUp, CandOf, Prepared, Reloading, None
  <2> QED  BY <2>1, <2>2
<1>11. ASSUME NEW self \in Threads, PublishReload(self)  PROVE CandInv'
  <2>1. owner = self
    BY <1>11 DEF PublishReload, LockInv
  <2>2. ASSUME NEW t \in Threads \ {self}  PROVE CandOf(t)'
    <3>1. pc[t] \in {"idle", "cleanup"}
      BY <2>1 DEF LockInv
    <3> QED  BY <1>11, <3>1, NoCandidates DEF PublishReload, GiveUp, Reloading
  <2>3. CandOf(self)'
    BY <1>11 DEF PublishReload, GiveUp, CandOf, Prepared, Reloading, None
  <2> QED  BY <2>2, <2>3
<1>12. ASSUME NEW self \in Threads, CloseReplaced(self)  PROVE CandInv'
  <2>1. PICK h \in trash[self] : CloseReplaced(self)!(h)
    BY <1>12 DEF CloseReplaced
  <2>2. ASSUME NEW t \in Threads  PROVE CandOf(t)'
    <3>1. \A s \in Sources : cand[t][s] # h
      BY <2>1 DEF ApartInv
    <3> QED  BY <2>1, <3>1, CandidatesKept
  <2> QED  BY <2>2
<1>13. ASSUME NEW self \in Threads, EndReload(self)  PROVE CandInv'
  <2>1. ASSUME NEW t \in Threads \ {self}  PROVE CandOf(t)'
    BY <1>13, <2>1, CandidatesKept DEF EndReload
  <2>2. CandOf(self)'
    BY <1>13, NoCandidates DEF EndReload, Reloading
  <2> QED  BY <2>1, <2>2
<1>14. ASSUME NEW self \in Threads, Close(self)  PROVE CandInv'
  <2>1. ASSUME NEW t \in Threads  PROVE pc[t] \in {"idle", "cleanup"}
    BY <1>14, RegistrySentinels DEF Close, LockInv
  <2> QED  BY <1>14, <2>1, NoCandidates DEF Close, Reloading
<1>15. ASSUME NEW self \in Threads, BeginBind(self) \/ BeginScan(self)  PROVE CandInv'
  <2>1. PICK S \in SUBSET Sources, stream \in Streams : Opens(self, S, stream)
    BY <1>15 DEF BeginBind, BeginScan, Streams
  <2>2. ASSUME NEW t \in Threads \ {self}  PROVE CandOf(t)'
    BY <2>1, <2>2, CandidatesKept DEF Opens
  <2>3. CandOf(self)'
    BY <2>1 DEF Opens, CandOf, Prepared, Reloading
  <2> QED  BY <2>2, <2>3
<1>16. ASSUME NEW self \in Threads, BindSource(self)  PROVE CandInv'
  <2>1. ASSUME NEW t \in Threads \ {self}  PROVE CandOf(t)'
    BY <1>16, <2>1, CandidatesKept DEF BindSource
  <2>2. CandOf(self)'
    <3>1. PICK s \in Sources : BindSource(self)!(s)
      BY <1>16 DEF BindSource
    <3>2. /\ pc[self] = "binding" /\ pc'[self] = "binding" /\ todo'[self] \subseteq todo[self]
          /\ UNCHANGED <<goal, cand, reg, closed>>
      BY <3>1 DEF Binds
    <3> QED  BY <3>2 DEF CandOf, Prepared, Reloading
  <2> QED  BY <2>1, <2>2
<1>17. ASSUME NEW self \in Threads, BindFails(self) \/ ScanFails(self) \/ EndBind(self)  PROVE CandInv'
  <2>1. PICK names \in SUBSET Sources : Leaves(self, names)
    BY <1>17, LeavesStep
  <2>2. ASSUME NEW t \in Threads  PROVE CandOf(t)'
    <3>1. owner = self
      BY <2>1 DEF Leaves, LockInv
    <3>2. pc[t] \in {"idle", "cleanup", "binding"} /\ pc'[t] \in {"idle", "cleanup"}
      BY <2>1, <3>1 DEF Leaves, Unbind, LockInv
    <3> QED  BY <2>1, <3>2, NoCandidates DEF Leaves, Reloading
  <2> QED  BY <2>2
<1>18. ASSUME NEW self \in Threads, BindDone(self)  PROVE CandInv'
  <2>1. ASSUME NEW t \in Threads \ {self}  PROVE CandOf(t)'
    BY <1>18, <2>1, CandidatesKept DEF BindDone
  <2>2. CandOf(self)'
    BY <1>18, NoCandidates DEF BindDone, Reloading
  <2> QED  BY <2>1, <2>2
<1>19. ASSUME NEW self \in Threads, ExecuteQuery(self)  PROVE CandInv'
  <2>1. ASSUME NEW t \in Threads \ {self}  PROVE CandOf(t)'
    BY <1>19, <2>1, CandidatesKept DEF ExecuteQuery
  <2>2. CandOf(self)'
    BY <1>19 DEF ExecuteQuery, CandOf, Prepared, Reloading
  <2> QED  BY <2>1, <2>2
<1>20. ASSUME NEW self \in Threads, FetchResult(self)  PROVE CandInv'
  <2>1. ASSUME NEW t \in Threads \ {self}  PROVE CandOf(t)'
    BY <1>20, <2>1, CandidatesKept DEF FetchResult
  <2>2. CandOf(self)'
    BY <1>20, NoCandidates DEF FetchResult, Reloading
  <2> QED  BY <2>1, <2>2
<1>21. ASSUME NEW self \in Threads, ReadBatch(self)  PROVE CandInv'
  BY <1>21, CandidatesKept DEF ReadBatch
<1>22. ASSUME NEW self \in Threads, Recheck(self)  PROVE CandInv'
  <2>1. ASSUME NEW t \in Threads \ {self}  PROVE CandOf(t)'
    BY <1>22, <2>1, CandidatesKept DEF Recheck, Scans
  <2>2. CandOf(self)'
    BY <1>22, NoCandidates DEF Recheck, Scans, Reloading
  <2> QED  BY <2>1, <2>2
<1>23. ASSUME NEW self \in Threads, CancelScan(self)  PROVE CandInv'
  BY <1>23, CandidatesKept DEF CancelScan
<1> QED
    BY <1>1, <1>2, <1>3, <1>4, <1>5, <1>6, <1>7, <1>8, <1>9, <1>10, <1>11, <1>12, <1>13, <1>14, <1>15, <1>16, <1>17, <1>18, <1>19, <1>20, <1>21, <1>22, <1>23
     DEF Next, Step, Reload, Binding

(* What is no handle is in no one's hands. *)
LEMMA SlotsApart ==
    ASSUME TypeOK, MadeInv, NEW t \in Threads
    PROVE  /\ Nothing \notin trash[t] \cup Bounds(t)
           /\ Provider \notin trash[t] \cup Bounds(t)
BY RegistrySlots DEF MadeInv, Known, ScopedKnown

(* A thread without the lock has no candidate. *)
LEMMA OwnerCandidates ==
    ASSUME LockInv, CandInv, NEW t \in Threads, owner # t
    PROVE  goal[t] = {} /\ \A s \in Sources : cand[t][s] = Nothing
BY DEF LockInv, CandInv, CandOf, Prepared, Reloading

(* No source is registered with a handle that is a candidate, nor two with one. *)
LEMMA RegisteredApart ==
    ASSUME TypeOK, RegInv, CandInv, NEW s \in Sources
    PROVE  /\ \A self \in Threads : reg[s] \notin HandlesOf(cand[self])
           /\ \A r \in Sources \ {s} : reg[r] # reg[s] \/ reg[s] \notin Handles
<1>1. ASSUME reg[s] \in Handles  PROVE reg[s][1] = s
  BY <1>1, RegistrySlots DEF RegInv, OpenHandle
<1>2. ASSUME NEW r \in Sources \ {s}  PROVE reg[r] # reg[s] \/ reg[s] \notin Handles
  <2>1. reg[r] \in Handles => reg[r][1] = r
    BY RegistrySlots DEF RegInv, OpenHandle
  <2> QED  BY <1>1, <2>1
<1>3. ASSUME NEW self \in Threads, reg[s] \in HandlesOf(cand[self])  PROVE FALSE
  <2>1. PICK r \in Sources : reg[s] = cand[self][r] /\ reg[s] \in Handles
    BY <1>3 DEF HandlesOf
  <2>2. Prepared(self, r) /\ Newer(r, cand[self][r]) /\ Kind[r] # "reader"
    BY <2>1, RegistrySlots DEF CandInv, CandOf, Newer
  <2>3. cand[self][r][1] = r /\ reg[r][2] < cand[self][r][2]
    BY <2>2 DEF Newer, OpenHandle
  <2>4. r = s
    BY <1>1, <2>1, <2>3
  <2>5. reg[s][2] \in Nat
    BY <2>1 DEF Handles
  <2> QED  BY <2>1, <2>3, <2>4, <2>5
<1> QED  BY <1>2, <1>3

(* The next handle is neither registered nor a candidate. *)
LEMMA FreshApart ==
    ASSUME TypeOK, MadeInv, RegInv, CandInv, NEW s \in Sources
    PROVE  \A r \in Sources : reg[r] # Fresh(s) /\ \A t \in Threads : cand[t][r] # Fresh(s)
<1>1. Fresh(s) \in Handles /\ Fresh(s) \notin live
  BY FreshHandle, FreshIsNew
<1>2. Fresh(s) \notin HandlesOf(reg)
  BY <1>1, RegisteredOpen
<1>3. \A t \in Threads : Fresh(s) \notin HandlesOf(cand[t])
  BY <1>1, CandidatesOpen
<1> QED  BY <1>1, <1>2, <1>3 DEF HandlesOf

(* What is registered stays apart from what is cleaned up when lists only shrink. *)
LEMMA ApartKept ==
    ASSUME ApartInv, UNCHANGED <<reg, cand>>,
           \A t \in Threads : trash'[t] \subseteq trash[t] /\ Bounds(t)' \subseteq Bounds(t)
    PROVE  ApartInv'
BY DEF ApartInv

(* What is registered or a candidate is never on a cleanup list. *)
LEMMA ApartStep ==
    ASSUME TypeOK, LockInv, MadeInv, RegInv, CandInv, ApartInv, [Next]_vars
    PROVE  ApartInv'
<1> USE DEF At, Goto, rlock, table, duck, pool, job, bad
<1>1. CASE UNCHANGED vars
  BY <1>1, ApartKept, BoundsKept DEF vars
<1>2. ASSUME NEW self \in Threads, BeginReload(self)  PROVE ApartInv'
  <2>1. \A t \in Threads : Bounds(t)' = Bounds(t)
    BY <1>2, BoundsKept DEF BeginReload
  <2>2. \A t \in Threads, s \in Sources : cand'[t][s] \in {cand[t][s], Nothing}
    BY <1>2 DEF BeginReload, None, TypeOK
  <2> QED  BY <1>2, <2>1, <2>2, SlotsApart DEF BeginReload, ApartInv
<1>3. ASSUME NEW self \in Threads, PrepareCandidate(self)  PROVE ApartInv'
  <2>1. PICK s \in Sources : PrepareCandidate(self)!(s)
    BY <1>3 DEF PrepareCandidate
  <2>2. PICK h \in Handles : h = Fresh(s)
    BY FreshHandle
  <2>3. \A t \in Threads : Bounds(t)' = Bounds(t) /\ h \notin trash[t] \cup Bounds(t)
    BY <2>1, <2>2, BoundsKept, FreshIsNew
  <2>4. \A r \in Sources : reg[r] # h /\ \A t \in Threads : cand[t][r] # h
    BY <2>2, FreshApart
  <2>5. reg' = reg
    BY <2>1
  <2>6. CASE Kind[s] = "reader"
    <3>1. \A t \in Threads, r \in Sources : cand'[t][r] \in {cand[t][r], Provider}
      BY <2>1, <2>6 DEF Kept, TypeOK
    <3>2. \A t \in Threads : trash'[t] \subseteq trash[t] \cup {h}
      BY <2>1, <2>2 DEF TypeOK
    <3>3. Provider # h
      BY RegistrySlots
    <3> QED  BY <2>3, <2>4, <2>5, <3>1, <3>2, <3>3, SlotsApart DEF ApartInv
  <2>7. CASE Kind[s] # "reader"
    <3>1. \A t \in Threads, r \in Sources : cand'[t][r] \in {cand[t][r], h}
      BY <2>1, <2>2, <2>7 DEF Kept, TypeOK
    <3>2. \A t \in Threads : trash'[t] = trash[t]
      BY <2>1, <2>7 DEF TypeOK
    <3> QED  BY <2>3, <2>4, <2>5, <3>1, <3>2 DEF ApartInv
  <2> QED  BY <2>6, <2>7
<1>4. ASSUME NEW self \in Threads, PrepareFails(self)  PROVE ApartInv'
  <2>1. PICK s \in Sources : PrepareFails(self)!(s)
    BY <1>4 DEF PrepareFails
  <2>2. owner = self
    BY <2>1 DEF Prepares, LockInv
  <2>3. PICK more \in SUBSET (HandlesOf(cand[self]) \cup {Fresh(s)}) : GiveUp(self, more)
    BY <2>1
  <2>4. \A t \in Threads, r \in Sources : cand'[t][r] = Nothing
    BY <2>2, <2>3, OwnerCandidates DEF GiveUp, None, TypeOK
  <2>5. \A t \in Threads : trash'[t] \subseteq trash[t] \cup HandlesOf(cand[self]) \cup {Fresh(s)}
    BY <2>3 DEF GiveUp, TypeOK
  <2>6. /\ \A r \in Sources : reg[r] \notin HandlesOf(cand[self]) \cup {Fresh(s)}
        /\ Nothing \notin HandlesOf(cand[self]) \cup {Fresh(s)}
    BY FreshApart, RegisteredApart, FreshHandle, RegistrySlots DEF HandlesOf
  <2>7. reg' = reg /\ \A t \in Threads : Bounds(t)' = Bounds(t)
    BY <2>1, BoundsKept
  <2> QED  BY <2>4, <2>5, <2>6, <2>7, SlotsApart DEF ApartInv
<1>5. ASSUME NEW self \in Threads, BeginSwap(self)  PROVE ApartInv'
  BY <1>5, ApartKept, BoundsKept DEF BeginSwap
<1>6. ASSUME NEW self \in Threads, SwapCandidate(self)  PROVE ApartInv'
  BY <1>6, ApartKept, BoundsKept DEF SwapCandidate
<1>7. ASSUME NEW self \in Threads, SwapFails(self)  PROVE ApartInv'
  BY <1>7, ApartKept, BoundsKept DEF SwapFails
<1>8. ASSUME NEW self \in Threads, RestoreOld(self)  PROVE ApartInv'
  BY <1>8, ApartKept, BoundsKept DEF RestoreOld
<1>9. ASSUME NEW self \in Threads, RestoreLost(self)  PROVE ApartInv'
  BY <1>9, ApartKept, BoundsKept DEF RestoreLost
<1>10. ASSUME NEW self \in Threads, AbortReload(self)  PROVE ApartInv'
  <2>1. owner = self
    BY <1>10 DEF AbortReload, LockInv
  <2>2. \A t \in Threads, r \in Sources : cand'[t][r] = Nothing
    BY <1>10, <2>1, OwnerCandidates DEF AbortReload, GiveUp, None, TypeOK
  <2>3. \A t \in Threads : trash'[t] \subseteq trash[t] \cup HandlesOf(cand[self])
    BY <1>10 DEF AbortReload, GiveUp, TypeOK
  <2>4. /\ \A r \in Sources : reg[r] \notin HandlesOf(cand[self])
        /\ Nothing \notin HandlesOf(cand[self])
    BY RegisteredApart, RegistrySlots DEF HandlesOf
  <2>5. reg' = reg /\ \A t \in Threads : Bounds(t)' = Bounds(t)
    BY <1>10, BoundsKept DEF AbortReload
  <2> QED  BY <2>2, <2>3, <2>4, <2>5, SlotsApart DEF ApartInv
<1>11. ASSUME NEW self \in Threads, PublishReload(self)  PROVE ApartInv'
  <2>1. owner = self
    BY <1>11 DEF PublishReload, LockInv
  <2>2. \A t \in Threads, r \in Sources : cand'[t][r] = Nothing
    BY <1>11, <2>1, OwnerCandidates DEF PublishReload, GiveUp, None, TypeOK
  <2> DEFINE Old == {reg[s] : s \in goal[self]} \cap Handles
  <2>3. \A t \in Threads : trash'[t] \subseteq trash[t] \cup Old
    BY <1>11 DEF PublishReload, GiveUp, TypeOK
  <2>4. \A t \in Threads : Bounds(t)' = Bounds(t)
    BY <1>11, BoundsKept DEF PublishReload
  <2>5. \A r \in Sources :
           reg'[r] = IF r \in goal[self] THEN cand[self][r] ELSE reg[r]
    BY <1>11 DEF PublishReload
  <2>6. goal[self] \subseteq Sources
    BY DEF TypeOK
  <2>7. ASSUME NEW r \in Sources  PROVE reg'[r] \notin Old
    <3>1. CASE r \in goal[self]
      <4>1. \A s \in Sources : reg[s] # cand[self][r] \/ reg[s] \notin Handles
        BY RegisteredApart DEF HandlesOf
      <4> QED  BY <2>5, <2>6, <3>1, <4>1
    <3>2. CASE r \notin goal[self]
      <4>1. \A s \in goal[self] : reg[s] # reg[r] \/ reg[r] \notin Handles
        BY <2>6, <3>2, RegisteredApart
      <4> QED  BY <2>5, <3>2, <4>1
    <3> QED  BY <3>1, <3>2
  <2>8. Nothing \notin Old
    BY RegistrySlots
  <2> HIDE DEF Old
  <2> QED  BY <2>2, <2>3, <2>4, <2>5, <2>7, <2>8, SlotsApart DEF ApartInv
<1>12. ASSUME NEW self \in Threads, CloseReplaced(self)  PROVE ApartInv'
  <2>1. \A t \in Threads : trash'[t] \subseteq trash[t]
    BY <1>12 DEF CloseReplaced, TypeOK
  <2> QED  BY <1>12, <2>1, ApartKept, BoundsKept DEF CloseReplaced
<1>13. ASSUME NEW self \in Threads, EndReload(self)  PROVE ApartInv'
  BY <1>13, ApartKept, BoundsKept DEF EndReload
<1>14. ASSUME NEW self \in Threads, Close(self)  PROVE ApartInv'
  <2>1. \A s \in Sources : reg'[s] = Nothing
    BY <1>14 DEF Close, None
  <2>2. UNCHANGED <<cand, trash>> /\ \A t \in Threads : Bounds(t)' = Bounds(t)
    BY <1>14, BoundsKept DEF Close
  <2> QED  BY <2>1, <2>2, SlotsApart DEF ApartInv
<1>15. ASSUME NEW self \in Threads, BeginBind(self) \/ BeginScan(self)  PROVE ApartInv'
  <2>1. PICK S \in SUBSET Sources, stream \in Streams : Opens(self, S, stream)
    BY <1>15 DEF BeginBind, BeginScan, Streams
  <2>2. \A t \in Threads : Bounds(t)' = Bounds(t)
    BY <2>1, OpensStep
  <2> QED  BY <2>1, <2>2, ApartKept DEF Opens
<1>16. ASSUME NEW self \in Threads, BindSource(self)  PROVE ApartInv'
  <2>1. PICK s \in Sources : BindSource(self)!(s)
    BY <1>16 DEF BindSource
  <2>2. /\ Bounds(self)' = Bounds(self) \cup {Fresh(s)}
        /\ \A t \in Threads \ {self} : ctx'[t] = ctx[t]
    BY <2>1, BindContext
  <2>3. \A t \in Threads : Bounds(t)' \subseteq Bounds(t) \cup {Fresh(s)}
    BY <2>2 DEF Bounds, BoundsOf
  <2>4. \A r \in Sources : reg[r] # Fresh(s) /\ \A t \in Threads : cand[t][r] # Fresh(s)
    BY FreshApart
  <2> QED  BY <2>1, <2>3, <2>4 DEF ApartInv
<1>17. ASSUME NEW self \in Threads, BindFails(self) \/ ScanFails(self) \/ EndBind(self)  PROVE ApartInv'
  <2>1. PICK names \in SUBSET Sources : Leaves(self, names)
    BY <1>17, LeavesStep
  <2>2. \A t \in Threads : Bounds(t)' \subseteq Bounds(t)
    BY <2>1, LeavesContext
  <2> QED  BY <2>1, <2>2, ApartKept DEF Leaves
<1>18. ASSUME NEW self \in Threads, BindDone(self)  PROVE ApartInv'
  BY <1>18, ApartKept, BoundsKept DEF BindDone
<1>19. ASSUME NEW self \in Threads, ExecuteQuery(self)  PROVE ApartInv'
  BY <1>19, ApartKept, BoundsKept DEF ExecuteQuery
<1>20. ASSUME NEW self \in Threads, FetchResult(self)  PROVE ApartInv'
  BY <1>20, ApartKept, BoundsKept DEF FetchResult
<1>21. ASSUME NEW self \in Threads, ReadBatch(self)  PROVE ApartInv'
  BY <1>21, ApartKept, BoundsKept DEF ReadBatch
<1>22. ASSUME NEW self \in Threads, Recheck(self)  PROVE ApartInv'
  <2>1. PICK s \in Top(self).srcs : Recheck(self)!2!(s)
    BY <1>22 DEF Recheck
  <2>2. s \in Sources
    BY <1>22, <2>1, TopBound DEF Recheck, Scans, Context
  <2>3. \A r \in Sources : reg[r] # Fresh(s) /\ \A t \in Threads : cand[t][r] # Fresh(s)
    BY <2>2, FreshApart
  <2>4. \A t \in Threads : trash'[t] \subseteq trash[t] \cup {Fresh(s)}
    BY <2>1 DEF TypeOK
  <2>5. UNCHANGED <<reg, cand>> /\ \A t \in Threads : Bounds(t)' = Bounds(t)
    BY <1>22, BoundsKept DEF Recheck
  <2> QED  BY <2>3, <2>4, <2>5 DEF ApartInv
<1>23. ASSUME NEW self \in Threads, CancelScan(self)  PROVE ApartInv'
  <2>1. \A t \in Threads : Bounds(t)' = Bounds(t)
    BY <1>23, CancelContext
  <2> QED  BY <1>23, <2>1, ApartKept DEF CancelScan
<1> QED
    BY <1>1, <1>2, <1>3, <1>4, <1>5, <1>6, <1>7, <1>8, <1>9, <1>10, <1>11, <1>12, <1>13, <1>14, <1>15, <1>16, <1>17, <1>18, <1>19, <1>20, <1>21, <1>22, <1>23
     DEF Next, Step, Reload, Binding

(* A handle is held by who has to close it. *)
Held(h) ==
    \/ \E s \in Sources : reg[s] = h
    \/ \E t \in Threads : \/ \E s \in Sources : cand[t][s] = h
                          \/ h \in trash[t] \cup Bounds(t)

AllHeld == \A h \in live : Held(h)

(* NoLeak says of each open handle that somebody holds it. *)
LEMMA NoLeakHeld == live \subseteq Handles => (NoLeak <=> AllHeld)
<1> SUFFICES ASSUME live \subseteq Handles PROVE NoLeak <=> AllHeld
  OBVIOUS
<1> DEFINE Kin == UNION {HandlesOf(cand[self]) \cup trash[self] : self \in Threads}
           Tied == UNION {UNION {ctx[self][i].bound : i \in DOMAIN ctx[self]} :
                             self \in Threads}
<1>1. NoLeak <=> live \subseteq HandlesOf(reg) \cup Kin \cup Tied
  BY DEF NoLeak
<1>2. ASSUME NEW h \in live  PROVE Held(h) <=> h \in HandlesOf(reg) \cup Kin \cup Tied
  <2>1. /\ h \in HandlesOf(reg) <=> \E s \in Sources : reg[s] = h
        /\ \A t \in Threads : h \in HandlesOf(cand[t]) <=> \E s \in Sources : cand[t][s] = h
    BY DEF HandlesOf
  <2>2. h \in Kin <=> \E t \in Threads : h \in HandlesOf(cand[t]) \cup trash[t]
    OBVIOUS
  <2>3. h \in Tied <=> \E t \in Threads : h \in Bounds(t)
    BY DEF Bounds, BoundsOf
  <2> HIDE DEF Kin, Tied
  <2> QED  BY <2>1, <2>2, <2>3 DEF Held
<1> HIDE DEF Kin, Tied
<1> QED  BY <1>1, <1>2 DEF AllHeld

(* A handle stays held while the tables stay and the lists only grow. *)
LEMMA HeldKept ==
    ASSUME UNCHANGED <<reg, cand>>, NEW h, Held(h),
           \A t \in Threads : trash[t] \subseteq trash'[t] /\ Bounds(t) \subseteq Bounds(t)'
    PROVE  Held(h)'
BY DEF Held

(* No step lets go of a handle it does not close. *)
LEMMA HeldStep ==
    ASSUME TypeOK, LockInv, MadeInv, CandInv, AllHeld, [Next]_vars
    PROVE  AllHeld'
<1> USE DEF At, Goto, rlock, table, duck, pool, job, bad
<1>1. CASE UNCHANGED vars
  BY <1>1, HeldKept, BoundsKept DEF vars, AllHeld
<1>2. ASSUME NEW self \in Threads, BeginReload(self)  PROVE AllHeld'
  <2>1. \A t \in Threads, s \in Sources : cand[t][s] = Nothing \/ cand'[t][s] = cand[t][s]
    BY <1>2 DEF BeginReload, None, TypeOK, CandInv, CandOf, Prepared, Reloading
  <2>2. UNCHANGED <<reg, live, trash>> /\ \A t \in Threads : Bounds(t)' = Bounds(t)
    BY <1>2, BoundsKept DEF BeginReload
  <2>3. Nothing \notin live
    BY RegistrySlots DEF TypeOK
  <2> QED  BY <2>1, <2>2, <2>3 DEF AllHeld, Held
<1>3. ASSUME NEW self \in Threads, PrepareCandidate(self)  PROVE AllHeld'
  <2>1. PICK s \in Sources : PrepareCandidate(self)!(s)
    BY <1>3 DEF PrepareCandidate
  <2>2. PICK h \in Handles : h = Fresh(s)
    BY FreshHandle
  <2>3. \A t \in Threads : Bounds(t)' = Bounds(t)
    BY <2>1, BoundsKept
  <2>4. \A t \in Threads, r \in Sources : cand[t][r] = Nothing \/ cand'[t][r] = cand[t][r]
    BY <2>1 DEF TypeOK, CandInv, CandOf, Prepared, Prepares, First
  <2>5. \A t \in Threads : trash[t] \subseteq trash'[t]
    BY <2>1 DEF TypeOK
  <2>6. Nothing \notin live
    BY RegistrySlots DEF TypeOK
  <2>7. ASSUME NEW g \in live  PROVE Held(g)'
    BY <2>1, <2>3, <2>4, <2>5, <2>6, <2>7 DEF AllHeld, Held
  <2>8. Held(h)'
    <3>1. h \in trash'[self] \/ cand'[self][s] = h
      BY <2>1, <2>2 DEF Kept, TypeOK
    <3> QED  BY <3>1 DEF Held
  <2> QED  BY <2>1, <2>2, <2>7, <2>8 DEF AllHeld
<1>4. ASSUME NEW self \in Threads, PrepareFails(self)  PROVE AllHeld'
  <2>1. PICK s \in Sources : PrepareFails(self)!(s)
    BY <1>4 DEF PrepareFails
  <2>2. UNCHANGED reg /\ \A t \in Threads : Bounds(t)' = Bounds(t)
    BY <2>1, BoundsKept
  <2>3. /\ trash[self] \cup HandlesOf(cand[self]) \cup (live' \ live) \subseteq trash'[self]
        /\ \A t \in Threads \ {self} : cand'[t] = cand[t] /\ trash'[t] = trash[t]
    BY <2>1 DEF GiveUp, TypeOK
  <2>4. ASSUME NEW h \in live  PROVE Held(h)'
    <3>1. Held(h) /\ h \in Handles
      BY DEF AllHeld, TypeOK
    <3>2. (\E r \in Sources : cand[self][r] = h) => h \in trash'[self]
      BY <2>3, <3>1 DEF HandlesOf
    <3> QED  BY <2>2, <2>3, <3>1, <3>2 DEF Held
  <2> QED  BY <2>3, <2>4 DEF AllHeld, Held
<1>5. ASSUME NEW self \in Threads, BeginSwap(self)  PROVE AllHeld'
  BY <1>5, HeldKept, BoundsKept DEF BeginSwap, AllHeld
<1>6. ASSUME NEW self \in Threads, SwapCandidate(self)  PROVE AllHeld'
  BY <1>6, HeldKept, BoundsKept DEF SwapCandidate, AllHeld
<1>7. ASSUME NEW self \in Threads, SwapFails(self)  PROVE AllHeld'
  BY <1>7, HeldKept, BoundsKept DEF SwapFails, AllHeld
<1>8. ASSUME NEW self \in Threads, RestoreOld(self)  PROVE AllHeld'
  BY <1>8, HeldKept, BoundsKept DEF RestoreOld, AllHeld
<1>9. ASSUME NEW self \in Threads, RestoreLost(self)  PROVE AllHeld'
  BY <1>9, HeldKept, BoundsKept DEF RestoreLost, AllHeld
<1>10. ASSUME NEW self \in Threads, AbortReload(self)  PROVE AllHeld'
  <2>1. UNCHANGED <<reg, live>> /\ \A t \in Threads : Bounds(t)' = Bounds(t)
    BY <1>10, BoundsKept DEF AbortReload
  <2>2. /\ trash'[self] = trash[self] \cup HandlesOf(cand[self])
        /\ \A t \in Threads \ {self} : cand'[t] = cand[t] /\ trash'[t] = trash[t]
    BY <1>10 DEF AbortReload, GiveUp, TypeOK
  <2>3. ASSUME NEW h \in live  PROVE Held(h)'
    <3>1. Held(h) /\ h \in Handles
      BY DEF AllHeld, TypeOK
    <3>2. (\E r \in Sources : cand[self][r] = h) => h \in trash'[self]
      BY <2>2, <3>1 DEF HandlesOf
    <3> QED  BY <2>1, <2>2, <3>1, <3>2 DEF Held
  <2> QED  BY <2>1, <2>3 DEF AllHeld
<1>11. ASSUME NEW self \in Threads, PublishReload(self)  PROVE AllHeld'
  <2>1. UNCHANGED live /\ \A t \in Threads : Bounds(t)' = Bounds(t)
    BY <1>11, BoundsKept DEF PublishReload
  <2>2. /\ trash'[self] = trash[self] \cup ({reg[s] : s \in goal[self]} \cap Handles)
        /\ \A t \in Threads \ {self} : cand'[t] = cand[t] /\ trash'[t] = trash[t]
    BY <1>11 DEF PublishReload, GiveUp, TypeOK
  <2>3. \A s \in Sources : reg'[s] = IF s \in goal[self] THEN cand[self][s] ELSE reg[s]
    BY <1>11 DEF PublishReload
  <2>4. ASSUME NEW h \in live  PROVE Held(h)'
    <3>1. Held(h) /\ h \in Handles /\ h # Nothing
      BY RegistrySlots DEF AllHeld, TypeOK
    <3>2. CASE \E s \in Sources : reg[s] = h
      BY <2>2, <2>3, <3>1, <3>2 DEF Held
    <3>3. CASE \E s \in Sources : cand[self][s] = h
      <4>1. PICK s \in Sources : cand[self][s] = h
        BY <3>3
      <4>2. s \in goal[self]
        BY <3>1, <4>1 DEF CandInv, CandOf, Prepared
      <4> QED  BY <2>3, <4>1, <4>2 DEF Held
    <3> QED  BY <2>1, <2>2, <3>1, <3>2, <3>3 DEF Held
  <2> QED  BY <2>1, <2>4 DEF AllHeld
<1>12. ASSUME NEW self \in Threads, CloseReplaced(self)  PROVE AllHeld'
  <2>1. PICK h \in trash[self] : CloseReplaced(self)!(h)
    BY <1>12 DEF CloseReplaced
  <2>2. \A t \in Threads : Bounds(t)' = Bounds(t) /\ trash[t] \subseteq trash'[t] \cup {h}
    BY <2>1, BoundsKept DEF TypeOK
  <2> QED  BY <2>1, <2>2 DEF AllHeld, Held
<1>13. ASSUME NEW self \in Threads, EndReload(self)  PROVE AllHeld'
  BY <1>13, HeldKept, BoundsKept DEF EndReload, AllHeld
<1>14. ASSUME NEW self \in Threads, Close(self)  PROVE AllHeld'
  <2>1. UNCHANGED <<cand, trash>> /\ \A t \in Threads : Bounds(t)' = Bounds(t)
    BY <1>14, BoundsKept DEF Close
  <2>2. live' \subseteq live /\ \A h \in live' : \A s \in Sources : reg[s] # h
    BY <1>14 DEF Close, HandlesOf, TypeOK
  <2> QED  BY <2>1, <2>2 DEF AllHeld, Held
<1>15. ASSUME NEW self \in Threads, BeginBind(self) \/ BeginScan(self)  PROVE AllHeld'
  <2>1. PICK S \in SUBSET Sources, stream \in Streams : Opens(self, S, stream)
    BY <1>15 DEF BeginBind, BeginScan, Streams
  <2>2. \A t \in Threads : Bounds(t)' = Bounds(t)
    BY <2>1, OpensStep
  <2> QED  BY <2>1, <2>2, HeldKept DEF Opens, AllHeld
<1>16. ASSUME NEW self \in Threads, BindSource(self)  PROVE AllHeld'
  <2>1. PICK s \in Sources : BindSource(self)!(s)
    BY <1>16 DEF BindSource
  <2>2. /\ Bounds(self)' = Bounds(self) \cup {Fresh(s)}
        /\ \A t \in Threads \ {self} : ctx'[t] = ctx[t]
    BY <2>1, BindContext
  <2>3. \A t \in Threads : Bounds(t) \subseteq Bounds(t)'
    BY <2>2 DEF Bounds, BoundsOf
  <2>4. \A h \in live : Held(h)'
    BY <2>1, <2>3, HeldKept DEF AllHeld
  <2>5. \A h \in live' : h \in live \/ h \in Bounds(self)'
    BY <2>1, <2>2
  <2> QED  BY <2>4, <2>5 DEF AllHeld, Held
<1>17. ASSUME NEW self \in Threads, BindFails(self) \/ ScanFails(self) \/ EndBind(self)  PROVE AllHeld'
  <2>1. PICK names \in SUBSET Sources : Leaves(self, names)
    BY <1>17, LeavesStep
  <2>2. /\ Bounds(self) = Bounds(self)' \cup Top(self).bound
        /\ \A t \in Threads \ {self} : ctx'[t] = ctx[t]
    BY <2>1, LeavesContext
  <2>3. \A t \in Threads \ {self} : Bounds(t)' = Bounds(t)
    BY <2>2 DEF Bounds, BoundsOf
  <2>4. UNCHANGED <<reg, cand, trash>> /\ live' = live \ Top(self).bound
    BY <2>1 DEF Leaves, Unbind
  <2> QED  BY <2>2, <2>3, <2>4 DEF AllHeld, Held
<1>18. ASSUME NEW self \in Threads, BindDone(self)  PROVE AllHeld'
  BY <1>18, HeldKept, BoundsKept DEF BindDone, AllHeld
<1>19. ASSUME NEW self \in Threads, ExecuteQuery(self)  PROVE AllHeld'
  BY <1>19, HeldKept, BoundsKept DEF ExecuteQuery, AllHeld
<1>20. ASSUME NEW self \in Threads, FetchResult(self)  PROVE AllHeld'
  BY <1>20, HeldKept, BoundsKept DEF FetchResult, AllHeld
<1>21. ASSUME NEW self \in Threads, ReadBatch(self)  PROVE AllHeld'
  BY <1>21, HeldKept, BoundsKept DEF ReadBatch, AllHeld
<1>22. ASSUME NEW self \in Threads, Recheck(self)  PROVE AllHeld'
  <2>1. PICK s \in Top(self).srcs : Recheck(self)!2!(s)
    BY <1>22 DEF Recheck
  <2>2. UNCHANGED <<reg, cand>> /\ \A t \in Threads : Bounds(t)' = Bounds(t)
    BY <1>22, BoundsKept DEF Recheck
  <2>3. \A t \in Threads : trash[t] \subseteq trash'[t]
    BY <2>1 DEF TypeOK
  <2>4. live' = live \cup {Fresh(s)} /\ Fresh(s) \in trash'[self]
    BY <2>1 DEF TypeOK
  <2>5. \A h \in live : Held(h)'
    BY <2>2, <2>3, HeldKept DEF AllHeld
  <2> QED  BY <2>4, <2>5 DEF AllHeld, Held
<1>23. ASSUME NEW self \in Threads, CancelScan(self)  PROVE AllHeld'
  <2>1. \A t \in Threads : Bounds(t)' = Bounds(t)
    BY <1>23, CancelContext
  <2> QED  BY <1>23, <2>1, HeldKept DEF CancelScan, AllHeld
<1> QED
    BY <1>1, <1>2, <1>3, <1>4, <1>5, <1>6, <1>7, <1>8, <1>9, <1>10, <1>11, <1>12, <1>13, <1>14, <1>15, <1>16, <1>17, <1>18, <1>19, <1>20, <1>21, <1>22, <1>23
     DEF Next, Step, Reload, Binding

(* A query-scoped name is bound to an open handle that no reload has to close. *)
LEMMA ScopedName ==
    ASSUME TypeOK, RegInv, CandInv, ScopedConnInv, NEW s \in Scoped, conn[s] # Nothing
    PROVE  /\ conn[s] \in live /\ conn[s] \in Handles /\ conn[s][1] = s
           /\ conn[s] # Provider
           /\ conn[s] \notin HandlesOf(reg)
           /\ \A t \in Threads : conn[s] \notin HandlesOf(cand[t])
<1>1. conn[s] \in live /\ conn[s] \in Handles /\ conn[s][1] = s
  BY DEF ScopedConnInv, OpenHandle, TypeOK
<1>2. \A r \in Sources \ {s} : reg[r] # conn[s]
  BY <1>1, RegistrySlots DEF RegInv, OpenHandle
<1>3. \A t \in Threads : \A r \in Sources \ {s} : cand[t][r] # conn[s]
  BY <1>1, RegistrySlots DEF CandInv, CandOf, Newer, OpenHandle
<1> QED  BY <1>1, <1>2, <1>3, RegistrySlots DEF ScopedConnInv, HandlesOf

(* A query-scoped name never resolves to a handle that was closed. *)
LEMMA ScopedConnStep ==
    ASSUME TypeOK, LockInv, MadeInv, RegInv, CandInv, ApartInv, ScopedConnInv, [Next]_vars
    PROVE  ScopedConnInv'
<1> USE DEF At, Goto, rlock, table, duck, pool, job, bad
<1>1. CASE UNCHANGED vars
  BY <1>1 DEF vars, ScopedConnInv, OpenHandle
<1>2. ASSUME NEW self \in Threads, BeginReload(self)  PROVE ScopedConnInv'
  <2>1. \A t \in Threads, s \in Sources : cand'[t][s] \in {cand[t][s], Nothing}
    BY <1>2 DEF BeginReload, None, TypeOK
  <2>2. UNCHANGED <<reg, conn, live, trash>>
    BY <1>2 DEF BeginReload
  <2> QED  BY <2>1, <2>2 DEF ScopedConnInv, OpenHandle, Scoped
<1>3. ASSUME NEW self \in Threads, PrepareCandidate(self)  PROVE ScopedConnInv'
  <2>1. PICK s \in Sources : PrepareCandidate(self)!(s)
    BY <1>3 DEF PrepareCandidate
  <2>2. \A t \in Threads, r \in Sources : cand'[t][r] \in {cand[t][r], Provider, Fresh(s)}
    BY <2>1 DEF Kept, TypeOK
  <2>3. \A t \in Threads : trash'[t] \subseteq trash[t] \cup {Fresh(s)}
    BY <2>1 DEF TypeOK
  <2>4. UNCHANGED <<reg, conn>> /\ live' = live \cup {Fresh(s)} /\ Fresh(s) \notin live
    BY <2>1, FreshIsNew
  <2> QED  BY <2>2, <2>3, <2>4, ScopedName DEF ScopedConnInv, OpenHandle, Scoped
<1>4. ASSUME NEW self \in Threads, PrepareFails(self)  PROVE ScopedConnInv'
  <2>1. PICK s \in Sources : PrepareFails(self)!(s)
    BY <1>4 DEF PrepareFails
  <2>2. PICK more \in SUBSET (HandlesOf(cand[self]) \cup {Fresh(s)}) : GiveUp(self, more)
    BY <2>1
  <2>3. \A t \in Threads, r \in Sources : cand'[t][r] \in {cand[t][r], Nothing}
    BY <2>2 DEF GiveUp, None, TypeOK
  <2>4. \A t \in Threads : trash'[t] \subseteq trash[t] \cup HandlesOf(cand[self]) \cup {Fresh(s)}
    BY <2>2 DEF GiveUp, TypeOK
  <2>5. UNCHANGED <<reg, conn>> /\ live \subseteq live' /\ Fresh(s) \notin live
    BY <2>1, FreshIsNew
  <2> QED  BY <2>3, <2>4, <2>5, ScopedName DEF ScopedConnInv, OpenHandle, Scoped
<1>5. ASSUME NEW self \in Threads, BeginSwap(self)  PROVE ScopedConnInv'
  BY <1>5 DEF BeginSwap, ScopedConnInv, OpenHandle
<1>6. ASSUME NEW self \in Threads, SwapCandidate(self)  PROVE ScopedConnInv'
  <2>1. UNCHANGED <<reg, live, cand, trash>> /\ \A s \in Scoped : conn'[s] = conn[s]
    BY <1>6 DEF SwapCandidate, Registers, Scoped, TypeOK
  <2> QED  BY <2>1 DEF ScopedConnInv, OpenHandle
<1>7. ASSUME NEW self \in Threads, SwapFails(self)  PROVE ScopedConnInv'
  <2>1. UNCHANGED <<reg, live, cand, trash>> /\ \A s \in Scoped : conn'[s] = conn[s]
    BY <1>7 DEF SwapFails, Persistent, Scoped, TypeOK
  <2> QED  BY <2>1 DEF ScopedConnInv, OpenHandle
<1>8. ASSUME NEW self \in Threads, RestoreOld(self)  PROVE ScopedConnInv'
  <2>1. UNCHANGED <<reg, live, cand, trash>> /\ \A s \in Scoped : conn'[s] = conn[s]
    BY <1>8 DEF RestoreOld, Registers, Scoped, TypeOK
  <2> QED  BY <2>1 DEF ScopedConnInv, OpenHandle
<1>9. ASSUME NEW self \in Threads, RestoreLost(self)  PROVE ScopedConnInv'
  BY <1>9 DEF RestoreLost, ScopedConnInv, OpenHandle
<1>10. ASSUME NEW self \in Threads, AbortReload(self)  PROVE ScopedConnInv'
  <2>1. \A t \in Threads, r \in Sources : cand'[t][r] \in {cand[t][r], Nothing}
    BY <1>10 DEF AbortReload, GiveUp, None, TypeOK
  <2>2. \A t \in Threads : trash'[t] \subseteq trash[t] \cup HandlesOf(cand[self])
    BY <1>10 DEF AbortReload, GiveUp, TypeOK
  <2>3. UNCHANGED <<reg, conn, live>>
    BY <1>10 DEF AbortReload
  <2> QED  BY <2>1, <2>2, <2>3, ScopedName DEF ScopedConnInv, OpenHandle, Scoped
<1>11. ASSUME NEW self \in Threads, PublishReload(self)  PROVE ScopedConnInv'
  <2>1. \A t \in Threads, r \in Sources : cand'[t][r] \in {cand[t][r], Nothing}
    BY <1>11 DEF PublishReload, GiveUp, None, TypeOK
  <2>2. \A t \in Threads : trash'[t] \subseteq trash[t] \cup HandlesOf(reg)
    BY <1>11 DEF PublishReload, GiveUp, HandlesOf, TypeOK
  <2>3. UNCHANGED <<conn, live>> /\ \A r \in Sources : reg'[r] \in {reg[r], cand[self][r]}
    BY <1>11 DEF PublishReload
  <2> QED  BY <2>1, <2>2, <2>3, ScopedName DEF ScopedConnInv, OpenHandle, Scoped
<1>12. ASSUME NEW self \in Threads, CloseReplaced(self)  PROVE ScopedConnInv'
  <2>1. PICK h \in trash[self] : CloseReplaced(self)!(h)
    BY <1>12 DEF CloseReplaced
  <2>2. \A t \in Threads : trash'[t] \subseteq trash[t]
    BY <2>1 DEF TypeOK
  <2> QED  BY <2>1, <2>2 DEF ScopedConnInv, OpenHandle
<1>13. ASSUME NEW self \in Threads, EndReload(self)  PROVE ScopedConnInv'
  BY <1>13 DEF EndReload, ScopedConnInv, OpenHandle
<1>14. ASSUME NEW self \in Threads, Close(self)  PROVE ScopedConnInv'
  BY <1>14 DEF Close, None, ScopedConnInv, Scoped
<1>15. ASSUME NEW self \in Threads, BeginBind(self) \/ BeginScan(self)  PROVE ScopedConnInv'
  <2>1. PICK S \in SUBSET Sources, stream \in Streams : Opens(self, S, stream)
    BY <1>15 DEF BeginBind, BeginScan, Streams
  <2> QED  BY <2>1 DEF Opens, ScopedConnInv, OpenHandle
<1>16. ASSUME NEW self \in Threads, BindSource(self)  PROVE ScopedConnInv'
  <2>1. PICK s \in Sources : BindSource(self)!(s)
    BY <1>16 DEF BindSource
  <2>2. PICK h : h = Fresh(s)
    OBVIOUS
  <2>3. /\ h[1] = s /\ \A t \in Threads : h \notin trash[t]
        /\ reg[s] # h /\ \A t \in Threads : cand[t][s] # h
    BY <2>2, FreshHandle, FreshIsNew, FreshApart
  <2>4. UNCHANGED <<reg, cand, trash>> /\ live' = live \cup {h}
    BY <2>1, <2>2
  <2>5. \A r \in Sources : conn'[r] = IF r = s THEN h ELSE conn[r]
    BY <2>1, <2>2 DEF TypeOK
  <2>6. ASSUME NEW r \in Scoped, conn'[r] # Nothing
        PROVE  /\ conn'[r] \in live' /\ conn'[r][1] = r /\ conn'[r] # reg'[r]
               /\ \A t \in Threads : conn'[r] # cand'[t][r] /\ conn'[r] \notin trash'[t]
    BY <2>3, <2>4, <2>5, <2>6 DEF ScopedConnInv, OpenHandle, Scoped
  <2> QED  BY <2>6 DEF ScopedConnInv, OpenHandle
<1>17. ASSUME NEW self \in Threads, BindFails(self) \/ ScanFails(self) \/ EndBind(self)  PROVE ScopedConnInv'
  <2>1. PICK names \in SUBSET Sources : Leaves(self, names)
    BY <1>17, LeavesStep
  <2>2. \A s \in Sources : conn'[s] = IF s \in names THEN Nothing ELSE conn[s]
    BY <2>1 DEF Leaves, Unbind
  <2>3. \A h \in Top(self).bound : h[1] \in names
    BY <2>1 DEF Leaves, BoundNames
  <2>4. UNCHANGED <<reg, cand, trash>> /\ live' = live \ Top(self).bound
    BY <2>1 DEF Leaves, Unbind
  <2> QED  BY <2>2, <2>3, <2>4 DEF ScopedConnInv, OpenHandle, Scoped
<1>18. ASSUME NEW self \in Threads, BindDone(self)  PROVE ScopedConnInv'
  BY <1>18 DEF BindDone, ScopedConnInv, OpenHandle
<1>19. ASSUME NEW self \in Threads, ExecuteQuery(self)  PROVE ScopedConnInv'
  BY <1>19 DEF ExecuteQuery, ScopedConnInv, OpenHandle
<1>20. ASSUME NEW self \in Threads, FetchResult(self)  PROVE ScopedConnInv'
  BY <1>20 DEF FetchResult, ScopedConnInv, OpenHandle
<1>21. ASSUME NEW self \in Threads, ReadBatch(self)  PROVE ScopedConnInv'
  BY <1>21 DEF ReadBatch, ScopedConnInv, OpenHandle
<1>22. ASSUME NEW self \in Threads, Recheck(self)  PROVE ScopedConnInv'
  <2>1. PICK s \in Top(self).srcs : Recheck(self)!2!(s)
    BY <1>22 DEF Recheck
  <2>2. s \in Sources
    BY <1>22, <2>1, TopBound DEF Recheck, Scans, Context
  <2>3. UNCHANGED <<reg, conn, cand>> /\ live' = live \cup {Fresh(s)} /\ Fresh(s) \notin live
    BY <1>22, <2>1, <2>2, FreshIsNew DEF Recheck
  <2>4. \A t \in Threads : trash'[t] \subseteq trash[t] \cup {Fresh(s)}
    BY <2>1 DEF TypeOK
  <2> QED  BY <2>3, <2>4, ScopedName DEF ScopedConnInv, OpenHandle, Scoped
<1>23. ASSUME NEW self \in Threads, CancelScan(self)  PROVE ScopedConnInv'
  BY <1>23 DEF CancelScan, ScopedConnInv, OpenHandle
<1> QED
    BY <1>1, <1>2, <1>3, <1>4, <1>5, <1>6, <1>7, <1>8, <1>9, <1>10, <1>11, <1>12, <1>13, <1>14, <1>15, <1>16, <1>17, <1>18, <1>19, <1>20, <1>21, <1>22, <1>23
     DEF Next, Step, Reload, Binding

(* While one thread has the lock no other is in a reload. *)
LEMMA Alone ==
    ASSUME LockInv, NEW self \in Threads, owner = self
    PROVE  \A t \in Threads \ {self} : pc[t] \in {"idle", "cleanup"}
BY DEF LockInv

(* With no reload at the connection it serves what is registered. *)
LEMMA Settled ==
    ASSUME ConnInv, lost = 0, \A t \in Threads : pc[t] \notin {"swap", "restore"}
    PROVE  \A s \in Persistent : conn[s] = reg[s]
BY DEF ConnInv, SwappedBy

(* The connection stays explained by the registry and the swaps under way. *)
LEMMA ConnKept ==
    ASSUME ConnInv, UNCHANGED <<reg, lost>>, \A s \in Persistent : conn'[s] = conn[s],
           \A t \in Threads :
              \/ pc[t] \notin {"swap", "restore"} /\ pc'[t] \notin {"swap", "restore"}
              \/ pc'[t] = pc[t] /\ goal'[t] = goal[t] /\ todo'[t] = todo[t] /\ cand'[t] = cand[t]
    PROVE  ConnInv'
BY DEF ConnInv, SwappedBy

(* Only the names of query-scoped sources are given up with a context. *)
LEMMA LeavesScoped ==
    ASSUME TypeOK, LockInv, MadeInv, CandInv, NEW self \in Threads,
           BindFails(self) \/ ScanFails(self) \/ EndBind(self)
    PROVE  \E names \in SUBSET Scoped : Leaves(self, names)
<1>1. ctx[self] # <<>>
  BY DEF BindFails, ScanFails, EndBind, Binds, At, LockInv
<1>2. BoundNames(self) \subseteq Scoped
  BY <1>1, TopBound DEF BoundNames, MadeInv, ScopedKnown
<1>3. CASE BindFails(self)
  <2>1. PICK s \in Sources : BindFails(self)!(s)
    BY <1>3 DEF BindFails
  <2>2. s \in Scoped
    BY <2>1 DEF Binds, First, At, CandInv, CandOf
  <2>3. Leaves(self, BoundNames(self) \cup {s})
    BY <1>1, <2>1 DEF Leaves, Fault, TypeOK, bad, Binds, At
  <2> QED  BY <1>2, <2>2, <2>3
<1>4. CASE ScanFails(self)
  <2>1. Leaves(self, BoundNames(self))
    BY <1>1, <1>4 DEF ScanFails, Leaves, Fault, TypeOK, bad, At
  <2> QED  BY <1>2, <2>1
<1>5. CASE EndBind(self)
  <2>1. Leaves(self, BoundNames(self))
    BY <1>1, <1>5 DEF EndBind, Leaves, TypeOK, bad, At
  <2> QED  BY <1>2, <2>1
<1> QED  BY <1>3, <1>4, <1>5

(* A name resolves to what is registered, or a reload is at it. *)
LEMMA ConnStep ==
    ASSUME TypeOK, LockInv, MadeInv, RegInv, CandInv, ConnInv, [Next]_vars
    PROVE  ConnInv'
<1> USE DEF At, Goto, rlock, table, duck, pool, job, bad
<1>1. CASE UNCHANGED vars
  BY <1>1, ConnKept DEF vars
<1>2. ASSUME NEW self \in Threads, BeginReload(self)  PROVE ConnInv'
  BY <1>2, ConnKept DEF BeginReload, TypeOK
<1>3. ASSUME NEW self \in Threads, PrepareCandidate(self)  PROVE ConnInv'
  BY <1>3, ConnKept DEF PrepareCandidate, Prepares, TypeOK
<1>4. ASSUME NEW self \in Threads, PrepareFails(self)  PROVE ConnInv'
  <2>1. UNCHANGED <<conn, reg, lost>> /\ pc[self] = "prepare" /\ pc'[self] = "cleanup"
    BY <1>4 DEF PrepareFails, Prepares, Fault, GiveUp, TypeOK
  <2>2. \A t \in Threads \ {self} : pc'[t] = pc[t] /\ goal'[t] = goal[t]
           /\ todo'[t] = todo[t] /\ cand'[t] = cand[t]
    BY <1>4 DEF PrepareFails, GiveUp, TypeOK
  <2> QED  BY <2>1, <2>2, ConnKept
<1>5. ASSUME NEW self \in Threads, BeginSwap(self)  PROVE ConnInv'
  <2>1. owner = self /\ pc'[self] = "swap" /\ todo'[self] = goal'[self]
    BY <1>5 DEF BeginSwap, LockInv, TypeOK
  <2>2. \A t \in Threads \ {self} : pc'[t] \in {"idle", "cleanup"} /\ pc[t] \in {"idle", "cleanup"}
    BY <1>5, <2>1, Alone DEF BeginSwap, TypeOK
  <2>3. pc[self] = "prepare" /\ UNCHANGED <<lost, conn, reg>>
    BY <1>5 DEF BeginSwap
  <2>4. lost = 0 => \A s \in Persistent : conn'[s] = reg'[s]
    BY <2>2, <2>3, Settled
  <2> QED  BY <2>1, <2>2, <2>3, <2>4 DEF ConnInv
<1>6. ASSUME NEW self \in Threads, SwapCandidate(self)  PROVE ConnInv'
  <2>1. PICK s \in Sources : SwapCandidate(self)!(s)
    BY <1>6 DEF SwapCandidate
  <2>2. /\ pc[self] = "swap" /\ s \in todo[self] /\ UNCHANGED <<reg, pc, goal, cand, lost>>
        /\ todo'[self] = todo[self] \ {s}
        /\ \A t \in Threads \ {self} : todo'[t] = todo[t]
    BY <2>1 DEF Swaps, First, TypeOK
  <2>3. \A r \in Persistent : conn'[r] = IF r = s THEN cand[self][s] ELSE conn[r]
    BY <2>1 DEF Registers, TypeOK, Persistent
  <2>4. \A t \in Threads \ {self} : pc[t] \in {"idle", "cleanup"}
    BY <2>2, Alone DEF LockInv
  <2>5. goal[self] \subseteq Sources /\ todo[self] \subseteq goal[self]
    BY <2>2 DEF TypeOK, CandInv, CandOf, Reloading
  <2>6. ASSUME lost = 0, NEW r \in Persistent
        PROVE  /\ conn'[r] = reg'[r] \/ SwappedBy(self, r)'
               /\ r \in goal'[self] \ todo'[self] => conn'[r] = cand'[self][r]
    <3>1. conn[r] = reg[r] \/ SwappedBy(self, r)
      BY <2>4, <2>6 DEF ConnInv, SwappedBy
    <3>2. r \in goal[self] \ todo[self] => conn[r] = cand[self][r]
      BY <2>2, <2>6 DEF ConnInv
    <3> QED  BY <2>2, <2>3, <2>5, <3>1, <3>2 DEF SwappedBy
  <2> QED  BY <2>2, <2>4, <2>6 DEF ConnInv
<1>7. ASSUME NEW self \in Threads, SwapFails(self)  PROVE ConnInv'
  <2>1. PICK s \in Persistent : SwapFails(self)!(s)
    BY <1>7 DEF SwapFails
  <2>2. /\ pc[self] = "swap" /\ s \in todo[self] /\ UNCHANGED <<reg, goal, cand, lost>>
        /\ todo'[self] = (goal[self] \ todo[self]) \cup {s} /\ pc'[self] = "restore"
        /\ \A t \in Threads \ {self} : todo'[t] = todo[t] /\ pc'[t] = pc[t]
    BY <2>1 DEF Swaps, First, TypeOK, Fault
  <2>3. /\ \A r \in Persistent \ {s} : conn'[r] = conn[r]
        /\ conn'[s] \in {conn[s], cand[self][s]}
    BY <2>1 DEF TypeOK, Persistent
  <2>4. \A t \in Threads \ {self} : pc[t] \in {"idle", "cleanup"}
    BY <2>2, Alone DEF LockInv
  <2>5. goal[self] \subseteq Sources /\ todo[self] \subseteq goal[self]
    BY <2>2 DEF TypeOK, CandInv, CandOf, Reloading
  <2>6. ASSUME lost = 0, NEW r \in Persistent
        PROVE  conn'[r] = reg'[r] \/ SwappedBy(self, r)'
    <3>1. conn[r] = reg[r] \/ SwappedBy(self, r)
      BY <2>4, <2>6 DEF ConnInv, SwappedBy
    <3> QED  BY <2>2, <2>3, <2>5, <3>1 DEF SwappedBy
  <2> QED  BY <2>2, <2>4, <2>6 DEF ConnInv
<1>8. ASSUME NEW self \in Threads, RestoreOld(self)  PROVE ConnInv'
  <2>1. PICK s \in Sources : RestoreOld(self)!(s)
    BY <1>8 DEF RestoreOld
  <2>2. /\ pc[self] = "restore" /\ UNCHANGED <<reg, goal, cand, lost, pc>>
        /\ todo'[self] = todo[self] \ {s}
        /\ \A t \in Threads \ {self} : todo'[t] = todo[t]
    BY <2>1 DEF TypeOK
  <2>3. \A r \in Persistent : conn'[r] = IF r = s THEN reg[s] ELSE conn[r]
    BY <2>1 DEF Registers, TypeOK, Persistent
  <2>4. \A t \in Threads \ {self} : pc[t] \in {"idle", "cleanup"}
    BY <2>2, Alone DEF LockInv
  <2>5. ASSUME lost = 0, NEW r \in Persistent
        PROVE  conn'[r] = reg'[r] \/ SwappedBy(self, r)'
    <3>1. conn[r] = reg[r] \/ SwappedBy(self, r)
      BY <2>4, <2>5 DEF ConnInv, SwappedBy
    <3> QED  BY <2>2, <2>3, <3>1 DEF SwappedBy
  <2> QED  BY <2>2, <2>4, <2>5 DEF ConnInv
<1>9. ASSUME NEW self \in Threads, RestoreLost(self)  PROVE ConnInv'
  <2>1. lost' # 0
    BY <1>9 DEF RestoreLost, TypeOK
  <2> QED  BY <2>1 DEF ConnInv
<1>10. ASSUME NEW self \in Threads, AbortReload(self)  PROVE ConnInv'
  <2>1. /\ pc[self] = "restore" /\ todo[self] = {} /\ pc'[self] = "cleanup"
        /\ UNCHANGED <<conn, reg, lost>> /\ \A t \in Threads \ {self} : pc'[t] = pc[t]
    BY <1>10 DEF AbortReload, GiveUp, TypeOK
  <2>2. \A t \in Threads \ {self} : pc[t] \in {"idle", "cleanup"}
    BY <2>1, Alone DEF LockInv
  <2>3. lost = 0 => \A s \in Persistent : conn[s] = reg[s]
    BY <2>1, <2>2 DEF ConnInv, SwappedBy
  <2> QED  BY <2>1, <2>2, <2>3 DEF ConnInv
<1>11. ASSUME NEW self \in Threads, PublishReload(self)  PROVE ConnInv'
  <2>1. /\ pc[self] = "swap" /\ todo[self] = {} /\ pc'[self] = "cleanup"
        /\ UNCHANGED <<conn, lost>> /\ \A t \in Threads \ {self} : pc'[t] = pc[t]
        /\ \A s \in Sources : reg'[s] = IF s \in goal[self] THEN cand[self][s] ELSE reg[s]
    BY <1>11 DEF PublishReload, GiveUp, TypeOK
  <2>2. \A t \in Threads \ {self} : pc[t] \in {"idle", "cleanup"}
    BY <2>1, Alone DEF LockInv
  <2>3. lost = 0 => \A s \in Persistent : conn[s] = reg'[s]
    BY <2>1, <2>2 DEF ConnInv, SwappedBy, Persistent
  <2> QED  BY <2>1, <2>2, <2>3 DEF ConnInv
<1>12. ASSUME NEW self \in Threads, CloseReplaced(self)  PROVE ConnInv'
  BY <1>12, ConnKept DEF CloseReplaced, TypeOK
<1>13. ASSUME NEW self \in Threads, EndReload(self)  PROVE ConnInv'
  BY <1>13, ConnKept DEF EndReload, TypeOK
<1>14. ASSUME NEW self \in Threads, Close(self)  PROVE ConnInv'
  <2>1. \A t \in Threads : pc[t] \in {"idle", "cleanup"}
    BY <1>14, RegistrySentinels DEF Close, LockInv
  <2> QED  BY <1>14, <2>1 DEF Close, None, ConnInv, Persistent
<1>15. ASSUME NEW self \in Threads, BeginBind(self) \/ BeginScan(self)  PROVE ConnInv'
  <2>1. PICK S \in SUBSET Sources, stream \in Streams : Opens(self, S, stream)
    BY <1>15 DEF BeginBind, BeginScan, Streams
  <2> QED  BY <2>1, ConnKept DEF Opens, TypeOK
<1>16. ASSUME NEW self \in Threads, BindSource(self)  PROVE ConnInv'
  <2>1. PICK s \in Sources : BindSource(self)!(s)
    BY <1>16 DEF BindSource
  <2>2. s \in Scoped /\ pc[self] = "binding"
    BY <2>1 DEF Binds, First, CandInv, CandOf
  <2>3. \A r \in Persistent : conn'[r] = conn[r]
    BY <2>1, <2>2 DEF Persistent, TypeOK
  <2> QED  BY <2>1, <2>2, <2>3, ConnKept DEF TypeOK
<1>17. ASSUME NEW self \in Threads, BindFails(self) \/ ScanFails(self) \/ EndBind(self)  PROVE ConnInv'
  <2>1. PICK names \in SUBSET Scoped : Leaves(self, names)
    BY <1>17, LeavesScoped
  <2>2. \A s \in Persistent : conn'[s] = conn[s]
    BY <2>1 DEF Leaves, Unbind, Persistent
  <2>3. UNCHANGED <<reg, lost>>
    BY <2>1 DEF Leaves
  <2>4. pc[self] \in {"idle", "binding"} /\ pc'[self] = "idle"
        /\ \A t \in Threads \ {self} : pc'[t] = pc[t] /\ goal'[t] = goal[t]
             /\ todo'[t] = todo[t] /\ cand'[t] = cand[t]
    BY <2>1 DEF Leaves, Unbind, TypeOK
  <2> QED  BY <2>2, <2>3, <2>4, ConnKept
<1>18. ASSUME NEW self \in Threads, BindDone(self)  PROVE ConnInv'
  BY <1>18, ConnKept DEF BindDone, TypeOK
<1>19. ASSUME NEW self \in Threads, ExecuteQuery(self)  PROVE ConnInv'
  BY <1>19, ConnKept DEF ExecuteQuery, TypeOK
<1>20. ASSUME NEW self \in Threads, FetchResult(self)  PROVE ConnInv'
  BY <1>20, ConnKept DEF FetchResult, TypeOK
<1>21. ASSUME NEW self \in Threads, ReadBatch(self)  PROVE ConnInv'
  BY <1>21, ConnKept DEF ReadBatch, TypeOK
<1>22. ASSUME NEW self \in Threads, Recheck(self)  PROVE ConnInv'
  BY <1>22, ConnKept DEF Recheck, Scans, TypeOK
<1>23. ASSUME NEW self \in Threads, CancelScan(self)  PROVE ConnInv'
  BY <1>23, ConnKept DEF CancelScan, TypeOK
<1> QED
    BY <1>1, <1>2, <1>3, <1>4, <1>5, <1>6, <1>7, <1>8, <1>9, <1>10, <1>11, <1>12, <1>13, <1>14, <1>15, <1>16, <1>17, <1>18, <1>19, <1>20, <1>21, <1>22, <1>23
     DEF Next, Step, Reload, Binding

-----------------------------------------------------------------------------
(* The theorems.                                                            *)

(* The registry starts with one open handle per kept source, served under its name. *)
LEMMA InitHolds ==
    ASSUME Init
    PROVE  IInv
<1> USE RegistryKinds, RegistryNumbers, RegistrySentinels, RegistrySlots
<1>1. ASSUME NEW s \in Sources  PROVE <<s, 1>> \in Handles /\ Kept(s, <<s, 1>>) \in Slot
  BY DEF Handles, Slot, Kept
<1>2. \A t \in Threads : ctx[t] = <<>> /\ pc[t] = "idle" /\ Bounds(t) = {}
  BY DEF Init, Bounds, BoundsOf
<1>3. live \subseteq Handles /\ attached \subseteq live
  BY <1>1 DEF Init
<1>4. TypeOK
  <2>1. reg \in [Sources -> Slot] /\ conn \in [Sources -> Slot]
    BY <1>1 DEF Init, Slot, Scoped
  <2>2. ctx \in [Threads -> Seq(Context)]
    BY EmptySeq DEF Init
  <2>3. cand \in [Threads -> [Sources -> Slot]]
    BY DEF Init, None, Slot
  <2>4. /\ made \in [Sources -> Nat] /\ gen \in [Sources -> Nat] /\ depth \in Nat
        /\ owner \in Threads \cup {NoThread} /\ result \in Threads \cup {NoThread, Other}
        /\ closed \in BOOLEAN /\ faults \in Nat /\ lost \in Nat
    BY DEF Init
  <2>5. /\ pc \in [Threads -> Points] /\ goal \in [Threads -> SUBSET Sources]
        /\ todo \in [Threads -> SUBSET Sources] /\ trash \in [Threads -> SUBSET Handles]
        /\ answer \in [Threads -> Threads \cup {NoThread, Other}]
    BY DEF Init, Points
  <2> QED  BY <1>3, <2>1, <2>2, <2>3, <2>4, <2>5 DEF TypeOK
<1>5. LockInv
  BY <1>2 DEF Init, LockInv, Reloading
<1>6. MadeInv
  <2>1. ASSUME NEW h \in live  PROVE h \in Known
    <3>1. PICK s \in Sources : h = <<s, 1>>
      BY DEF Init
    <3>2. h[1] = s /\ h[2] = 1 /\ made[s] = 1 /\ h \in Handles
      BY <1>1, <3>1 DEF Init
    <3> QED  BY <3>2 DEF Known
  <2>2. \A h \in attached : Kind[h[1]] = "database"
    BY DEF Init
  <2> QED  BY <1>2, <2>1, <2>2 DEF MadeInv, Init
<1>7. RegInv
  BY DEF Init, RegInv, OpenHandle, Kept
<1>8. CandInv
  BY <1>2 DEF Init, CandInv, CandOf, Prepared, Reloading, None
<1>9. ApartInv
  BY <1>2 DEF Init, ApartInv
<1>10. ScopedConnInv
  BY DEF Init, ScopedConnInv, Scoped
<1>11. ConnInv
  BY <1>2 DEF Init, ConnInv, Persistent, Scoped, Kept
<1>12. NoLeak
  <2>1. \A h \in live : \E s \in Sources : reg[s] = h
    BY DEF Init, Kept
  <2> QED  BY <1>3, <2>1, NoLeakHeld DEF AllHeld, Held
<1> QED  BY <1>4, <1>5, <1>6, <1>7, <1>8, <1>9, <1>10, <1>11, <1>12 DEF IInv

(* Every step keeps the invariant. *)
LEMMA StepKeeps ==
    ASSUME IInv, [Next]_vars
    PROVE  IInv'
<1> USE DEF IInv
<1>1. TypeOK' /\ LockInv' /\ MadeInv' /\ RegInv' /\ CandInv'
  BY TypeStep, LockStep, MadeStep, RegStep, CandStep
<1>2. ApartInv' /\ ScopedConnInv' /\ ConnInv'
  BY ApartStep, ScopedConnStep, ConnStep
<1>3. NoLeak'
  <2>1. live \subseteq Handles /\ live' \subseteq Handles'
    BY <1>1 DEF TypeOK
  <2>2. AllHeld
    BY <2>1, NoLeakHeld
  <2>3. AllHeld'
    BY <2>2, HeldStep
  <2>4. (live \subseteq Handles => (NoLeak <=> AllHeld))'
    BY NoLeakHeld, PTL
  <2> QED  BY <2>1, <2>3, <2>4
<1> QED  BY <1>1, <1>2, <1>3

\* The inductive invariant: one place for every handle, and the lock with whoever
\* is in the middle of something.
THEOREM Invariant == Spec => []IInv
<1>1. Init => IInv
  BY InitHolds
<1>2. IInv /\ [Next]_vars => IInv'
  BY StepKeeps
<1> QED  BY <1>1, <1>2, PTL DEF Spec

\* Every variable of the registry keeps its type.
THEOREM TypeCorrect == Spec => []TypeOK
<1>1. IInv => TypeOK
  BY DEF IInv
<1> QED  BY <1>1, Invariant, PTL

\* The lock is taken once for each open context and once for a reload, and a
\* thread that has not got it is at the start of a method or closing what its
\* own reload has replaced.
THEOREM LockHeld == Spec => []LockInv
<1>1. IInv => LockInv
  BY DEF IInv
<1> QED  BY <1>1, Invariant, PTL

\* No path of reload, bind, scan or close loses a resource an adapter has opened:
\* it is registered, a candidate, on a cleanup list or bound to a context.
THEOREM NothingLeaks == Spec => []NoLeak
<1>1. IInv => NoLeak
  BY DEF IInv
<1> QED  BY <1>1, Invariant, PTL

(* What is served under a name is open, as long as no restore was lost. *)
LEMMA ServedIsLive ==
    ASSUME IInv
    PROVE  ServedLive
<1> SUFFICES ASSUME lost = 0, NEW h \in HandlesOf(conn) \cup HandlesOf(reg)
             PROVE  h \in live
  BY DEF ServedLive
<1> USE DEF IInv
<1>1. CASE h \in HandlesOf(reg)
  BY <1>1, RegisteredOpen
<1>2. CASE h \in HandlesOf(conn)
  <2>1. PICK s \in Sources : h = conn[s] /\ h \in Handles
    BY <1>2 DEF HandlesOf
  <2>2. CASE s \in Scoped
    BY <2>1, <2>2, RegistrySlots DEF ScopedConnInv, OpenHandle
  <2>3. CASE s \in Persistent
    <3>1. h = reg[s] \/ \E self \in Threads : h = cand[self][s]
      BY <2>1, <2>3 DEF ConnInv, SwappedBy
    <3> QED  BY <2>1, <3>1, RegisteredOpen, CandidatesOpen DEF HandlesOf
  <2> QED  BY <2>2, <2>3 DEF Persistent
<1> QED  BY <1>1, <1>2

\* No name and no registration refers to a closed resource, whatever is reloaded,
\* bound or closed meanwhile, as long as no restore was swallowed.
THEOREM TablesAreSound == Spec => []TablesSound
<1>1. IInv => TablesSound
  BY ServedIsLive DEF TablesSound, IInv
<1> QED  BY <1>1, Invariant, PTL

(* Without the lock a thread can close what it replaced and nothing more. *)
LEMMA OutsideStep ==
    ASSUME IInv, NEW self \in Threads, NEW t \in Threads \ {self}, ctx[self] # <<>>, Step(t)
    PROVE  UNCHANGED <<conn, table>>
<1>1. owner = self /\ ctx[t] = <<>> /\ pc[t] \in {"idle", "cleanup"}
  BY DEF IInv, LockInv
<1>2. self # NoThread
  BY RegistrySentinels
<1> USE <1>1, <1>2 DEF At
<1>3. ~BeginReload(t) /\ ~Close(t) /\ ~BeginBind(t) /\ ~BeginScan(t)
  BY DEF BeginReload, Close, BeginBind, BeginScan, Opens, Enter
<1>4. ~PrepareCandidate(t) /\ ~PrepareFails(t) /\ ~BeginSwap(t) /\ ~SwapCandidate(t) /\ ~SwapFails(t)
  BY DEF PrepareCandidate, PrepareFails, Prepares, BeginSwap, SwapCandidate, SwapFails, Swaps
<1>5. ~RestoreOld(t) /\ ~RestoreLost(t) /\ ~AbortReload(t) /\ ~PublishReload(t)
  BY DEF RestoreOld, RestoreLost, AbortReload, PublishReload
<1>6. ~Binding(t)
  BY DEF Binding, BindSource, BindFails, Binds, BindDone, ScanFails, FetchResult
<1>7. ~ExecuteQuery(t) /\ ~EndBind(t) /\ ~ReadBatch(t) /\ ~Recheck(t) /\ ~CancelScan(t)
  BY DEF ExecuteQuery, EndBind, ReadBatch, Recheck, CancelScan, Scans
<1>8. CloseReplaced(t) \/ EndReload(t)
  BY <1>3, <1>4, <1>5, <1>6, <1>7 DEF Step, Reload
<1> QED  BY <1>8 DEF CloseReplaced, EndReload, duck, table

\* While a thread has a query or a scan open, no step of another thread changes
\* what a name resolves to, a registration or a generation.
THEOREM QueriesUndisturbed == Spec => HeldStill
<1>1. IInv => [\A self \in Threads : ctx[self] # <<>> =>
                \A t \in Threads \ {self} : Step(t) => UNCHANGED <<conn, table>>]_vars
  BY OutsideStep
<1> QED  BY <1>1, Invariant, PTL DEF HeldStill

-----------------------------------------------------------------------------
(* Queries, when no thread opens a context inside another.                  *)

(* Bound names stay served while contexts, their depth and the names stay. *)
LEMMA BoundKept ==
    ASSUME BoundInv, MadeInv, UNCHANGED closed, \A s \in Scoped : conn'[s] = conn[s],
           \A t \in Threads :
              /\ Bounds(t)' = Bounds(t)
              /\ Len(ctx'[t]) = Len(ctx[t])
              /\ pc'[t] = "binding" => pc[t] = "binding" /\ todo'[t] = todo[t]
    PROVE  BoundInv'
BY DEF BoundInv, MadeInv, ScopedKnown

(* A name bound to a query stays bound to it until the context is left. *)
LEMMA BoundStep ==
    ASSUME MaxNest <= 1, TypeOK, LockInv, MadeInv, BoundInv, [Next]_vars
    PROVE  BoundInv'
<1> USE DEF At, Goto, rlock, table, duck, pool, job, bad
<1>1. CASE UNCHANGED vars
  BY <1>1, BoundKept, BoundsKept DEF vars
<1>2. ASSUME NEW self \in Threads, BeginReload(self)  PROVE BoundInv'
  BY <1>2, BoundKept, BoundsKept DEF BeginReload, TypeOK
<1>3. ASSUME NEW self \in Threads, PrepareCandidate(self)  PROVE BoundInv'
  BY <1>3, BoundKept, BoundsKept DEF PrepareCandidate, Prepares, TypeOK
<1>4. ASSUME NEW self \in Threads, PrepareFails(self)  PROVE BoundInv'
  <2>1. UNCHANGED <<conn, closed, ctx>> /\ pc'[self] = "cleanup"
        /\ \A t \in Threads \ {self} : pc'[t] = pc[t] /\ todo'[t] = todo[t]
    BY <1>4 DEF PrepareFails, GiveUp, TypeOK
  <2> QED  BY <2>1, BoundKept, BoundsKept
<1>5. ASSUME NEW self \in Threads, BeginSwap(self)  PROVE BoundInv'
  BY <1>5, BoundKept, BoundsKept DEF BeginSwap, TypeOK
<1>6. ASSUME NEW self \in Threads, SwapCandidate(self)  PROVE BoundInv'
  <2>1. UNCHANGED <<closed, ctx>> /\ \A s \in Scoped : conn'[s] = conn[s]
    BY <1>6 DEF SwapCandidate, Registers, Swaps, Scoped, TypeOK
  <2>2. \A t \in Threads : pc'[t] = "binding" => pc[t] = "binding" /\ todo'[t] = todo[t]
    BY <1>6 DEF SwapCandidate, Swaps, TypeOK
  <2> QED  BY <2>1, <2>2, BoundKept, BoundsKept
<1>7. ASSUME NEW self \in Threads, SwapFails(self)  PROVE BoundInv'
  <2>1. UNCHANGED <<closed, ctx>> /\ \A s \in Scoped : conn'[s] = conn[s]
    BY <1>7 DEF SwapFails, Persistent, Scoped, TypeOK
  <2>2. \A t \in Threads : pc'[t] = "binding" => pc[t] = "binding" /\ todo'[t] = todo[t]
    BY <1>7 DEF SwapFails, Swaps, TypeOK
  <2> QED  BY <2>1, <2>2, BoundKept, BoundsKept
<1>8. ASSUME NEW self \in Threads, RestoreOld(self)  PROVE BoundInv'
  <2>1. UNCHANGED <<closed, ctx>> /\ \A s \in Scoped : conn'[s] = conn[s]
    BY <1>8 DEF RestoreOld, Registers, Scoped, TypeOK
  <2>2. \A t \in Threads : pc'[t] = "binding" => pc[t] = "binding" /\ todo'[t] = todo[t]
    BY <1>8 DEF RestoreOld, Swaps, TypeOK
  <2> QED  BY <2>1, <2>2, BoundKept, BoundsKept
<1>9. ASSUME NEW self \in Threads, RestoreLost(self)  PROVE BoundInv'
  BY <1>9, BoundKept, BoundsKept DEF RestoreLost, TypeOK
<1>10. ASSUME NEW self \in Threads, AbortReload(self)  PROVE BoundInv'
  BY <1>10, BoundKept, BoundsKept DEF AbortReload, GiveUp, TypeOK
<1>11. ASSUME NEW self \in Threads, PublishReload(self)  PROVE BoundInv'
  BY <1>11, BoundKept, BoundsKept DEF PublishReload, GiveUp, TypeOK
<1>12. ASSUME NEW self \in Threads, CloseReplaced(self)  PROVE BoundInv'
  BY <1>12, BoundKept, BoundsKept DEF CloseReplaced, TypeOK
<1>13. ASSUME NEW self \in Threads, EndReload(self)  PROVE BoundInv'
  BY <1>13, BoundKept, BoundsKept DEF EndReload, TypeOK
<1>14. ASSUME NEW self \in Threads, Close(self)  PROVE BoundInv'
  BY <1>14, BoundsKept DEF Close, BoundInv
<1>15. ASSUME NEW self \in Threads, BeginBind(self) \/ BeginScan(self)  PROVE BoundInv'
  <2>1. PICK S \in SUBSET Sources, stream \in Streams : Opens(self, S, stream)
    BY <1>15 DEF BeginBind, BeginScan, Streams
  <2>2. /\ Len(ctx'[self]) = Len(ctx[self]) + 1
        /\ \A t \in Threads : Bounds(t)' = Bounds(t)
        /\ \A t \in Threads \ {self} : ctx'[t] = ctx[t]
    BY <2>1, OpensStep
  <2>3. Len(ctx[self]) = 0 /\ Bounds(self) = {}
    <3>1. Len(ctx[self]) \in Nat /\ Len(ctx[self]) < 1
      BY <2>1, OwnerOnly, RegistryNumbers DEF Opens
    <3>2. ctx[self] = <<>>
      BY <3>1, OwnerOnly
    <3> QED  BY <3>1, <3>2 DEF Bounds, BoundsOf
  <2>4. UNCHANGED <<closed, conn>> /\ \A t \in Threads \ {self} : pc'[t] = pc[t] /\ todo'[t] = todo[t]
    BY <2>1 DEF Opens, TypeOK
  <2>5. Len(ctx'[self]) <= 1 /\ Bounds(self)' = {}
    BY <2>2, <2>3
  <2>6. ASSUME NEW t \in Threads
        PROVE  /\ Len(ctx'[t]) <= 1
               /\ pc'[t] = "binding" => \A h \in Bounds(t)' : h[1] \notin todo'[t]
               /\ ~closed' => \A h \in Bounds(t)' : conn'[h[1]] = h
    BY <2>2, <2>4, <2>5 DEF BoundInv
  <2> QED  BY <2>6 DEF BoundInv
<1>16. ASSUME NEW self \in Threads, BindSource(self)  PROVE BoundInv'
  <2>1. PICK s \in Sources : BindSource(self)!(s)
    BY <1>16 DEF BindSource
  <2>2. PICK h : h = Fresh(s)
    OBVIOUS
  <2>3. /\ Bounds(self)' = Bounds(self) \cup {h}
        /\ Len(ctx'[self]) = Len(ctx[self])
        /\ \A t \in Threads \ {self} : ctx'[t] = ctx[t]
    BY <2>1, <2>2, BindContext
  <2>4. h[1] = s
    BY <2>2, FreshHandle
  <2>5. /\ conn'[s] = h /\ \A r \in Sources \ {s} : conn'[r] = conn[r]
        /\ todo'[self] = todo[self] \ {s} /\ s \in todo[self]
        /\ pc' = pc /\ closed' = closed /\ pc[self] = "binding"
    BY <2>1, <2>2 DEF Binds, First, TypeOK
  <2>6. \A t \in Threads \ {self} : Bounds(t) = {} /\ Bounds(t)' = {} /\ pc[t] \in {"idle", "cleanup"}
    <3>1. owner = self
      BY <2>5 DEF LockInv
    <3> QED  BY <2>3, <3>1, OwnerOnly DEF Bounds, BoundsOf
  <2>7. \A g \in Bounds(self) : g[1] \in Sources /\ g[1] \notin todo[self]
    BY <2>5 DEF BoundInv, MadeInv, ScopedKnown, Scoped
  <2>8. \A g \in Bounds(self)' : g[1] \notin todo'[self] /\ (~closed' => conn'[g[1]] = g)
    BY <2>3, <2>4, <2>5, <2>7 DEF BoundInv
  <2> QED  BY <2>3, <2>5, <2>6, <2>8 DEF BoundInv
<1>17. ASSUME NEW self \in Threads, BindFails(self) \/ ScanFails(self) \/ EndBind(self)  PROVE BoundInv'
  <2>1. PICK names \in SUBSET Sources : Leaves(self, names)
    BY <1>17, LeavesStep
  <2>2. /\ Len(ctx[self]) > 0 /\ Len(ctx'[self]) = Len(ctx[self]) - 1
        /\ \A t \in Threads \ {self} : ctx'[t] = ctx[t]
        /\ ctx' \in [Threads -> Seq(Context)]
    BY <2>1, LeavesContext
  <2>3. Len(ctx'[self]) = 0 /\ Bounds(self)' = {}
    <3>1. Len(ctx[self]) \in Nat /\ Len(ctx[self]) <= 1 /\ Len(ctx[self]) > 0
      BY <2>2, OwnerOnly DEF BoundInv
    <3>2. \A n \in Nat : n <= 1 /\ n > 0 => n - 1 = 0
      OBVIOUS
    <3>3. Len(ctx'[self]) = 0
      BY <2>2, <3>1, <3>2
    <3>4. ctx'[self] = <<>>
      BY <2>2, <3>3, EmptySeq
    <3> QED  BY <3>3, <3>4 DEF Bounds, BoundsOf
  <2>4. \A t \in Threads \ {self} : Bounds(t) = {} /\ Bounds(t)' = {} /\ pc[t] \in {"idle", "cleanup"}
    <3>1. owner = self
      BY <2>1 DEF Leaves, LockInv
    <3> QED  BY <2>2, <3>1, OwnerOnly DEF Bounds, BoundsOf
  <2>5. pc'[self] = "idle"
    BY <2>1 DEF Leaves, Unbind, TypeOK
  <2> QED  BY <2>2, <2>3, <2>4, <2>5 DEF BoundInv
<1>18. ASSUME NEW self \in Threads, BindDone(self)  PROVE BoundInv'
  BY <1>18, BoundKept, BoundsKept DEF BindDone, TypeOK
<1>19. ASSUME NEW self \in Threads, ExecuteQuery(self)  PROVE BoundInv'
  BY <1>19, BoundKept, BoundsKept DEF ExecuteQuery, TypeOK
<1>20. ASSUME NEW self \in Threads, FetchResult(self)  PROVE BoundInv'
  BY <1>20, BoundKept, BoundsKept DEF FetchResult, TypeOK
<1>21. ASSUME NEW self \in Threads, ReadBatch(self)  PROVE BoundInv'
  BY <1>21, BoundKept, BoundsKept DEF ReadBatch, TypeOK
<1>22. ASSUME NEW self \in Threads, Recheck(self)  PROVE BoundInv'
  BY <1>22, BoundKept, BoundsKept DEF Recheck, Scans, TypeOK
<1>23. ASSUME NEW self \in Threads, CancelScan(self)  PROVE BoundInv'
  <2>1. /\ Len(ctx'[self]) = Len(ctx[self])
        /\ \A t \in Threads : Bounds(t)' = Bounds(t)
        /\ \A t \in Threads \ {self} : ctx'[t] = ctx[t]
    BY <1>23, CancelContext
  <2> QED  BY <1>23, <2>1, BoundKept DEF CancelScan
<1> QED
    BY <1>1, <1>2, <1>3, <1>4, <1>5, <1>6, <1>7, <1>8, <1>9, <1>10, <1>11, <1>12, <1>13, <1>14, <1>15, <1>16, <1>17, <1>18, <1>19, <1>20, <1>21, <1>22, <1>23
     DEF Next, Step, Reload, Binding

\* Where no thread opens a context inside another: every query-scoped source a
\* context has bound resolves to the reader made for that very context, until it
\* is left, and nothing resolves to a closed resource.
THEOREM QueriesAreServed ==
    ASSUME MaxNest <= 1
    PROVE  Spec => []QueriesServed
<1>1. Init => BoundInv
  <2> SUFFICES ASSUME Init PROVE BoundInv
    OBVIOUS
  <2>1. \A t \in Threads : ctx[t] = <<>> /\ Bounds(t) = {} /\ Len(ctx[t]) = 0
    BY EmptySeq DEF Init, Bounds, BoundsOf
  <2> QED  BY <2>1 DEF BoundInv
<1>2. IInv /\ BoundInv /\ [Next]_vars => BoundInv'
  BY BoundStep DEF IInv
<1>3. Spec => []BoundInv
  BY <1>1, <1>2, Invariant, PTL DEF Spec
<1>4. IInv /\ BoundInv => QueriesServed
  <2> SUFFICES ASSUME IInv, BoundInv PROVE BoundServed
    BY ServedIsLive DEF QueriesServed
  <2> QED  BY DEF BoundInv, BoundServed, Bounds, BoundsOf
<1> QED  BY <1>3, <1>4, Invariant, PTL

-----------------------------------------------------------------------------
(* Answers, when no source is an attached database.                         *)

(* A step that neither runs a statement nor opens, closes or reads a result. *)
LEMMA ResultKept ==
    ASSUME ResultInv, UNCHANGED <<result, attached, answer>>,
           \A t \in Threads : result = t =>
              /\ pc[t] = "fetch" => pc'[t] = "fetch"
              /\ StreamOpen(t) => StreamOpen(t)'
    PROVE  ResultInv'
BY DEF ResultInv

(* The result on the connection stays with the thread that is to fetch it. *)
LEMMA ResultStep ==
    ASSUME \A s \in Sources : Kind[s] # "database", TypeOK, LockInv, ResultInv, [Next]_vars
    PROVE  ResultInv'
<1> USE DEF At, Goto, rlock, table, duck, pool, job, bad
<1>1. CASE UNCHANGED vars
  BY <1>1, ResultKept DEF vars, StreamOpen
<1>2. ASSUME NEW self \in Threads, BeginReload(self)  PROVE ResultInv'
  <2>1. /\ UNCHANGED <<result, attached, answer, ctx>> /\ pc[self] \notin {"binding", "fetch"}
        /\ pc'[self] # "binding" /\ \A t \in Threads \ {self} : pc'[t] = pc[t]
    BY <1>2 DEF BeginReload, TypeOK
  <2> QED  BY <2>1, ResultKept DEF StreamOpen
<1>3. ASSUME NEW self \in Threads, PrepareCandidate(self)  PROVE ResultInv'
  <2>1. /\ UNCHANGED <<result, attached, answer, ctx>> /\ pc[self] \notin {"binding", "fetch"}
        /\ pc'[self] # "binding" /\ \A t \in Threads \ {self} : pc'[t] = pc[t]
    BY <1>3 DEF PrepareCandidate, Prepares, TypeOK
  <2> QED  BY <2>1, ResultKept DEF StreamOpen
<1>4. ASSUME NEW self \in Threads, PrepareFails(self)  PROVE ResultInv'
  <2>1. /\ UNCHANGED <<result, attached, answer, ctx>> /\ pc[self] \notin {"binding", "fetch"}
        /\ pc'[self] # "binding" /\ \A t \in Threads \ {self} : pc'[t] = pc[t]
    BY <1>4 DEF PrepareFails, Prepares, GiveUp, TypeOK
  <2> QED  BY <2>1, ResultKept DEF StreamOpen
<1>5. ASSUME NEW self \in Threads, BeginSwap(self)  PROVE ResultInv'
  <2>1. /\ UNCHANGED <<result, attached, answer, ctx>> /\ pc[self] \notin {"binding", "fetch"}
        /\ pc'[self] # "binding" /\ \A t \in Threads \ {self} : pc'[t] = pc[t]
    BY <1>5 DEF BeginSwap, TypeOK
  <2> QED  BY <2>1, ResultKept DEF StreamOpen
<1>6. ASSUME NEW self \in Threads, SwapCandidate(self)  PROVE ResultInv'
  <2>1. /\ UNCHANGED <<result, attached, answer, ctx>> /\ pc[self] \notin {"binding", "fetch"}
        /\ pc'[self] # "binding" /\ \A t \in Threads \ {self} : pc'[t] = pc[t]
    BY <1>6 DEF SwapCandidate, Swaps, Registers, Persistent, TypeOK
  <2> QED  BY <2>1, ResultKept DEF StreamOpen
<1>7. ASSUME NEW self \in Threads, SwapFails(self)  PROVE ResultInv'
  <2>1. /\ UNCHANGED <<result, attached, answer, ctx>> /\ pc[self] \notin {"binding", "fetch"}
        /\ pc'[self] # "binding" /\ \A t \in Threads \ {self} : pc'[t] = pc[t]
    BY <1>7 DEF SwapFails, Swaps, Persistent, TypeOK
  <2> QED  BY <2>1, ResultKept DEF StreamOpen
<1>8. ASSUME NEW self \in Threads, RestoreOld(self)  PROVE ResultInv'
  <2>1. /\ UNCHANGED <<result, attached, answer, ctx>> /\ pc[self] \notin {"binding", "fetch"}
        /\ pc'[self] # "binding" /\ \A t \in Threads \ {self} : pc'[t] = pc[t]
    BY <1>8 DEF RestoreOld, Registers, TypeOK
  <2> QED  BY <2>1, ResultKept DEF StreamOpen
<1>9. ASSUME NEW self \in Threads, RestoreLost(self)  PROVE ResultInv'
  <2>1. /\ UNCHANGED <<result, attached, answer, ctx>> /\ pc[self] \notin {"binding", "fetch"}
        /\ pc'[self] # "binding" /\ \A t \in Threads \ {self} : pc'[t] = pc[t]
    BY <1>9 DEF RestoreLost, TypeOK
  <2> QED  BY <2>1, ResultKept DEF StreamOpen
<1>10. ASSUME NEW self \in Threads, AbortReload(self)  PROVE ResultInv'
  <2>1. /\ UNCHANGED <<result, attached, answer, ctx>> /\ pc[self] \notin {"binding", "fetch"}
        /\ pc'[self] # "binding" /\ \A t \in Threads \ {self} : pc'[t] = pc[t]
    BY <1>10 DEF AbortReload, GiveUp, TypeOK
  <2> QED  BY <2>1, ResultKept DEF StreamOpen
<1>11. ASSUME NEW self \in Threads, PublishReload(self)  PROVE ResultInv'
  <2>1. /\ UNCHANGED <<result, attached, answer, ctx>> /\ pc[self] \notin {"binding", "fetch"}
        /\ pc'[self] # "binding" /\ \A t \in Threads \ {self} : pc'[t] = pc[t]
    BY <1>11 DEF PublishReload, GiveUp, TypeOK
  <2> QED  BY <2>1, ResultKept DEF StreamOpen
<1>12. ASSUME NEW self \in Threads, CloseReplaced(self)  PROVE ResultInv'
  <2>1. UNCHANGED <<result, attached, answer, ctx, pc>>
    BY <1>12 DEF CloseReplaced, ResultInv
  <2> QED  BY <2>1, ResultKept DEF StreamOpen
<1>13. ASSUME NEW self \in Threads, EndReload(self)  PROVE ResultInv'
  <2>1. /\ UNCHANGED <<result, attached, answer, ctx>> /\ pc[self] \notin {"binding", "fetch"}
        /\ pc'[self] # "binding" /\ \A t \in Threads \ {self} : pc'[t] = pc[t]
    BY <1>13 DEF EndReload, TypeOK
  <2> QED  BY <2>1, ResultKept DEF StreamOpen
<1>14. ASSUME NEW self \in Threads, Close(self)  PROVE ResultInv'
  BY <1>14, RegistrySentinels DEF Close, ResultInv
<1>15. ASSUME NEW self \in Threads, BeginBind(self) \/ BeginScan(self)  PROVE ResultInv'
  <2>1. PICK S \in SUBSET Sources, stream \in Streams : Opens(self, S, stream)
    BY <1>15 DEF BeginBind, BeginScan, Streams
  <2>2. /\ Len(ctx'[self]) = Len(ctx[self]) + 1
        /\ \A i \in DOMAIN ctx[self] : ctx'[self][i] = ctx[self][i]
        /\ \A t \in Threads \ {self} : ctx'[t] = ctx[t]
        /\ ctx' \in [Threads -> Seq(Context)]
    BY <2>1, OpensStep
  <2>3. /\ UNCHANGED <<result, attached, answer>> /\ pc[self] = "idle"
        /\ \A t \in Threads \ {self} : pc'[t] = pc[t]
    BY <2>1 DEF Opens, TypeOK
  <2>4. \A i \in DOMAIN ctx[self] : i \in DOMAIN ctx'[self] /\ i < Len(ctx'[self])
    <3>1. Len(ctx[self]) \in Nat /\ DOMAIN ctx[self] = 1..Len(ctx[self])
          /\ DOMAIN ctx'[self] = 1..Len(ctx'[self])
      BY <2>2, LenProperties DEF TypeOK
    <3> QED  BY <2>2, <3>1
  <2>5. StreamOpen(self) => StreamOpen(self)'
    BY <2>2, <2>4 DEF StreamOpen
  <2>6. \A t \in Threads \ {self} : StreamOpen(t) => StreamOpen(t)'
    BY <2>2, <2>3 DEF StreamOpen
  <2> QED  BY <2>3, <2>5, <2>6, ResultKept
<1>16. ASSUME NEW self \in Threads, BindSource(self)  PROVE ResultInv'
  <2>1. PICK s \in Sources : BindSource(self)!(s)
    BY <1>16 DEF BindSource
  <2>2. /\ Len(ctx'[self]) = Len(ctx[self])
        /\ \A i \in DOMAIN ctx[self] : ctx'[self][i].stream = ctx[self][i].stream
        /\ DOMAIN ctx'[self] = DOMAIN ctx[self]
        /\ \A t \in Threads \ {self} : ctx'[t] = ctx[t]
    BY <2>1, BindContext
  <2>3. UNCHANGED <<result, attached, answer, pc>>
    BY <2>1
  <2> QED  BY <2>2, <2>3, ResultKept DEF StreamOpen
<1>17. ASSUME NEW self \in Threads, BindFails(self) \/ ScanFails(self) \/ EndBind(self)  PROVE ResultInv'
  <2>1. PICK names \in SUBSET Sources : Leaves(self, names)
    BY <1>17, LeavesStep
  <2>2. /\ Len(ctx[self]) > 0 /\ Len(ctx'[self]) = Len(ctx[self]) - 1
        /\ \A i \in 1..(Len(ctx[self]) - 1) : ctx'[self][i] = ctx[self][i]
        /\ \A t \in Threads \ {self} : ctx'[t] = ctx[t]
        /\ ctx' \in [Threads -> Seq(Context)]
    BY <2>1, LeavesContext
  <2>3. /\ UNCHANGED <<attached, answer>> /\ pc'[self] = "idle" /\ pc[self] \in {"idle", "binding"}
        /\ \A t \in Threads \ {self} : pc'[t] = pc[t]
    BY <2>1 DEF Leaves, Unbind, TypeOK
  <2>4. result' \in {result, NoThread}
        /\ (result' = self /\ pc[self] = "idle" => Top(self).stream # "reader")
    BY <1>17, <2>1, RegistrySentinels DEF Leaves, BindFails, Binds, ScanFails, EndBind
  <2>5. ASSUME result' = self, StreamOpen(self)  PROVE StreamOpen(self)'
    <3>1. PICK i \in DOMAIN ctx[self] :
             ctx[self][i].stream = "reader" /\ (pc[self] = "binding" => i < Len(ctx[self]))
      BY <2>5 DEF StreamOpen
    <3>2. i # Len(ctx[self])
      BY <2>3, <2>4, <2>5, <3>1 DEF Top
    <3>3. Len(ctx[self]) \in Nat /\ DOMAIN ctx[self] = 1..Len(ctx[self])
          /\ DOMAIN ctx'[self] = 1..Len(ctx'[self])
      BY <2>2, LenProperties DEF TypeOK
    <3>4. i \in 1..(Len(ctx[self]) - 1)
      BY <3>2, <3>3
    <3>5. i \in DOMAIN ctx'[self] /\ ctx'[self][i] = ctx[self][i]
      BY <2>2, <3>3, <3>4
    <3> QED  BY <2>3, <3>1, <3>5 DEF StreamOpen
  <2>6. \A t \in Threads \ {self} : StreamOpen(t) => StreamOpen(t)'
    BY <2>2, <2>3 DEF StreamOpen
  <2> QED  BY <2>3, <2>4, <2>5, <2>6, RegistrySentinels DEF ResultInv
<1>18. ASSUME NEW self \in Threads, BindDone(self)  PROVE ResultInv'
  <2>1. ctx[self] # <<>> /\ Len(ctx[self]) \in DOMAIN ctx[self]
    BY <1>18, TopBound DEF BindDone, LockInv
  <2>2. /\ UNCHANGED <<attached, answer, ctx>> /\ pc[self] = "binding" /\ pc'[self] = "idle"
        /\ \A t \in Threads \ {self} : pc'[t] = pc[t]
    BY <1>18 DEF BindDone, TypeOK
  <2>3. CASE Top(self).stream = "reader"
    <3>1. StreamOpen(self)'
      BY <2>1, <2>2, <2>3 DEF StreamOpen, Top
    <3>2. result' = self
      BY <1>18, <2>3 DEF BindDone
    <3> QED  BY <2>2, <3>1, <3>2, RegistrySentinels DEF ResultInv
  <2>4. CASE Top(self).stream # "reader"
    <3>1. result' = result
      BY <1>18, <2>4 DEF BindDone
    <3> QED  BY <2>2, <3>1, ResultKept DEF StreamOpen
  <2> QED  BY <2>3, <2>4
<1>19. ASSUME NEW self \in Threads, ExecuteQuery(self)  PROVE ResultInv'
  BY <1>19, RegistrySentinels DEF ExecuteQuery, ResultInv, TypeOK
<1>20. ASSUME NEW self \in Threads, FetchResult(self)  PROVE ResultInv'
  <2>1. owner = self
    BY <1>20 DEF FetchResult, LockInv
  <2>2. result \in {self, NoThread}
    <3>1. \A t \in Threads \ {self} : result # t
      <4>1. \A t \in Threads \ {self} : ctx[t] = <<>> /\ pc[t] \in {"idle", "cleanup"}
        BY <2>1 DEF LockInv
      <4> QED  BY <4>1 DEF ResultInv, StreamOpen
    <3> QED  BY <3>1 DEF TypeOK, ResultInv
  <2> QED  BY <1>20, <2>2, RegistrySentinels DEF FetchResult, ResultInv, TypeOK
<1>21. ASSUME NEW self \in Threads, ReadBatch(self)  PROVE ResultInv'
  <2>1. owner = self
    BY <1>21 DEF ReadBatch, Scans, LockInv
  <2>2. result \in {self, NoThread}
    <3>1. \A t \in Threads \ {self} : result # t
      <4>1. \A t \in Threads \ {self} : ctx[t] = <<>> /\ pc[t] \in {"idle", "cleanup"}
        BY <2>1 DEF LockInv
      <4> QED  BY <4>1 DEF ResultInv, StreamOpen
    <3> QED  BY <3>1 DEF TypeOK, ResultInv
  <2>3. \A t \in Threads : StreamOpen(t)' <=> StreamOpen(t)
    BY <1>21 DEF ReadBatch, StreamOpen
  <2> QED  BY <1>21, <2>2, <2>3 DEF ReadBatch, ResultInv, TypeOK
<1>22. ASSUME NEW self \in Threads, Recheck(self)  PROVE ResultInv'
  <2>1. /\ UNCHANGED <<result, attached, answer, ctx>> /\ pc[self] = "idle"
        /\ pc'[self] # "binding" /\ \A t \in Threads \ {self} : pc'[t] = pc[t]
    BY <1>22 DEF Recheck, Scans, TypeOK
  <2> QED  BY <2>1, ResultKept DEF StreamOpen
<1>23. ASSUME NEW self \in Threads, CancelScan(self)  PROVE ResultInv'
  <2>1. /\ UNCHANGED <<attached, answer, pc>> /\ result' # self
        /\ result' \in {result, NoThread}
    BY <1>23, RegistrySentinels DEF CancelScan
  <2>2. \A t \in Threads \ {self} : ctx'[t] = ctx[t]
    BY <1>23, CancelContext
  <2> QED  BY <2>1, <2>2, RegistrySentinels DEF ResultInv, StreamOpen
<1> QED
    BY <1>1, <1>2, <1>3, <1>4, <1>5, <1>6, <1>7, <1>8, <1>9, <1>10, <1>11, <1>12, <1>13, <1>14, <1>15, <1>16, <1>17, <1>18, <1>19, <1>20, <1>21, <1>22, <1>23
     DEF Next, Step, Reload, Binding

\* Where no source is an attached database: a query fetches its own result, and a
\* scan its own batches, whatever other threads do with the connection.
THEOREM AnswersAreOwn ==
    ASSUME \A s \in Sources : Kind[s] # "database"
    PROVE  Spec => []AnswersOwn
<1>1. Init => ResultInv
  BY RegistrySentinels DEF Init, ResultInv
<1>2. IInv /\ ResultInv /\ [Next]_vars => ResultInv'
  BY ResultStep DEF IInv
<1>3. ResultInv => AnswersOwn
  BY DEF ResultInv, AnswersOwn
<1> QED  BY <1>1, <1>2, <1>3, Invariant, PTL DEF Spec

-----------------------------------------------------------------------------
(* A reload is atomic.                                                      *)

(* What a reader who takes the lock finds is what is registered. *)
LEMMA LogicalIsRegistered ==
    IInv /\ lost = 0 => logicalVersion = [s \in Persistent |-> VersionOf(reg[s])]
<1> SUFFICES ASSUME IInv, lost = 0
             PROVE  logicalVersion = [s \in Persistent |-> VersionOf(reg[s])]
  OBVIOUS
<1>1. CASE Swapping
  BY <1>1 DEF logicalVersion
<1>2. CASE ~Swapping
  <2>1. \A s \in Persistent : conn[s] = reg[s]
    BY <1>2, Settled DEF Swapping, IInv
  <2> QED  BY <1>2, <2>1 DEF logicalVersion
<1> QED  BY <1>1, <1>2

(* A step that publishes nothing asks for a reload, refuses one, or is unseen. *)
LEMMA UnpublishedStep ==
    ASSUME UNCHANGED <<logicalVersion, gen, closed>>, NEW self \in Threads,
           \/ goal' = goal
           \/ goal' = [goal EXCEPT ![self] = {}]
           \/ /\ ~closed /\ goal[self] = {}
              /\ \E S \in {{s} : s \in Sources} \cup {Sources} :
                    goal' = [goal EXCEPT ![self] = S],
           goal \in [Threads -> SUBSET Sources]
    PROVE  [Published!AtomicNext]_(Published!atomicVars)
<1>1. CASE goal' = goal
  BY <1>1 DEF Published!atomicVars
<1>2. CASE goal' = [goal EXCEPT ![self] = {}]
  <2>1. CASE goal[self] = {}
    <3>1. goal' = goal
      BY <1>2, <2>1
    <3> QED  BY <3>1 DEF Published!atomicVars
  <2>2. CASE goal[self] # {}
    <3>1. Published!Refuse(self)
      BY <1>2, <2>2 DEF Published!Refuse
    <3> QED  BY <3>1 DEF Published!AtomicNext
  <2> QED  BY <2>1, <2>2
<1>3. CASE /\ ~closed /\ goal[self] = {}
           /\ \E S \in {{s} : s \in Sources} \cup {Sources} :
                 goal' = [goal EXCEPT ![self] = S]
  <2>1. Published!Ask(self)
    BY <1>3 DEF Published!Ask
  <2> QED  BY <2>1 DEF Published!AtomicNext
<1> QED  BY <1>1, <1>2, <1>3

(* Publication gives every source of the reload a newer version at once. *)
LEMMA PublishStep ==
    ASSUME IInv, IInv', NEW self \in Threads, PublishReload(self),
           logicalVersion = [s \in Persistent |-> VersionOf(reg[s])],
           logicalVersion' = [s \in Persistent |-> VersionOf(reg'[s])]
    PROVE  Published!Advance(self)
<1> USE DEF IInv
<1>1. /\ pc[self] = "swap" /\ ~closed /\ todo[self] = {}
      /\ reg' = [s \in Sources |-> IF s \in goal[self] THEN cand[self][s] ELSE reg[s]]
      /\ gen' = [s \in Sources |-> IF s \in goal[self] THEN gen[s] + 1 ELSE gen[s]]
      /\ goal' = [goal EXCEPT ![self] = {}]
      /\ closed' = closed
  BY DEF PublishReload, GiveUp, At, CandInv, CandOf, Reloading
<1>2. ASSUME NEW s \in Persistent, s \in goal[self]
      PROVE  logicalVersion'[s] > logicalVersion[s]
  <2>1. Kind[s] # "reader" /\ s \in Sources
    BY DEF Persistent, Scoped
  <2>2. Newer(s, cand[self][s])
    BY <1>1, <1>2, <2>1 DEF CandInv, CandOf, Prepared, Reloading
  <2>3. cand[self][s] \in Handles /\ reg[s][2] < cand[self][s][2]
    BY <2>1, <2>2 DEF Newer, OpenHandle, TypeOK
  <2>4. reg[s] \in Handles
    BY <1>1, <2>1 DEF RegInv, OpenHandle, TypeOK
  <2>5. VersionOf(reg[s]) = reg[s][2] /\ VersionOf(reg'[s]) = cand[self][s][2]
    BY <1>1, <1>2, <2>1, <2>3, <2>4 DEF VersionOf
  <2>6. reg[s][2] \in Nat /\ cand[self][s][2] \in Nat
    BY <2>3, <2>4 DEF Handles
  <2> QED  BY <2>3, <2>5, <2>6
<1>3. \A s \in Persistent : s \notin goal[self] => logicalVersion'[s] = logicalVersion[s]
  BY <1>1 DEF Persistent
<1>4. DOMAIN logicalVersion' = Persistent
  OBVIOUS
<1> QED  BY <1>1, <1>2, <1>3, <1>4 DEF Published!Advance

(* Every step of the registry is one of the abstraction, or unseen. *)
LEMMA AtomicStep ==
    ASSUME IInv, IInv', [Next]_vars,
           logicalVersion = [s \in Persistent |-> VersionOf(reg[s])],
           logicalVersion' = [s \in Persistent |-> VersionOf(reg'[s])]
    PROVE  [Published!AtomicNext]_(Published!atomicVars)
<1> DEFINE Goal == [Published!AtomicNext]_(Published!atomicVars)
<1> USE DEF table, job
<1>0. goal \in [Threads -> SUBSET Sources] /\ (reg' = reg => logicalVersion' = logicalVersion)
  BY DEF IInv, TypeOK
<1> SUFFICES ASSUME ~UNCHANGED vars PROVE Goal
  BY <1>0 DEF vars, Published!atomicVars
<1> HIDE DEF Goal
<1>1. ASSUME NEW self \in Threads,
             UNCHANGED <<reg, gen, closed>>, goal' = goal \/ goal' = [goal EXCEPT ![self] = {}]
      PROVE  Goal
  BY <1>0, <1>1, UnpublishedStep DEF Goal
<1>2. ASSUME NEW self \in Threads, BeginReload(self)  PROVE Goal
  <2>1. goal[self] = {} /\ ~closed
    BY <1>2 DEF BeginReload, At, IInv, CandInv, CandOf, Reloading
  <2>2. /\ UNCHANGED <<reg, gen, closed>>
        /\ \E S \in {{s} : s \in Sources} \cup {Sources} : goal' = [goal EXCEPT ![self] = S]
    BY <1>2 DEF BeginReload
  <2> QED  BY <1>0, <2>1, <2>2, UnpublishedStep DEF Goal
<1>3. ASSUME NEW self \in Threads, PublishReload(self)  PROVE Goal
  BY <1>3, PublishStep DEF Goal, Published!AtomicNext
<1>4. ASSUME NEW self \in Threads, Close(self)  PROVE Goal
  <2>1. \A s \in Persistent : VersionOf(reg'[s]) = 0
    BY <1>4, RegistrySlots DEF Close, None, VersionOf, Persistent
  <2>2. Published!Shut
    BY <1>4, <2>1 DEF Close, Published!Shut
  <2> QED  BY <2>2 DEF Goal, Published!AtomicNext
<1>5. ASSUME NEW self \in Threads, Reload(self), ~PublishReload(self)  PROVE Goal
  <2>1. /\ UNCHANGED <<reg, gen, closed>>
        /\ goal' = goal \/ goal' = [goal EXCEPT ![self] = {}]
    <3>1. CASE PrepareFails(self) \/ AbortReload(self)
      BY <3>1 DEF PrepareFails, AbortReload, GiveUp
    <3>2. CASE PrepareCandidate(self) \/ BeginSwap(self) \/ CloseReplaced(self) \/ EndReload(self)
      BY <3>2 DEF PrepareCandidate, BeginSwap, CloseReplaced, EndReload
    <3>3. CASE SwapCandidate(self) \/ SwapFails(self) \/ RestoreOld(self) \/ RestoreLost(self)
      BY <3>3 DEF SwapCandidate, SwapFails, RestoreOld, RestoreLost
    <3> QED  BY <1>5, <3>1, <3>2, <3>3 DEF Reload
  <2> QED  BY <1>1, <2>1
<1>6. ASSUME NEW self \in Threads, Binding(self)  PROVE Goal
  <2>1. UNCHANGED <<reg, gen, closed, goal>>
    BY <1>6 DEF Binding, BindSource, BindFails, BindDone, ScanFails, FetchResult
  <2> QED  BY <1>1, <2>1
<1>7. ASSUME NEW self \in Threads, BeginBind(self) \/ BeginScan(self)  PROVE Goal
  <2>1. UNCHANGED <<reg, gen, closed, goal>>
    BY <1>7 DEF BeginBind, BeginScan, Opens
  <2> QED  BY <1>1, <2>1
<1>8. ASSUME NEW self \in Threads,
             \/ ExecuteQuery(self) \/ EndBind(self) \/ ReadBatch(self)
             \/ Recheck(self) \/ CancelScan(self)
      PROVE  Goal
  <2>1. UNCHANGED <<reg, gen, closed, goal>>
    BY <1>8 DEF ExecuteQuery, EndBind, ReadBatch, Recheck, CancelScan
  <2> QED  BY <1>1, <2>1
<1> QED  BY <1>2, <1>3, <1>4, <1>5, <1>6, <1>7, <1>8 DEF Next, Step

\* As long as no restore is swallowed, a reload of one source or of all is atomic:
\* whoever takes the lock finds every new version with every new generation, or
\* the old ones, whatever failed in between.
THEOREM ReloadsAreAtomic == Spec /\ [](lost = 0) => AtomicReload
<1>1. Init /\ IInv /\ lost = 0 => Published!AtomicInit
  <2> SUFFICES ASSUME Init, IInv, lost = 0 PROVE Published!AtomicInit
    OBVIOUS
  <2>1. \A s \in Persistent : VersionOf(reg[s]) = 1
    BY DEF Init, VersionOf, Kept, Persistent, Scoped, Handles
  <2>2. logicalVersion = [s \in Persistent |-> 1]
    BY <2>1, LogicalIsRegistered
  <2> QED  BY <2>2 DEF Init, Published!AtomicInit
<1>2. (IInv /\ lost = 0 => logicalVersion = [s \in Persistent |-> VersionOf(reg[s])])'
  BY LogicalIsRegistered, PTL
<1>3. IInv /\ IInv' /\ lost = 0 /\ (lost = 0)' /\ [Next]_vars
         => [Published!AtomicNext]_(Published!atomicVars)
  <2> SUFFICES ASSUME IInv, IInv', lost = 0, (lost = 0)', [Next]_vars
               PROVE  [Published!AtomicNext]_(Published!atomicVars)
    OBVIOUS
  <2>1. logicalVersion' = [s \in Persistent |-> VersionOf(reg'[s])]
    BY <1>2 DEF VersionOf
  <2> QED  BY <2>1, LogicalIsRegistered, AtomicStep
<1> QED  BY <1>1, <1>3, Invariant, PTL DEF Spec, AtomicReload, Published!AtomicSpec

\* Where no restore can fail, every reload is atomic.
THEOREM ReloadsAreAtomicUnlost ==
    ASSUME MaxLostRestores = 0
    PROVE  Spec => AtomicReload
<1> USE DEF bad
<1>1. lost = 0 /\ [Next]_vars => (lost = 0)'
  <2> SUFFICES ASSUME lost = 0, [Next]_vars PROVE lost' = 0
    OBVIOUS
  <2>1. CASE UNCHANGED vars
    BY <2>1 DEF vars
  <2>2. ASSUME NEW self \in Threads, Reload(self)  PROVE lost' = 0
    <3>1. ~RestoreLost(self)
      BY DEF RestoreLost
    <3>2. CASE PrepareCandidate(self) \/ PrepareFails(self) \/ BeginSwap(self) \/ SwapCandidate(self)
      BY <3>2 DEF PrepareCandidate, PrepareFails, Fault, BeginSwap, SwapCandidate
    <3>3. CASE SwapFails(self) \/ RestoreOld(self) \/ AbortReload(self) \/ PublishReload(self)
      BY <3>3 DEF SwapFails, Fault, RestoreOld, AbortReload, PublishReload
    <3>4. CASE CloseReplaced(self) \/ EndReload(self)
      BY <3>4 DEF CloseReplaced, EndReload
    <3> QED  BY <2>2, <3>1, <3>2, <3>3, <3>4 DEF Reload
  <2>3. ASSUME NEW self \in Threads, Binding(self)  PROVE lost' = 0
    BY <2>3 DEF Binding, BindSource, BindFails, BindDone, ScanFails, FetchResult, Fault
  <2>4. ASSUME NEW self \in Threads,
               \/ BeginReload(self) \/ Close(self) \/ BeginBind(self) \/ ExecuteQuery(self)
               \/ EndBind(self) \/ BeginScan(self) \/ ReadBatch(self) \/ Recheck(self)
               \/ CancelScan(self)
        PROVE  lost' = 0
    BY <2>4 DEF BeginReload, Close, BeginBind, ExecuteQuery, EndBind, BeginScan, Opens,
                ReadBatch, Recheck, CancelScan
  <2> QED  BY <2>1, <2>2, <2>3, <2>4 DEF Next, Step
<1>2. Init => lost = 0
  BY DEF Init
<1>3. Spec => [](lost = 0)
  BY <1>1, <1>2, PTL DEF Spec
<1> QED  BY <1>3, ReloadsAreAtomic, PTL
=============================================================================
