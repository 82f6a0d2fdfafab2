--------------------------- MODULE Discovery_proofs ---------------------------
(***************************************************************************)
(* Theorems about Discovery for any number of processes, gates, texts,     *)
(* claims, conflicts, groups, approvers, commands and faults.              *)
(***************************************************************************)
EXTENDS Discovery, SequenceTheorems, Recursion_proofs

(***************************************************************************)
(* What is left of a command.                                              *)
(***************************************************************************)
Stamps == 1..MaxLines
Asked == {{}} \cup {{QuestionNode(i)} : i \in 1..MaxLines}

GateBind(g, h) == Bind(GateNode(g), h, {AnswerNode(g)})
AnswerBind(g, text, asked) == Bind(AnswerNode(g), text, asked)

\* An answer of gate g: its gate is to be disposed, to be bound, or is bound.
Disposing(g, text) ==
    {<<Line(Disposition(g, "answered")), GateBind(g, h), AnswerBind(g, text, asked)>> :
        h \in Stamps, asked \in Asked}
GateFirst(g, text) ==
    {<<GateBind(g, h), AnswerBind(g, text, asked)>> : h \in Stamps, asked \in Asked}
AnswerLast(g, text) == {<<AnswerBind(g, text, asked)>> : asked \in Asked}
GateOnly(g) == {<<GateBind(g, h)>> : h \in Stamps}
AskedOnly == {<<Bind(QuestionNode(i), h, {})>> : i \in 1..MaxLines, h \in Stamps}
Claiming(c, g) == {<<Bind(ClaimNode(c), h, {AnswerNode(g)})>> : h \in Stamps}
Settling(k, deps) == {<<Bind(ConflictNode(k), h, deps)>> : h \in Stamps}
Attesting(group) == {<<ReadGates(group), Sign(group)>>, <<Sign(group)>>}

\* The answer of gate g is still to be bound; so is the gate, which is disposed.
Answering(g, text) == Disposing(g, text) \cup GateFirst(g, text) \cup AnswerLast(g, text)
Gating(g) == GateOnly(g) \cup UNION {GateFirst(g, text) : text \in Texts}

ConflictDeps == {{ClaimNode(c) : c \in C} \cup X : C \in SUBSET Claims, X \in {{}, {Approver}}}

InterviewPlans ==
    AskedOnly \cup (UNION {Answering(g, text) : g \in Gates, text \in Texts})
              \cup (UNION {Gating(g) : g \in Gates})
ClaimPlans ==
    (UNION {Claiming(c, g) : c \in Claims, g \in Gates})
    \cup (UNION {Settling(k, deps) : k \in Conflicts, deps \in ConflictDeps})
AttestPlans == UNION {Attesting(group) : group \in Groups}
Plans == {<<>>} \cup InterviewPlans \cup ClaimPlans \cup AttestPlans

\* A process has the lock of a store for as long as it has work to do there.
WorkInv ==
    /\ todo \in [Procs -> Plans]
    /\ \A p \in Procs :
          /\ todo[p] \in InterviewPlans <=> lock["interview"] = p
          /\ todo[p] \in ClaimPlans <=> lock["claims"] = p

\* One question is open, and the current answer of a gate is its last one.
Sound(x) ==
    /\ x \in InterviewIndex
    /\ x.open \in 0..Len(x.questions)
    /\ \A i \in 1..Len(x.questions) : IsOpen(x, i) <=> x.open = i
    /\ \A g \in Gates :
          /\ x.current[g] \in 0..Len(x.answers)
          /\ x.current[g] # None =>
                x.answers[x.current[g]].gate = g /\ IsCurrent(x, x.current[g])
    /\ \A i \in 1..Len(x.answers) : i <= x.current[x.answers[i].gate]

KeptInv == Sound(kept) /\ Len(kept.questions) <= lines

ApproverInv == session.hash[Approver] \in Approvers

TranscriptInv == TypeOK /\ WorkInv /\ KeptInv /\ LiveIsReplay /\ ApproverInv

CurrentText(g) ==
    IF kept.current[g] = None THEN NoHash ELSE kept.answers[kept.current[g]].text

\* The bindings of a gate and its answer, but for what is still to be bound.
AgreeOn(g) ==
    /\ \A p \in Procs, text \in Texts : todo[p] \in Answering(g, text) =>
          text = CurrentText(g) /\ session.hash[AnswerNode(g)] = Replaced(g)
    /\ (\A p \in Procs, text \in Texts : todo[p] \notin Answering(g, text)) =>
          session.hash[AnswerNode(g)] = CurrentText(g)
    /\ \A p \in Procs : todo[p] \in Gating(g) => kept.disposition[g] # Open
    /\ (\A p \in Procs : todo[p] \notin Gating(g)) =>
          (session.hash[GateNode(g)] = NoHash <=> kept.disposition[g] = Open)

AgreeInv == Undisturbed => \A g \in Gates : AgreeOn(g)

\* What is bound depends on what it was derived from.
ClaimDerived(c) ==
    /\ session.hash[ClaimNode(c)] # NoHash =>
          claims[c] # NoOne /\ session.deps[ClaimNode(c)] = {AnswerNode(claims[c])}
    /\ \A p \in Procs, g \in Gates : todo[p] \in Claiming(c, g) => claims[c] = g
ConflictDerived(k) ==
    /\ session.hash[ConflictNode(k)] # NoHash =>
          /\ conflicts[k] # NoConflict
          /\ {ClaimNode(c) : c \in conflicts[k].claims} \subseteq session.deps[ConflictNode(k)]
    /\ \A p \in Procs, deps \in ConflictDeps : todo[p] \in Settling(k, deps) =>
          /\ conflicts[k] # NoConflict
          /\ {ClaimNode(c) : c \in conflicts[k].claims} \subseteq deps

DerivedInv ==
    /\ \A c \in Claims : ClaimDerived(c)
    /\ \A k \in Conflicts : ConflictDerived(k)

\* A process has the charter open that is current, unless it was overtaken.
SeenInv ==
    ~overtaken => \A p \in Procs : seen[p] # NoOne => seen[p] = session.hash[Approver]

ResolvedBy(k) ==
    /\ \A p \in Procs, deps \in ConflictDeps : todo[p] \in Settling(k, deps) =>
          Approver \in deps /\ conflicts[k].state = seen[p]
    /\ (\A p \in Procs, deps \in ConflictDeps : todo[p] \notin Settling(k, deps)) =>
          /\ Approver \in session.deps[ConflictNode(k)]
          /\ conflicts[k].state = session.hash[Approver] \/ ConflictNode(k) \in session.stale

ResolvedInv ==
    Undisturbed /\ ~overtaken =>
        \A k \in Semantic : conflicts[k].state \in Approvers => ResolvedBy(k)

\* What TLC checks on a small instance, and is proved part by part.
IInv == TranscriptInv /\ AgreeInv /\ DerivedInv /\ SeenInv /\ ResolvedInv

-----------------------------------------------------------------------------
(* The session's index.                                                     *)

(* The loop of Dependents comes to rest with all artifacts that depend. *)
LEMMA DependentsFacts ==
    ASSUME NEW r, NEW S0
    PROVE  /\ Session!Dependents(r, S0) \in SUBSET ArtifactNodes
           /\ Session!Direct(r, S0 \cup Session!Dependents(r, S0)) \subseteq Session!Dependents(r, S0)
<1> DEFINE n == Cardinality(ArtifactNodes)
           D == [U \in SUBSET ArtifactNodes |-> Session!Direct(r, S0 \cup U)]
           body(f) == [k \in 0..n |-> IF k = 0 THEN {} ELSE Session!Direct(r, S0 \cup f[k - 1])]
           G == CHOOSE f : f = body(f)
<1>1. n \in Nat /\ IsFiniteSet(ArtifactNodes)
  BY DiscoveryNodes, FS_CardinalityType
<1>2. /\ D \in [SUBSET ArtifactNodes -> SUBSET ArtifactNodes]
      /\ \A U, V \in SUBSET ArtifactNodes : U \subseteq V => D[U] \subseteq D[V]
  BY DEF Session!Direct
<1>3. PICK f : /\ f \in [0..n -> SUBSET ArtifactNodes] /\ f[0] = {}
               /\ \A k \in 1..n : f[k] = D[f[k - 1]]
               /\ D[f[n]] \subseteq f[n]
  <2> HIDE DEF D
  <2> QED  BY <1>1, <1>2, LeastClosed
<1>4. \A k \in 1..n : f[k] = Session!Direct(r, S0 \cup f[k - 1])
  <2>1. \A k \in 1..n : k - 1 \in 0..n
    BY <1>1
  <2> HIDE DEF n
  <2> QED  BY <1>3, <2>1
<1>5. f = body(f)
  <2>1. \A k \in 0..n : k = 0 \/ k \in 1..n
    BY <1>1
  <2> HIDE DEF n, D
  <2> QED  BY <1>3, <1>4, <2>1
<1>6. G = body(G)
  <2> HIDE DEF body
  <2> QED  BY <1>5
<1>7. \A k \in 0..n : G[k] = IF k = 0 THEN {} ELSE Session!Direct(r, S0 \cup G[k - 1])
  <2> HIDE DEF G
  <2> QED  BY <1>6
<1>8. G[n] = f[n]
  <2>1. n \in 0..n /\ 0 \in 0..n /\ \A k \in 1..n : k \in 0..n /\ k # 0
    BY <1>1
  <2> HIDE DEF G, n, D
  <2>2. G[0] = f[0] /\ \A k \in 1..n : G[k - 1] = f[k - 1] => G[k] = f[k]
    BY <1>3, <1>4, <1>7, <2>1
  <2>3. Alike(G, f, n)
    BY <2>2 DEF Alike
  <2> QED  BY <1>1, <2>1, <2>3, SameIterates
<1>9. Session!Dependents(r, S0) = f[n]
  <2>1. Session!Cardinality(ArtifactNodes) = n
    BY DEF Session!Cardinality, Cardinality
  <2>2. Session!Dependents(r, S0) = G[n]
    BY <2>1 DEF Session!Dependents
  <2> QED  BY <1>8, <2>2
<1>10. f[n] \in SUBSET ArtifactNodes
  <2>1. n \in 0..n
    BY <1>1
  <2> HIDE DEF n, D
  <2> QED  BY <1>3, <2>1
<1>11. Session!Direct(r, S0 \cup f[n]) \subseteq f[n]
  <2>1. \A U \in SUBSET ArtifactNodes : D[U] = Session!Direct(r, S0 \cup U)
    OBVIOUS
  <2> HIDE DEF D, n, G, body
  <2> QED  BY <1>3, <1>10, <2>1
<1> HIDE DEF D, n, G, body
<1> QED  BY <1>9, <1>10, <1>11

(* What a registration does to the index of the session. *)
LEMMA RegisterFacts ==
    ASSUME NEW r \in Session!Index, NEW a \in Session!Record
    PROVE  /\ Session!Register(r, a) \in Session!Index
           /\ Session!Register(r, a).state = r.state
           /\ Session!Register(r, a).hash = [r.hash EXCEPT ![a.node] = a.hash]
           /\ Session!Register(r, a).deps = [r.deps EXCEPT ![a.node] = a.deps]
           /\ r.stale \subseteq Session!Register(r, a).stale
<1> DEFINE next == [r EXCEPT !.hash[a.node] = a.hash, !.deps[a.node] = a.deps]
           D == Session!Dependents(next, {a.node})
<1>1. /\ next.state = r.state /\ next.stale = r.stale
      /\ next.hash = [r.hash EXCEPT ![a.node] = a.hash]
      /\ next.deps = [r.deps EXCEPT ![a.node] = a.deps]
      /\ next \in Session!Index
  BY DEF Session!Index, Session!Record
<1>2. Session!Register(r, a) \in {next, [next EXCEPT !.stale = @ \cup D]}
  BY DEF Session!Register
<1>3. D \in SUBSET ArtifactNodes
  BY DependentsFacts
<1> HIDE DEF next, D
<1>4. ASSUME NEW x, x = [next EXCEPT !.stale = @ \cup D]
      PROVE  /\ x.state = next.state /\ x.hash = next.hash /\ x.deps = next.deps
             /\ next.stale \subseteq x.stale /\ x \in Session!Index
  BY <1>1, <1>3, <1>4 DEF Session!Index
<1> QED
  BY <1>1, <1>2, <1>4

(* The revision of a node stales what depends on it, however far. *)
LEMMA RegisterStales ==
    ASSUME NEW r \in Session!Index, NEW a \in Session!Record,
           r.hash[a.node] \notin {NoHash, a.hash}
    PROVE  \E D \in SUBSET Session!Register(r, a).stale :
              \A n \in ArtifactNodes :
                  Session!Register(r, a).deps[n] \cap ({a.node} \cup D) # {} => n \in D
<1> DEFINE next == [r EXCEPT !.hash[a.node] = a.hash, !.deps[a.node] = a.deps]
           D == Session!Dependents(next, {a.node})
           s == [next EXCEPT !.stale = @ \cup D]
<1>1. Session!Register(r, a) = s
  BY DEF Session!Register
<1>2. next \in Session!Index
  BY DEF Session!Index, Session!Record
<1>3. Session!Direct(next, {a.node} \cup D) \subseteq D
  BY DependentsFacts
<1>4. \A n \in ArtifactNodes : next.deps[n] \cap ({a.node} \cup D) # {} => n \in D
  <2> HIDE DEF next, D
  <2> QED  BY <1>3 DEF Session!Direct
<1> HIDE DEF next, D
<1>5. s.deps = next.deps /\ D \subseteq s.stale
  BY <1>2 DEF Session!Index
<1> QED
  BY <1>1, <1>4, <1>5

(* Artifacts of different kinds, or of different things, are different. *)
LEMMA NodesDiffer ==
    ASSUME NEW x, NEW y
    PROVE  /\ QuestionNode(x) \notin {Approver, AnswerNode(y), GateNode(y), ClaimNode(y), ConflictNode(y)}
           /\ AnswerNode(x) \notin {Approver, GateNode(y), ClaimNode(y), ConflictNode(y)}
           /\ GateNode(x) \notin {Approver, ClaimNode(y), ConflictNode(y)}
           /\ ClaimNode(x) \notin {Approver, ConflictNode(y)}
           /\ ConflictNode(x) # Approver
           /\ AnswerNode(x) = AnswerNode(y) => x = y
           /\ GateNode(x) = GateNode(y) => x = y
           /\ ClaimNode(x) = ClaimNode(y) => x = y
           /\ ConflictNode(x) = ConflictNode(y) => x = y
  BY DEF QuestionNode, AnswerNode, GateNode, ClaimNode, ConflictNode, Approver

-----------------------------------------------------------------------------
(* What is left of a command, kind by kind.                                 *)

(* The steps of a command that records an answer. *)
LEMMA AnsweringFacts ==
    ASSUME NEW g, NEW text, NEW s
    PROVE  /\ s \in Disposing(g, text) =>
                /\ s # <<>> /\ Len(s) = 3
                /\ Head(s) = Line(Disposition(g, "answered")) /\ Tail(s) \in GateFirst(g, text)
           /\ s \in GateFirst(g, text) =>
                /\ s # <<>> /\ Len(s) = 2
                /\ \E h \in Stamps : Head(s) = GateBind(g, h)
                /\ Tail(s) \in AnswerLast(g, text)
           /\ s \in AnswerLast(g, text) =>
                /\ s # <<>> /\ Len(s) = 1
                /\ \E asked \in Asked : Head(s) = AnswerBind(g, text, asked)
           /\ s \in Answering(g, text) =>
                \E asked \in Asked : s # <<>> /\ s[Len(s)] = AnswerBind(g, text, asked)
<1>1. ASSUME NEW h \in Stamps, NEW asked \in Asked,
             s = <<Line(Disposition(g, "answered")), GateBind(g, h), AnswerBind(g, text, asked)>>
      PROVE  /\ s # <<>> /\ Len(s) = 3 /\ s[3] = AnswerBind(g, text, asked)
             /\ Head(s) = Line(Disposition(g, "answered"))
             /\ Tail(s) = <<GateBind(g, h), AnswerBind(g, text, asked)>>
  BY <1>1
<1>2. ASSUME NEW h \in Stamps, NEW asked \in Asked,
             s = <<GateBind(g, h), AnswerBind(g, text, asked)>>
      PROVE  /\ s # <<>> /\ Len(s) = 2 /\ s[2] = AnswerBind(g, text, asked)
             /\ Head(s) = GateBind(g, h) /\ Tail(s) = <<AnswerBind(g, text, asked)>>
  BY <1>2
<1>3. ASSUME NEW asked \in Asked, s = <<AnswerBind(g, text, asked)>>
      PROVE  /\ s # <<>> /\ Len(s) = 1 /\ s[1] = AnswerBind(g, text, asked)
             /\ Head(s) = AnswerBind(g, text, asked)
  BY <1>3
<1>4. s \in Disposing(g, text) =>
          \E h \in Stamps, asked \in Asked :
              s = <<Line(Disposition(g, "answered")), GateBind(g, h), AnswerBind(g, text, asked)>>
  BY DEF Disposing
<1>5. s \in GateFirst(g, text) =>
          \E h \in Stamps, asked \in Asked : s = <<GateBind(g, h), AnswerBind(g, text, asked)>>
  BY DEF GateFirst
<1>6. s \in AnswerLast(g, text) => \E asked \in Asked : s = <<AnswerBind(g, text, asked)>>
  BY DEF AnswerLast
<1>7. ASSUME NEW h \in Stamps, NEW asked \in Asked
      PROVE  /\ <<GateBind(g, h), AnswerBind(g, text, asked)>> \in GateFirst(g, text)
             /\ <<AnswerBind(g, text, asked)>> \in AnswerLast(g, text)
  BY DEF GateFirst, AnswerLast
<1> QED
  BY <1>1, <1>2, <1>3, <1>4, <1>5, <1>6, <1>7 DEF Answering

(* The commands that have one binding left. *)
LEMMA SingleFacts ==
    ASSUME NEW s
    PROVE  /\ \A g : s \in GateOnly(g) =>
                s # <<>> /\ Len(s) = 1 /\ \E h \in Stamps : Head(s) = GateBind(g, h) /\ s[Len(s)] = Head(s)
           /\ s \in AskedOnly =>
                /\ s # <<>> /\ Len(s) = 1 /\ s[Len(s)] = Head(s)
                /\ \E i \in 1..MaxLines, h \in Stamps : Head(s) = Bind(QuestionNode(i), h, {})
           /\ \A c, g : s \in Claiming(c, g) =>
                /\ s # <<>> /\ Len(s) = 1 /\ s[Len(s)] = Head(s)
                /\ \E h \in Stamps : Head(s) = Bind(ClaimNode(c), h, {AnswerNode(g)})
           /\ \A k, deps : s \in Settling(k, deps) =>
                /\ s # <<>> /\ Len(s) = 1 /\ s[Len(s)] = Head(s)
                /\ \E h \in Stamps : Head(s) = Bind(ConflictNode(k), h, deps)
           /\ \A group : s \in Attesting(group) =>
                /\ s # <<>> /\ s[Len(s)] = Sign(group)
                /\ Head(s) \in {ReadGates(group), Sign(group)}
                /\ Head(s) = ReadGates(group) => Len(s) = 2 /\ Tail(s) = <<Sign(group)>>
                /\ Head(s) = Sign(group) => Len(s) = 1
<1>1. ASSUME NEW x, s = <<x>>  PROVE s # <<>> /\ Len(s) = 1 /\ Head(s) = x /\ s[Len(s)] = Head(s)
  BY <1>1
<1>2. ASSUME NEW x, NEW y, s = <<x, y>>
      PROVE  s # <<>> /\ Len(s) = 2 /\ Head(s) = x /\ Tail(s) = <<y>> /\ s[Len(s)] = y
  BY <1>2
<1>3. \A group : ReadGates(group) # Sign(group)
  BY DEF ReadGates, Sign
<1>4. ASSUME NEW g, s \in GateOnly(g)
      PROVE  s # <<>> /\ Len(s) = 1 /\ \E h \in Stamps : Head(s) = GateBind(g, h) /\ s[Len(s)] = Head(s)
  BY <1>1, <1>4 DEF GateOnly
<1>5. ASSUME s \in AskedOnly
      PROVE  /\ s # <<>> /\ Len(s) = 1 /\ s[Len(s)] = Head(s)
             /\ \E i \in 1..MaxLines, h \in Stamps : Head(s) = Bind(QuestionNode(i), h, {})
  BY <1>1, <1>5 DEF AskedOnly
<1>6. ASSUME NEW c, NEW g, s \in Claiming(c, g)
      PROVE  /\ s # <<>> /\ Len(s) = 1 /\ s[Len(s)] = Head(s)
             /\ \E h \in Stamps : Head(s) = Bind(ClaimNode(c), h, {AnswerNode(g)})
  BY <1>1, <1>6 DEF Claiming
<1>7. ASSUME NEW k, NEW deps, s \in Settling(k, deps)
      PROVE  /\ s # <<>> /\ Len(s) = 1 /\ s[Len(s)] = Head(s)
             /\ \E h \in Stamps : Head(s) = Bind(ConflictNode(k), h, deps)
  BY <1>1, <1>7 DEF Settling
<1>8. ASSUME NEW group, s \in Attesting(group)
      PROVE  /\ s # <<>> /\ s[Len(s)] = Sign(group)
             /\ Head(s) \in {ReadGates(group), Sign(group)}
             /\ Head(s) = ReadGates(group) => Len(s) = 2 /\ Tail(s) = <<Sign(group)>>
             /\ Head(s) = Sign(group) => Len(s) = 1
  BY <1>1, <1>2, <1>3, <1>8 DEF Attesting
<1> QED
  BY <1>4, <1>5, <1>6, <1>7, <1>8

LEMMA ClaimingFacts ==
    ASSUME NEW c, NEW g, NEW s \in Claiming(c, g)
    PROVE  \E h \in Stamps : Len(s) = 1 /\ Head(s) = Bind(ClaimNode(c), h, {AnswerNode(g)})
  BY DEF Claiming

LEMMA SettlingFacts ==
    ASSUME NEW k, NEW deps, NEW s \in Settling(k, deps)
    PROVE  \E h \in Stamps : Len(s) = 1 /\ Head(s) = Bind(ConflictNode(k), h, deps)
  BY DEF Settling

(* A gate that is to be bound is bound next. *)
LEMMA GatingFacts ==
    ASSUME NEW g, NEW s \in Gating(g)
    PROVE  \E h \in Stamps : s # <<>> /\ Head(s) = GateBind(g, h)
<1>1. s \in GateOnly(g) \/ \E text \in Texts : s \in GateFirst(g, text)
  BY DEF Gating
<1> QED
  BY <1>1, SingleFacts, AnsweringFacts

(* A step of a command is one of its kind. *)
LEMMA StepKinds ==
    ASSUME NEW n, NEW h, NEW d, NEW e, NEW group
    PROVE  /\ Bind(n, h, d).do = "bind" /\ Line(e).do = "line"
           /\ ReadGates(group).do = "gates" /\ Sign(group).do = "attest"
           /\ Bind(n, h, d).artifact = Artifact(n, h, d)
           /\ Artifact(n, h, d).node = n /\ Artifact(n, h, d).hash = h /\ Artifact(n, h, d).deps = d
           /\ Line(e).event = e /\ ReadGates(group).group = group /\ Sign(group).group = group
  BY DEF Bind, Line, ReadGates, Sign, Artifact

(* What an answer still has to bind, it binds last. *)
LEMMA AnswerIsLast ==
    ASSUME NEW g, NEW text, NEW s \in Answering(g, text)
    PROVE  /\ s # <<>> /\ s[Len(s)].do = "bind"
           /\ s[Len(s)].artifact.node = AnswerNode(g) /\ s[Len(s)].artifact.hash = text
  BY AnsweringFacts, StepKinds DEF AnswerBind

LEMMA GateIsFirst ==
    ASSUME NEW g, NEW s \in Gating(g)
    PROVE  s # <<>> /\ Head(s).do = "bind" /\ Head(s).artifact.node = GateNode(g)
<1>1. PICK h \in Stamps : s # <<>> /\ Head(s) = GateBind(g, h)
  BY GatingFacts
<1> QED  BY <1>1, StepKinds DEF GateBind

(* What has one step left binds neither a gate nor an answer, unless it says so. *)
LEMMA LastOfSingle ==
    ASSUME NEW s
    PROVE  /\ \A g : s \in GateOnly(g) => s[Len(s)].artifact.node = GateNode(g)
           /\ s \in AskedOnly =>
                /\ Head(s) = s[Len(s)]
                /\ \E i \in 1..MaxLines : s[Len(s)].artifact.node = QuestionNode(i)
           /\ \A c, g : s \in Claiming(c, g) =>
                /\ Head(s) = s[Len(s)] /\ s[Len(s)].artifact.node = ClaimNode(c)
                /\ s[Len(s)].artifact.deps = {AnswerNode(g)}
           /\ \A k, deps : s \in Settling(k, deps) =>
                /\ Head(s) = s[Len(s)] /\ s[Len(s)].artifact.node = ConflictNode(k)
                /\ s[Len(s)].artifact.deps = deps
           /\ \A group : s \in Attesting(group) =>
                s[Len(s)].do = "attest" /\ Head(s).do # "bind"
<1>1. \A g : s \in GateOnly(g) => s[Len(s)].artifact.node = GateNode(g)
  <2> SUFFICES ASSUME NEW g, s \in GateOnly(g)  PROVE s[Len(s)].artifact.node = GateNode(g)
    OBVIOUS
  <2>1. PICK h \in Stamps : s[Len(s)] = GateBind(g, h)
    BY SingleFacts
  <2> QED  BY <2>1, StepKinds DEF GateBind
<1>2. s \in AskedOnly =>
        /\ Head(s) = s[Len(s)]
        /\ \E i \in 1..MaxLines : s[Len(s)].artifact.node = QuestionNode(i)
  BY SingleFacts, StepKinds
<1>3. \A c, g : s \in Claiming(c, g) =>
        /\ Head(s) = s[Len(s)] /\ s[Len(s)].artifact.node = ClaimNode(c)
        /\ s[Len(s)].artifact.deps = {AnswerNode(g)}
  <2> SUFFICES ASSUME NEW c, NEW g, s \in Claiming(c, g)
               PROVE  /\ Head(s) = s[Len(s)] /\ s[Len(s)].artifact.node = ClaimNode(c)
                      /\ s[Len(s)].artifact.deps = {AnswerNode(g)}
    OBVIOUS
  <2>1. PICK h \in Stamps : Head(s) = s[Len(s)] /\ Head(s) = Bind(ClaimNode(c), h, {AnswerNode(g)})
    BY SingleFacts
  <2> QED  BY <2>1, StepKinds
<1>4. \A k, deps : s \in Settling(k, deps) =>
        /\ Head(s) = s[Len(s)] /\ s[Len(s)].artifact.node = ConflictNode(k)
        /\ s[Len(s)].artifact.deps = deps
  BY SingleFacts, StepKinds
<1>5. \A group : s \in Attesting(group) => s[Len(s)].do = "attest" /\ Head(s).do # "bind"
  <2> SUFFICES ASSUME NEW group, s \in Attesting(group)
               PROVE  s[Len(s)].do = "attest" /\ Head(s).do # "bind"
    OBVIOUS
  <2>1. s[Len(s)] = Sign(group) /\ Head(s) \in {ReadGates(group), Sign(group)}
    BY SingleFacts
  <2> QED
    BY <2>1, StepKinds
<1> QED
  BY <1>1, <1>2, <1>3, <1>4, <1>5

(* A command is of one kind. *)
LEMMA PlansApart ==
    ASSUME NEW s
    PROVE  /\ \A g, text, g2, text2 :
                s \in Answering(g, text) /\ s \in Answering(g2, text2) => g = g2 /\ text = text2
           /\ \A g, g2 : s \in Gating(g) /\ s \in Gating(g2) => g = g2
           /\ \A g, text, g2 : s \in Disposing(g, text) \cup AnswerLast(g, text) => s \notin Gating(g2)
           /\ \A g, text, g2 : s \in GateOnly(g2) => s \notin Answering(g, text)
           /\ s \in {<<>>} \cup AskedOnly \cup ClaimPlans \cup AttestPlans =>
                \A g, text : s \notin Answering(g, text) /\ s \notin Gating(g)
           /\ \A c, g, c2, g2 :
                s \in Claiming(c, g) /\ s \in Claiming(c2, g2) => c = c2 /\ g = g2
           /\ \A k, deps, k2, deps2 :
                s \in Settling(k, deps) /\ s \in Settling(k2, deps2) => k = k2 /\ deps = deps2
           /\ \A c, g, k, deps : s \in Claiming(c, g) => s \notin Settling(k, deps)
           /\ s \in {<<>>} \cup InterviewPlans \cup AttestPlans =>
                /\ \A c, g : s \notin Claiming(c, g)
                /\ \A k, deps : s \notin Settling(k, deps)
<1>1. \A g, text, g2, text2 :
          s \in Answering(g, text) /\ s \in Answering(g2, text2) => g = g2 /\ text = text2
  BY AnswerIsLast, NodesDiffer
<1>2. \A g, g2 : s \in Gating(g) /\ s \in Gating(g2) => g = g2
  BY GateIsFirst, NodesDiffer
<1>3. \A g, text, g2 : s \in Disposing(g, text) => s \notin Gating(g2)
  <2> SUFFICES ASSUME NEW g, NEW text, NEW g2, s \in Disposing(g, text)  PROVE s \notin Gating(g2)
    OBVIOUS
  <2>1. Head(s).do = "line"
    BY AnsweringFacts, StepKinds
  <2> QED  BY <2>1, GateIsFirst
<1>4. \A g, text, g2 : s \in AnswerLast(g, text) => s \notin Gating(g2)
  <2> SUFFICES ASSUME NEW g, NEW text, NEW g2, s \in AnswerLast(g, text)  PROVE s \notin Gating(g2)
    OBVIOUS
  <2>1. Head(s).artifact.node = AnswerNode(g)
    BY AnsweringFacts, StepKinds DEF AnswerBind
  <2> QED  BY <2>1, GateIsFirst, NodesDiffer
<1>5. \A g, text, g2 : s \in GateOnly(g2) => s \notin Answering(g, text)
  <2> SUFFICES ASSUME NEW g, NEW text, NEW g2, s \in GateOnly(g2)  PROVE s \notin Answering(g, text)
    OBVIOUS
  <2>1. s[Len(s)].artifact.node = GateNode(g2)
    BY LastOfSingle
  <2> QED  BY <2>1, AnswerIsLast, NodesDiffer
<1>6. ASSUME s \in AskedOnly \/ (\E c, g : s \in Claiming(c, g)) \/ (\E k, deps : s \in Settling(k, deps))
      PROVE  \A g, text : s \notin Answering(g, text) /\ s \notin Gating(g)
  <2>1. /\ Head(s) = s[Len(s)]
        /\ \E x : s[Len(s)].artifact.node \in {QuestionNode(x), ClaimNode(x), ConflictNode(x)}
    BY <1>6, LastOfSingle
  <2>2. \A g : s[Len(s)].artifact.node \notin {AnswerNode(g), GateNode(g)}
    BY <2>1, NodesDiffer
  <2> QED  BY <2>1, <2>2, AnswerIsLast, GateIsFirst
<1>7. ASSUME NEW group, s \in Attesting(group)
      PROVE  \A g, text : s \notin Answering(g, text) /\ s \notin Gating(g)
  <2>1. s[Len(s)].do = "attest" /\ Head(s).do # "bind"
    BY <1>7, LastOfSingle
  <2> QED  BY <2>1, AnswerIsLast, GateIsFirst
<1>8. s = <<>> => \A g, text : s \notin Answering(g, text) /\ s \notin Gating(g)
  BY AnswerIsLast, GateIsFirst
<1>9. \A c, g, c2, g2 : s \in Claiming(c, g) /\ s \in Claiming(c2, g2) => c = c2 /\ g = g2
  <2> SUFFICES ASSUME NEW c, NEW g, NEW c2, NEW g2, s \in Claiming(c, g), s \in Claiming(c2, g2)
               PROVE  c = c2 /\ g = g2
    OBVIOUS
  <2>1. ClaimNode(c) = ClaimNode(c2) /\ {AnswerNode(g)} = {AnswerNode(g2)}
    BY LastOfSingle
  <2>2. AnswerNode(g) = AnswerNode(g2)
    BY <2>1
  <2> QED  BY <2>1, <2>2, NodesDiffer
<1>10. \A k, deps, k2, deps2 :
          s \in Settling(k, deps) /\ s \in Settling(k2, deps2) => k = k2 /\ deps = deps2
  <2> SUFFICES ASSUME NEW k, NEW deps, NEW k2, NEW deps2,
                      s \in Settling(k, deps), s \in Settling(k2, deps2)
               PROVE  k = k2 /\ deps = deps2
    OBVIOUS
  <2>1. ConflictNode(k) = ConflictNode(k2) /\ deps = deps2
    BY LastOfSingle
  <2> QED  BY <2>1, NodesDiffer
<1>11. \A c, g, k, deps : s \in Claiming(c, g) => s \notin Settling(k, deps)
  BY LastOfSingle, NodesDiffer
<1>12. ASSUME s \in InterviewPlans \/ (\E group : s \in Attesting(group)) \/ s = <<>>
       PROVE  /\ \A c, g : s \notin Claiming(c, g)
              /\ \A k, deps : s \notin Settling(k, deps)
  <2>1. CASE s = <<>>
    BY <2>1, SingleFacts
  <2>2. CASE \E group : s \in Attesting(group)
    <3>1. Head(s).do # "bind"
      BY <2>2, LastOfSingle
    <3>2. ASSUME NEW c, NEW g, s \in Claiming(c, g)  PROVE Head(s).do = "bind"
      <4>1. PICK h \in Stamps : Head(s) = Bind(ClaimNode(c), h, {AnswerNode(g)})
        BY <3>2, SingleFacts
      <4> QED  BY <4>1, StepKinds
    <3>3. ASSUME NEW k, NEW deps, s \in Settling(k, deps)  PROVE Head(s).do = "bind"
      <4>1. PICK h \in Stamps : Head(s) = Bind(ConflictNode(k), h, deps)
        BY <3>3, SingleFacts
      <4> QED  BY <4>1, StepKinds
    <3> QED  BY <3>1, <3>2, <3>3
  <2>3. CASE s \in InterviewPlans
    <3>1. (\E g, text : s \in Answering(g, text)) \/ s \in AskedOnly \/ (\E g : s \in Gating(g))
      BY <2>3 DEF InterviewPlans
    <3>2. s \in AskedOnly => /\ \A c, g : s \notin Claiming(c, g)
                             /\ \A k, deps : s \notin Settling(k, deps)
      <4> SUFFICES ASSUME s \in AskedOnly
                   PROVE  /\ \A c, g : s \notin Claiming(c, g)
                          /\ \A k, deps : s \notin Settling(k, deps)
        OBVIOUS
      <4>1. PICK i \in 1..MaxLines : s[Len(s)].artifact.node = QuestionNode(i)
        BY LastOfSingle
      <4>2. ASSUME NEW c, NEW g, s \in Claiming(c, g)  PROVE FALSE
        BY <4>1, <4>2, LastOfSingle, NodesDiffer
      <4>3. ASSUME NEW k, NEW deps, s \in Settling(k, deps)  PROVE FALSE
        <5>1. s[Len(s)].artifact.node = ConflictNode(k)
          BY <4>3, LastOfSingle
        <5> QED  BY <4>1, <5>1, NodesDiffer
      <4> QED  BY <4>2, <4>3
    <3> QED  BY <3>1, <3>2, <1>6
  <2> QED  BY <1>12, <2>1, <2>2, <2>3
<1>13. s \in {<<>>} \cup AskedOnly \cup ClaimPlans \cup AttestPlans =>
         \A g, text : s \notin Answering(g, text) /\ s \notin Gating(g)
  BY <1>6, <1>7, <1>8 DEF ClaimPlans, AttestPlans
<1>14. s \in {<<>>} \cup InterviewPlans \cup AttestPlans =>
         /\ \A c, g : s \notin Claiming(c, g)
         /\ \A k, deps : s \notin Settling(k, deps)
  BY <1>12 DEF AttestPlans
<1> QED
  BY <1>1, <1>2, <1>3, <1>4, <1>5, <1>9, <1>10, <1>11, <1>13, <1>14

-----------------------------------------------------------------------------
(* The transcript.                                                          *)

\* What one line does to what was recorded before it.
Keeps(x, y) ==
    /\ Len(x.answers) <= Len(y.answers) /\ Len(x.questions) <= Len(y.questions)
    /\ \A i \in 1..Len(x.answers) :
          \/ y.answers[i] = x.answers[i]
          \/ /\ x.answers[i].superseded_by = None
             /\ y.answers[i] = [x.answers[i] EXCEPT !.superseded_by = Len(y.answers)]
             /\ y.answers[i].superseded_by > i
    /\ \A i \in 1..Len(x.questions) :
          \/ y.questions[i] = x.questions[i]
          \/ /\ x.questions[i].answered_by = None
             /\ y.questions[i] = [x.questions[i] EXCEPT !.answered_by = Len(y.answers)]

\* The line e means the same in memory as on replay.
OneMeaning(x, e) == Live(Prepared(x, e), e) = Applied(x, e)

(* What has the next id is put at the end. *)
LEMMA PutNext ==
    ASSUME NEW S, NEW s \in Seq(S), NEW r \in S
    PROVE  /\ Put(s, Len(s) + 1, r) = Append(s, r)
           /\ Append(s, r) \in Seq(S) /\ Len(Append(s, r)) = Len(s) + 1
           /\ \A i \in 1..Len(s) : Append(s, r)[i] = s[i]
           /\ Append(s, r)[Len(s) + 1] = r
  BY LenProperties, AppendProperties DEF Put

(* The fields of an index and nothing else make it. *)
LEMMA IndexFields ==
    ASSUME NEW x \in InterviewIndex, NEW y \in InterviewIndex,
           x.questions = y.questions, x.answers = y.answers, x.corrections = y.corrections,
           x.disposition = y.disposition, x.current = y.current, x.open = y.open
    PROVE  x = y
  BY DEF InterviewIndex

(* The types of the fields. *)
LEMMA IndexTypes ==
    ASSUME NEW x \in InterviewIndex
    PROVE  /\ x.questions \in Seq(Question) /\ x.answers \in Seq(Answer) /\ x.corrections \in Nat
           /\ x.disposition \in [Gates -> Dispositions \cup {Open}]
           /\ x.current \in [Gates -> Nat] /\ x.open \in Nat
           /\ Len(x.questions) \in Nat /\ Len(x.answers) \in Nat
           /\ \A i \in 1..Len(x.questions) : x.questions[i] \in Question
           /\ \A i \in 1..Len(x.answers) : x.answers[i] \in Answer
<1>1. /\ x.questions \in Seq(Question) /\ x.answers \in Seq(Answer) /\ x.corrections \in Nat
      /\ x.disposition \in [Gates -> Dispositions \cup {Open}]
      /\ x.current \in [Gates -> Nat] /\ x.open \in Nat
  BY DEF InterviewIndex
<1> QED
  BY <1>1, LenProperties, ElementOfSeq

(* Asking: one more question, which is the open one. *)
LEMMA AskKeeps ==
    ASSUME NEW x, Sound(x), x.open = None, NEW g \in Gates, NEW e,
           e = [type |-> "question_asked", id |-> Len(x.questions) + 1, gate |-> g]
    PROVE  /\ Sound(Applied(x, e)) /\ Keeps(x, Applied(x, e)) /\ OneMeaning(x, e)
           /\ Applied(x, e).answers = x.answers /\ Applied(x, e).current = x.current
           /\ Applied(x, e).disposition = x.disposition
           /\ Len(Applied(x, e).questions) = Len(x.questions) + 1
<1> DEFINE y == Applied(x, e)
           n == Len(x.questions) + 1
           r == NewQuestion(e)
<1>1. x \in InterviewIndex
  BY DEF Sound
<1>2. r \in Question /\ r.answered_by = None
  BY DEF NewQuestion, Question, None
<1>3. /\ y = [x EXCEPT !.questions = Put(@, n, r), !.open = n]
      /\ OneMeaning(x, e)
  BY DEF Applied, Asks, OneMeaning, Live, Prepared
<1>4. /\ y.questions = Append(x.questions, r) /\ y.open = n
      /\ y.answers = x.answers /\ y.current = x.current /\ y.disposition = x.disposition
      /\ y.corrections = x.corrections /\ y \in InterviewIndex
  <2>1. /\ Put(x.questions, n, r) = Append(x.questions, r)
        /\ Append(x.questions, r) \in Seq(Question) /\ n \in Nat
    <3> HIDE DEF r
    <3> QED  BY <1>1, <1>2, PutNext, IndexTypes
  <2>2. y = [x EXCEPT !.questions = Append(x.questions, r), !.open = n]
    BY <1>3, <2>1
  <2> HIDE DEF y, r, n
  <2> QED  BY <1>1, <2>1, <2>2 DEF InterviewIndex
<1> HIDE DEF y, r
<1>5. /\ Len(y.questions) = n /\ y.questions[n] = r
      /\ \A i \in 1..Len(x.questions) : y.questions[i] = x.questions[i]
      /\ Len(x.questions) \in Nat
  BY <1>1, <1>2, <1>4, PutNext, IndexTypes
<1>6. Keeps(x, y)
  BY <1>1, <1>4, <1>5, IndexTypes DEF Keeps
<1>7. \A i \in 1..n : i = n \/ i \in 1..Len(x.questions)
  BY <1>5
<1>8. \A i \in 1..Len(y.questions) : IsOpen(y, i) <=> y.open = i
  <2> SUFFICES ASSUME NEW i \in 1..Len(y.questions)  PROVE IsOpen(y, i) <=> y.open = i
    OBVIOUS
  <2>1. CASE i = n
    BY <2>1, <1>2, <1>4, <1>5 DEF IsOpen
  <2>2. CASE i \in 1..Len(x.questions)
    <3>1. ~IsOpen(x, i)
      BY <2>2 DEF Sound, None
    <3> QED  BY <3>1, <2>2, <1>4, <1>5 DEF IsOpen
  <2> QED  BY <1>5, <1>7, <2>1, <2>2
<1>9. Sound(y)
  BY <1>4, <1>5, <1>8 DEF Sound, IsCurrent
<1> QED
  BY <1>3, <1>4, <1>5, <1>6, <1>9 DEF y

(* Disposing of a gate. *)
LEMMA DisposeKeeps ==
    ASSUME NEW x, Sound(x), NEW g \in Gates, NEW d \in Dispositions
    PROVE  LET e == Disposition(g, d) IN
           /\ Sound(Applied(x, e)) /\ Keeps(x, Applied(x, e)) /\ OneMeaning(x, e)
           /\ Live(x, e) = Applied(x, e)
           /\ Applied(x, e).answers = x.answers /\ Applied(x, e).current = x.current
           /\ Applied(x, e).disposition = [x.disposition EXCEPT ![g] = d]
           /\ Applied(x, e).questions = x.questions
<1> DEFINE e == Disposition(g, d)
           y == Applied(x, e)
<1>1. x \in InterviewIndex
  BY DEF Sound
<1>2. y = [x EXCEPT !.disposition[g] = d] /\ Live(x, e) = y /\ OneMeaning(x, e)
  BY DEF Applied, Disposes, OneMeaning, Live, Prepared, Disposition
<1>3. /\ y.disposition = [x.disposition EXCEPT ![g] = d]
      /\ y.answers = x.answers /\ y.current = x.current /\ y.questions = x.questions
      /\ y.open = x.open /\ y \in InterviewIndex
  BY <1>1, <1>2 DEF InterviewIndex
<1> HIDE DEF y, e
<1>4. Keeps(x, y)
  BY <1>1, <1>3, IndexTypes DEF Keeps
<1>5. Sound(y)
  BY <1>3 DEF Sound, IsOpen, IsCurrent
<1> QED
  BY <1>2, <1>3, <1>4, <1>5 DEF y, e

\* z is x with one more answer, the current one of its gate.
AddsAnswer(x, z, g, r) ==
    /\ z \in InterviewIndex
    /\ r \in Answer /\ r.superseded_by = None /\ r.gate = g
    /\ z.answers = Append(x.answers, r)
    /\ z.current = [x.current EXCEPT ![g] = Len(x.answers) + 1]
    /\ z.questions = x.questions /\ z.corrections = x.corrections
    /\ z.disposition = x.disposition /\ z.open = x.open

\* z is x with a question closed by the answer n.
ClosesQuestion(x, z, q, n) ==
    /\ z \in InterviewIndex
    /\ z.answers = x.answers /\ z.current = x.current
    /\ z.disposition = x.disposition /\ z.corrections = x.corrections /\ z.open = None
    /\ z.questions = [x.questions EXCEPT ![q].answered_by = n]
    /\ Len(z.questions) = Len(x.questions)
    /\ z.questions[q] = [x.questions[q] EXCEPT !.answered_by = n]
    /\ \A i \in 1..Len(x.questions) : i # q => z.questions[i] = x.questions[i]

\* y is x with a new current answer, and perhaps an older one superseded or a
\* question closed.
NewCurrent(x, y, g, text) ==
    /\ Len(y.answers) = Len(x.answers) + 1
    /\ y.answers[Len(y.answers)].gate = g /\ y.answers[Len(y.answers)].text = text
    /\ y.current = [x.current EXCEPT ![g] = Len(x.answers) + 1]
    /\ y.disposition = x.disposition /\ Len(y.questions) = Len(x.questions)

\* What Sound says of the answers.
AnswersOf(y) ==
    /\ \A h \in Gates :
          /\ y.current[h] \in 0..Len(y.answers)
          /\ y.current[h] # None =>
                y.answers[y.current[h]].gate = h /\ IsCurrent(y, y.current[h])
    /\ \A i \in 1..Len(y.answers) : i <= y.current[y.answers[i].gate]

(* A further answer becomes the current one of its gate. *)
LEMMA SaysFacts ==
    ASSUME NEW x \in InterviewIndex, NEW g \in Gates, NEW text \in Texts, NEW q \in Nat, NEW e,
           e.id = Len(x.answers) + 1, e.gate = g, e.text = text
    PROVE  AddsAnswer(x, Says(x, e, q), g, NewAnswer(e, q)) /\ NewAnswer(e, q).text = text
<1> DEFINE n == Len(x.answers) + 1
           r == NewAnswer(e, q)
<1>1. r \in Answer /\ r.superseded_by = None /\ r.gate = g /\ r.text = text
  BY DEF NewAnswer, Answer, None
<1>2. n \in Nat /\ Put(x.answers, n, r) = Append(x.answers, r) /\ Append(x.answers, r) \in Seq(Answer)
  <2> HIDE DEF r
  <2> QED  BY <1>1, PutNext, IndexTypes
<1>3. Says(x, e, q) = [x EXCEPT !.answers = Append(x.answers, r), !.current[g] = n]
  BY <1>2 DEF Says
<1> DEFINE z == Says(x, e, q)
<1> HIDE DEF n, r, z
<1>4. /\ z.answers = Append(x.answers, r) /\ z.current = [x.current EXCEPT ![g] = n]
      /\ z.questions = x.questions /\ z.corrections = x.corrections
      /\ z.disposition = x.disposition /\ z.open = x.open /\ z \in InterviewIndex
  <2>1. /\ z.answers = Append(x.answers, r) /\ z.current = [x.current EXCEPT ![g] = n]
        /\ z.questions = x.questions /\ z.corrections = x.corrections
        /\ z.disposition = x.disposition /\ z.open = x.open
    BY <1>3 DEF z, InterviewIndex
  <2>2. [x.current EXCEPT ![g] = n] \in [Gates -> Nat]
    BY <1>2, IndexTypes
  <2> QED  BY <1>2, <1>3, <2>1, <2>2 DEF z, InterviewIndex
<1> QED
  BY <1>1, <1>4 DEF n, r, z, AddsAnswer

(* Closing a question changes it and what is open. *)
LEMMA ClosesFacts ==
    ASSUME NEW x \in InterviewIndex, NEW q \in 1..Len(x.questions), NEW n \in Nat
    PROVE  ClosesQuestion(x, Closes(x, q, n), q, n)
<1> DEFINE r == [x.questions[q] EXCEPT !.answered_by = n]
           s == [x.questions EXCEPT ![q] = r]
           z == Closes(x, q, n)
<1>1. x.questions \in Seq(Question) /\ r \in Question
  BY IndexTypes DEF Question
<1>2. /\ s \in Seq(Question) /\ Len(s) = Len(x.questions) /\ s[q] = r
      /\ \A i \in 1..Len(x.questions) : i # q => s[i] = x.questions[i]
  <2> HIDE DEF r
  <2> QED  BY <1>1, ExceptSeq
<1>3. z = [x EXCEPT !.questions = s, !.open = None] /\ None \in Nat
  BY DEF Closes, None
<1>4. s = [x.questions EXCEPT ![q].answered_by = n]
  OBVIOUS
<1> HIDE DEF r, s, z
<1>5. /\ z.answers = x.answers /\ z.current = x.current /\ z.disposition = x.disposition
      /\ z.corrections = x.corrections /\ z.open = None /\ z.questions = s
      /\ z \in InterviewIndex
  BY <1>2, <1>3 DEF InterviewIndex
<1> QED
  BY <1>2, <1>4, <1>5 DEF r, z, ClosesQuestion

(* Where a sound transcript gets one more answer, which is current, that and
   the others keep what Sound says of them. *)
LEMMA AnswersSound ==
    ASSUME NEW x, Sound(x), NEW y \in InterviewIndex, NEW g \in Gates, NEW n, n = Len(x.answers) + 1,
           Len(y.answers) = n, y.current = [x.current EXCEPT ![g] = n],
           y.answers[n].gate = g, y.answers[n].superseded_by = None,
           \A i \in 1..Len(x.answers) : y.answers[i].gate = x.answers[i].gate,
           \A i \in 1..Len(x.answers) :
              IsCurrent(x, i) => IsCurrent(y, i) \/ x.answers[i].gate = g
    PROVE  AnswersOf(y)
<1>1. x \in InterviewIndex /\ Len(x.answers) \in Nat /\ x.current \in [Gates -> Nat]
  BY IndexTypes DEF Sound
<1>2. ASSUME NEW h \in Gates
      PROVE  /\ y.current[h] \in 0..Len(y.answers)
             /\ y.current[h] # None =>
                   y.answers[y.current[h]].gate = h /\ IsCurrent(y, y.current[h])
  <2>1. CASE h = g
    BY <1>1, <2>1 DEF IsCurrent, None
  <2>2. CASE h # g
    <3>1. y.current[h] = x.current[h] /\ x.current[h] \in 0..Len(x.answers)
      BY <1>1, <2>2 DEF Sound
    <3>2. x.current[h] # None =>
             x.answers[x.current[h]].gate = h /\ IsCurrent(x, x.current[h])
      BY DEF Sound
    <3>3. x.current[h] # None => x.current[h] \in 1..Len(x.answers)
      BY <1>1, <3>1 DEF None
    <3> QED  BY <1>1, <2>2, <3>1, <3>2, <3>3
  <2> QED  BY <2>1, <2>2
<1>3. ASSUME NEW i \in 1..Len(y.answers)  PROVE i <= y.current[y.answers[i].gate]
  <2>1. CASE i = n
    BY <1>1, <2>1
  <2>2. CASE i \in 1..Len(x.answers)
    <3>1. i <= x.current[x.answers[i].gate] /\ x.answers[i].gate \in Gates
      BY <1>1, <2>2, IndexTypes DEF Sound, Answer
    <3> QED  BY <1>1, <2>2, <3>1
  <2> QED  BY <1>1, <2>1, <2>2
<1> QED
  BY <1>2, <1>3 DEF AnswersOf

(* Answering: one more answer, which closes the open question if there is one. *)
LEMMA AnswerKeeps ==
    ASSUME NEW x, Sound(x), NEW g \in Gates, NEW text \in Texts, NEW e,
           e.type = "answer_recorded", e.id = Len(x.answers) + 1, e.gate = g,
           e.text = text, e.question = x.open
    PROVE  /\ Sound(Applied(x, e)) /\ Keeps(x, Applied(x, e)) /\ OneMeaning(x, e)
           /\ NewCurrent(x, Applied(x, e), g, text)
<1> DEFINE y == Applied(x, e)
           n == Len(x.answers) + 1
           q == x.open
           z == Says(x, e, q)
           r == NewAnswer(e, q)
<1>1. /\ x \in InterviewIndex /\ q \in Nat /\ q \in 0..Len(x.questions)
      /\ Len(x.answers) \in Nat /\ Len(x.questions) \in Nat
  BY IndexTypes DEF Sound
<1>2. e.type = "answer_recorded" /\ e.id = n /\ e.gate = g /\ e.text = text /\ e.question = q
  OBVIOUS
<1>3. /\ z.answers = Append(x.answers, r) /\ z.current = [x.current EXCEPT ![g] = n]
      /\ z.questions = x.questions /\ z.corrections = x.corrections
      /\ z.disposition = x.disposition /\ z.open = x.open /\ z \in InterviewIndex
      /\ r \in Answer /\ r.superseded_by = None /\ r.gate = g /\ r.text = text
  <2> HIDE DEF q
  <2>1. e.id = Len(x.answers) + 1
    BY <1>2
  <2>2. AddsAnswer(x, z, g, r) /\ r.text = text
    BY <1>1, <1>2, <2>1, SaysFacts
  <2> HIDE DEF z, r
  <2> QED  BY <2>2 DEF AddsAnswer
<1>4. /\ Len(z.answers) = n /\ z.answers[n] = r
      /\ \A i \in 1..Len(x.answers) : z.answers[i] = x.answers[i]
  <2> HIDE DEF z, r
  <2> QED  BY <1>1, <1>3, PutNext, IndexTypes
<1>5. /\ q # None => x.questions[q].answered_by = None
      /\ q # None => q \in 1..Len(x.questions)
  BY <1>1 DEF Sound, IsOpen, None
<1>6. y = IF q = None THEN z ELSE Closes(z, q, n)
  <2>1. y = AppliedAnswer(x, e)
    BY <1>2 DEF Applied
  <2>2. q = None => q \notin 1..Len(x.questions)
    BY DEF None
  <2> HIDE DEF y, q
  <2> QED  BY <1>2, <1>5, <2>1, <2>2 DEF AppliedAnswer, z
<1> HIDE DEF z, r
<1>7. /\ y \in InterviewIndex /\ y.answers = z.answers /\ y.current = z.current
      /\ y.disposition = z.disposition /\ y.corrections = z.corrections /\ y.open = None
      /\ q = None => y.questions = x.questions
      /\ q # None => y.questions = [x.questions EXCEPT ![q].answered_by = n]
  <2>1. CASE q = None
    BY <1>3, <1>6, <2>1
  <2>2. CASE q # None
    <3>1. y = Closes(z, q, n) /\ q \in 1..Len(z.questions) /\ n \in Nat
      BY <1>1, <1>3, <1>5, <1>6, <2>2
    <3> HIDE DEF y, q, n
    <3>2. ClosesQuestion(z, y, q, n)
      BY <1>3, <3>1, ClosesFacts
    <3> QED  BY <1>3, <2>2, <3>2 DEF ClosesQuestion
  <2> QED  BY <2>1, <2>2
<1>8. OneMeaning(x, e)
  <2>1. CASE q = None
    <3>1. Prepared(x, e) = x
      BY <1>2, <2>1 DEF Prepared
    <3>2. Live(x, e) = z
      BY <1>2 DEF Live, z
    <3> QED  BY <1>6, <2>1, <3>1, <3>2 DEF OneMeaning
  <2>2. CASE q # None
    <3>1. Prepared(x, e) = Closes(x, q, n)
      BY <1>2, <2>2 DEF Prepared
    <3> DEFINE w == Closes(x, q, n)
    <3>2. /\ w \in InterviewIndex /\ w.answers = x.answers /\ w.current = x.current
          /\ w.disposition = x.disposition /\ w.corrections = x.corrections /\ w.open = None
          /\ w.questions = [x.questions EXCEPT ![q].answered_by = n]
      <4>1. q \in 1..Len(x.questions) /\ n \in Nat
        BY <1>1, <1>5, <2>2
      <4> HIDE DEF q, n
      <4>2. ClosesQuestion(x, w, q, n)
        BY <1>1, <4>1, ClosesFacts
      <4> HIDE DEF w
      <4> QED  BY <4>2 DEF ClosesQuestion
    <3> HIDE DEF w
    <3>3. /\ Says(w, e, q).answers = Append(x.answers, r)
          /\ Says(w, e, q).current = [x.current EXCEPT ![g] = n]
          /\ Says(w, e, q).questions = w.questions /\ Says(w, e, q).corrections = x.corrections
          /\ Says(w, e, q).disposition = x.disposition /\ Says(w, e, q).open = None
          /\ Says(w, e, q) \in InterviewIndex
      <4> HIDE DEF q
      <4>1. e.id = Len(w.answers) + 1
        BY <1>2, <3>2
      <4>2. AddsAnswer(w, Says(w, e, q), g, r)
        BY <1>1, <1>2, <3>2, <4>1, SaysFacts DEF r
      <4> QED  BY <3>2, <4>2 DEF AddsAnswer
    <3>4. Live(w, e) = Says(w, e, q)
      BY <1>2 DEF Live
    <3>5. Says(w, e, q) = y
      <4> DEFINE v == Says(w, e, q)
      <4>1. /\ v.questions = y.questions /\ v.answers = y.answers
            /\ v.corrections = y.corrections /\ v.disposition = y.disposition
            /\ v.current = y.current /\ v.open = y.open
            /\ v \in InterviewIndex /\ y \in InterviewIndex
        <5> HIDE DEF y, n, q
        <5> QED  BY <1>3, <1>7, <2>2, <3>2, <3>3
      <4> HIDE DEF v, y
      <4>2. v = y
        BY <4>1, IndexFields
      <4> QED  BY <4>2 DEF v
    <3> QED  BY <3>1, <3>4, <3>5 DEF OneMeaning, w
  <2> QED  BY <2>1, <2>2
<1> HIDE DEF y, q, n
<1>9. /\ Len(y.questions) = Len(x.questions)
      /\ \A i \in 1..Len(x.questions) : i # q => y.questions[i] = x.questions[i]
      /\ q # None => y.questions[q] = [x.questions[q] EXCEPT !.answered_by = n]
  <2>1. CASE q = None
    BY <1>7, <2>1
  <2>2. CASE q # None
    <3>1. y = Closes(z, q, n) /\ q \in 1..Len(z.questions) /\ n \in Nat
      BY <1>1, <1>3, <1>5, <1>6, <2>2 DEF n
    <3>2. ClosesQuestion(z, y, q, n)
      BY <1>3, <3>1, ClosesFacts
    <3> QED  BY <1>3, <2>2, <3>2 DEF ClosesQuestion
  <2> QED  BY <2>1, <2>2
<1>10. Keeps(x, y)
  <2>1. \A i \in 1..Len(x.answers) : y.answers[i] = x.answers[i]
    BY <1>4, <1>7
  <2>2. Len(y.answers) = n
    BY <1>4, <1>7
  <2>3. ASSUME NEW i \in 1..Len(x.questions)
        PROVE  \/ y.questions[i] = x.questions[i]
               \/ /\ x.questions[i].answered_by = None
                  /\ y.questions[i] = [x.questions[i] EXCEPT !.answered_by = Len(y.answers)]
    <3>1. CASE i = q
      <4>1. q # None
        BY <3>1 DEF None
      <4> QED  BY <1>5, <1>9, <2>2, <3>1, <4>1
    <3> QED  BY <1>9, <3>1
  <2> QED  BY <1>1, <1>9, <2>1, <2>2, <2>3 DEF Keeps, n
<1>11. \A i \in 1..Len(y.questions) : IsOpen(y, i) <=> y.open = i
  <2> SUFFICES ASSUME NEW i \in 1..Len(y.questions)  PROVE ~IsOpen(y, i) /\ y.open # i
    OBVIOUS
  <2>1. y.open # i
    BY <1>7 DEF None
  <2>2. CASE i = q
    <3>1. q # None /\ x.questions[q] \in Question /\ n # None /\ n \in Nat
      BY <1>1, <1>5, <1>9, <2>2, IndexTypes DEF None, n
    <3>2. y.questions[q].answered_by = n
      BY <1>9, <3>1 DEF Question
    <3> QED  BY <2>1, <2>2, <3>1, <3>2 DEF IsOpen
  <2>3. CASE i # q
    <3>1. ~IsOpen(x, i) /\ y.questions[i] = x.questions[i]
      BY <1>9, <2>3 DEF Sound, q
    <3> QED  BY <2>1, <3>1 DEF IsOpen
  <2> QED  BY <2>2, <2>3
<1>12. Sound(y)
  <2>1. \A i \in 1..Len(x.answers) :
           y.answers[i].gate = x.answers[i].gate /\ (IsCurrent(x, i) => IsCurrent(y, i))
    BY <1>4, <1>7 DEF IsCurrent
  <2>2. y.open \in 0..Len(y.questions)
    BY <1>1, <1>7, <1>9 DEF None
  <2>3. /\ Len(y.answers) = n /\ y.answers[n].gate = g /\ y.answers[n].superseded_by = None
        /\ y.current = [x.current EXCEPT ![g] = n] /\ n = Len(x.answers) + 1
    BY <1>3, <1>4, <1>7 DEF n
  <2>4. AnswersOf(y)
    BY <1>7, <2>1, <2>3, AnswersSound
  <2> QED  BY <1>7, <1>11, <2>2, <2>4 DEF Sound, AnswersOf
<1>13. NewCurrent(x, y, g, text)
  BY <1>3, <1>4, <1>7, <1>9 DEF NewCurrent, n
<1> QED
  BY <1>8, <1>10, <1>12, <1>13 DEF y

(* Correcting: one more answer, and a current one of its gate is superseded. *)
LEMMA CorrectKeeps ==
    ASSUME NEW x, Sound(x), NEW old \in 1..Len(x.answers), IsCurrent(x, old),
           NEW text \in Texts, NEW e,
           e.type = "correction_recorded", e.id = Len(x.answers) + 1,
           e.gate = x.answers[old].gate, e.text = text, e.old = old
    PROVE  /\ Sound(Applied(x, e)) /\ Keeps(x, Applied(x, e)) /\ OneMeaning(x, e)
           /\ NewCurrent(x, Applied(x, e), x.answers[old].gate, text)
<1> DEFINE n == Len(x.answers) + 1
           g == x.answers[old].gate
           a == [x.answers[old] EXCEPT !.superseded_by = n]
           s == [x.answers EXCEPT ![old] = a]
           w == Supersedes(x, old, n)
           z == Says(w, e, None)
           r == NewAnswer(e, None)
           y == Applied(x, e)
<1>1. /\ x \in InterviewIndex /\ Len(x.answers) \in Nat /\ n \in Nat /\ None \in Nat
      /\ x.answers[old] \in Answer /\ g \in Gates /\ x.answers \in Seq(Answer)
  <2>1. x \in InterviewIndex
    BY DEF Sound
  <2>2. x.answers[old] \in Answer /\ Len(x.answers) \in Nat /\ x.answers \in Seq(Answer)
    BY <2>1, IndexTypes
  <2> QED  BY <2>1, <2>2 DEF Answer, None
<1>2. a \in Answer /\ a.gate = g /\ a.superseded_by = n
  BY <1>1 DEF Answer
<1>3. /\ s \in Seq(Answer) /\ Len(s) = Len(x.answers) /\ s[old] = a
      /\ \A i \in 1..Len(x.answers) : i # old => s[i] = x.answers[i]
  <2> HIDE DEF a
  <2> QED  BY <1>1, <1>2, ExceptSeq
<1>4. w = [x EXCEPT !.answers = s]
  BY DEF Supersedes
<1>5. y = [z EXCEPT !.corrections = @ + 1] /\ OneMeaning(x, e)
  BY DEF Applied, AppliedCorrection, OneMeaning, Live, Prepared
<1> HIDE DEF w, s, a
<1>6. /\ w \in InterviewIndex /\ w.answers = s /\ w.current = x.current
      /\ w.disposition = x.disposition /\ w.corrections = x.corrections
      /\ w.open = x.open /\ w.questions = x.questions
  BY <1>1, <1>3, <1>4 DEF InterviewIndex
<1>7. e.id = Len(w.answers) + 1 /\ e.gate = g /\ e.text = text
  BY <1>3, <1>6
<1> HIDE DEF g
<1>8. AddsAnswer(w, z, g, r) /\ r.text = text
  <2>1. g \in Gates /\ None \in Nat /\ w \in InterviewIndex
    BY <1>1, <1>6
  <2> QED  BY <2>1, <1>7, SaysFacts
<1> HIDE DEF z, r, n
<1>9. /\ z \in InterviewIndex
      /\ r \in Answer /\ r.superseded_by = None /\ r.gate = g
      /\ z.answers = Append(s, r) /\ z.current = [x.current EXCEPT ![g] = n]
      /\ z.questions = x.questions /\ z.disposition = x.disposition /\ z.open = x.open
  BY <1>3, <1>6, <1>8 DEF AddsAnswer, n
<1>10. /\ y \in InterviewIndex /\ y.answers = Append(s, r)
       /\ y.current = [x.current EXCEPT ![g] = n]
       /\ y.questions = x.questions /\ y.disposition = x.disposition /\ y.open = x.open
  <2> HIDE DEF y
  <2>1. z.corrections + 1 \in Nat
    BY <1>9, IndexTypes
  <2>2. y = [z EXCEPT !.corrections = z.corrections + 1]
    BY <1>5
  <2> QED  BY <1>9, <2>1, <2>2 DEF InterviewIndex
<1> HIDE DEF y
<1>11. /\ Len(y.answers) = n /\ y.answers[n] = r /\ y.answers[old] = a
       /\ \A i \in 1..Len(x.answers) : i # old => y.answers[i] = x.answers[i]
  BY <1>1, <1>3, <1>9, <1>10, PutNext DEF n
<1>12. x.answers[old].superseded_by = None
  BY DEF IsCurrent
<1>13. Keeps(x, y)
  <2>1. ASSUME NEW i \in 1..Len(x.answers)
        PROVE  \/ y.answers[i] = x.answers[i]
               \/ /\ x.answers[i].superseded_by = None
                  /\ y.answers[i] = [x.answers[i] EXCEPT !.superseded_by = Len(y.answers)]
                  /\ y.answers[i].superseded_by > i
    <3>1. CASE i = old
      <4>1. y.answers[i] = [x.answers[i] EXCEPT !.superseded_by = Len(y.answers)]
        BY <1>11, <3>1 DEF a
      <4>2. y.answers[i].superseded_by > i
        <5>1. y.answers[i].superseded_by = n
          BY <1>2, <1>11, <3>1
        <5> QED  BY <1>1, <5>1 DEF n
      <4> QED  BY <1>12, <3>1, <4>1, <4>2
    <3> QED  BY <1>11, <3>1
  <2>2. /\ Len(x.answers) <= Len(y.answers) /\ Len(x.questions) <= Len(y.questions)
        /\ \A i \in 1..Len(x.questions) : y.questions[i] = x.questions[i]
    BY <1>1, <1>10, <1>11, IndexTypes DEF n
  <2> QED  BY <2>1, <2>2 DEF Keeps
<1>14. Sound(y)
  <2>1. \A i \in 1..Len(x.answers) : y.answers[i].gate = x.answers[i].gate
    BY <1>2, <1>11 DEF g
  <2>4. \A i \in 1..Len(x.answers) :
           IsCurrent(x, i) => IsCurrent(y, i) \/ x.answers[i].gate = g
    BY <1>11 DEF IsCurrent, g
  <2>2. /\ Len(y.answers) = n /\ y.answers[n].gate = g /\ y.answers[n].superseded_by = None
        /\ n = Len(x.answers) + 1
    BY <1>9, <1>11 DEF n
  <2>3. AnswersOf(y)
    <3>1. g \in Gates /\ y \in InterviewIndex /\ y.current = [x.current EXCEPT ![g] = n]
      BY <1>1, <1>10
    <3> QED  BY <3>1, <2>1, <2>2, <2>4, AnswersSound
  <2> QED  BY <1>10, <2>3 DEF Sound, AnswersOf, IsOpen
<1>15. NewCurrent(x, y, g, text)
  BY <1>8, <1>9, <1>10, <1>11 DEF NewCurrent, n
<1> QED
  BY <1>5, <1>13, <1>14, <1>15 DEF y, g

-----------------------------------------------------------------------------
(* What a command may still do.                                             *)

(* The artifacts there are. *)
LEMMA NodesIn ==
    /\ Approver \in ArtifactNodes
    /\ \A i \in 1..MaxLines : QuestionNode(i) \in ArtifactNodes
    /\ \A g \in Gates : AnswerNode(g) \in ArtifactNodes /\ GateNode(g) \in ArtifactNodes
    /\ \A c \in Claims : ClaimNode(c) \in ArtifactNodes
    /\ \A k \in Conflicts : ConflictNode(k) \in ArtifactNodes
    /\ \A asked \in Asked : asked \subseteq ArtifactNodes
    /\ \A deps \in ConflictDeps : deps \subseteq ArtifactNodes
<1>1. /\ Approver \in ArtifactNodes
      /\ \A i \in 1..MaxLines : QuestionNode(i) \in ArtifactNodes
      /\ \A g \in Gates : AnswerNode(g) \in ArtifactNodes /\ GateNode(g) \in ArtifactNodes
      /\ \A c \in Claims : ClaimNode(c) \in ArtifactNodes
      /\ \A k \in Conflicts : ConflictNode(k) \in ArtifactNodes
  BY DEF ArtifactNodes
<1>2. \A asked \in Asked : asked \subseteq ArtifactNodes
  BY <1>1 DEF Asked
<1>3. ASSUME NEW deps \in ConflictDeps  PROVE deps \subseteq ArtifactNodes
  <2>1. PICK C \in SUBSET Claims, X \in {{}, {Approver}} : deps = {ClaimNode(c) : c \in C} \cup X
    BY DEF ConflictDeps
  <2> QED  BY <1>1, <2>1
<1> QED
  BY <1>1, <1>2, <1>3

(* A binding records one artifact, and never the approver. *)
LEMMA BindsRecord ==
    ASSUME NEW n \in ArtifactNodes, NEW h, h \in Stamps \/ h \in Texts, NEW d \in SUBSET ArtifactNodes,
           n # Approver, NEW b, b = Bind(n, h, d)
    PROVE  b.artifact \in Session!Record /\ b.artifact.node # Approver
<1>1. b.artifact = [node |-> n, hash |-> h, deps |-> d]
  BY DEF Bind, Artifact
<1>2. h \in ArtifactHashes
  BY DEF ArtifactHashes, Stamps
<1> QED
  BY <1>1, <1>2 DEF Session!Record

(* What a command does next says which command it is. *)
LEMMA PlanKinds ==
    ASSUME NEW s \in Plans, s # <<>>
    PROVE  /\ Head(s).do \in {"line", "bind", "gates", "attest"}
           /\ Head(s).do = "line" => \E g \in Gates, text \in Texts : s \in Disposing(g, text)
           /\ Head(s).do = "bind" =>
                \/ \E g \in Gates, text \in Texts : s \in GateFirst(g, text) \cup AnswerLast(g, text)
                \/ \E g \in Gates : s \in GateOnly(g)
                \/ s \in AskedOnly
                \/ \E c \in Claims, g \in Gates : s \in Claiming(c, g)
                \/ \E k \in Conflicts, deps \in ConflictDeps : s \in Settling(k, deps)
           /\ Head(s).do \in {"gates", "attest"} => \E group \in Groups : s \in Attesting(group)
<1>1. CASE \E g \in Gates, text \in Texts : s \in Disposing(g, text)
  <2>1. PICK g \in Gates, text \in Texts : s \in Disposing(g, text)
    BY <1>1
  <2>2. Head(s).do = "line"
    BY <2>1, AnsweringFacts, StepKinds
  <2> QED  BY <2>1, <2>2
<1>2. CASE \E g \in Gates, text \in Texts : s \in GateFirst(g, text)
  <2>1. PICK g \in Gates, text \in Texts : s \in GateFirst(g, text)
    BY <1>2
  <2>2. PICK h \in Stamps : Head(s) = GateBind(g, h)
    BY <2>1, AnsweringFacts
  <2>3. Head(s).do = "bind"
    BY <2>2, StepKinds DEF GateBind
  <2> QED  BY <2>1, <2>3
<1>3. CASE \E g \in Gates, text \in Texts : s \in AnswerLast(g, text)
  <2>1. PICK g \in Gates, text \in Texts : s \in AnswerLast(g, text)
    BY <1>3
  <2>2. PICK asked \in Asked : Head(s) = AnswerBind(g, text, asked)
    BY <2>1, AnsweringFacts
  <2>3. Head(s).do = "bind"
    BY <2>2, StepKinds DEF AnswerBind
  <2> QED  BY <2>1, <2>3
<1>4. CASE \E g \in Gates : s \in GateOnly(g)
  <2>1. PICK g \in Gates : s \in GateOnly(g)
    BY <1>4
  <2>2. PICK h \in Stamps : Head(s) = GateBind(g, h)
    BY <2>1, SingleFacts
  <2>3. Head(s).do = "bind"
    BY <2>2, StepKinds DEF GateBind
  <2> QED  BY <2>1, <2>3
<1>5. CASE s \in AskedOnly
  <2>1. PICK i \in 1..MaxLines, h \in Stamps : Head(s) = Bind(QuestionNode(i), h, {})
    BY <1>5, SingleFacts
  <2>2. Head(s).do = "bind"
    BY <2>1, StepKinds
  <2> QED  BY <1>5, <2>2
<1>6. CASE \E c \in Claims, g \in Gates : s \in Claiming(c, g)
  <2>1. PICK c \in Claims, g \in Gates : s \in Claiming(c, g)
    BY <1>6
  <2>2. PICK h \in Stamps : Head(s) = Bind(ClaimNode(c), h, {AnswerNode(g)})
    BY <2>1, SingleFacts
  <2>3. Head(s).do = "bind"
    BY <2>2, StepKinds
  <2> QED  BY <2>1, <2>3
<1>7. CASE \E k \in Conflicts, deps \in ConflictDeps : s \in Settling(k, deps)
  <2>1. PICK k \in Conflicts, deps \in ConflictDeps : s \in Settling(k, deps)
    BY <1>7
  <2>2. PICK h \in Stamps : Head(s) = Bind(ConflictNode(k), h, deps)
    BY <2>1, SingleFacts
  <2>3. Head(s).do = "bind"
    BY <2>2, StepKinds
  <2> QED  BY <2>1, <2>3
<1>8. CASE \E group \in Groups : s \in Attesting(group)
  <2>1. PICK group \in Groups : s \in Attesting(group)
    BY <1>8
  <2>2. Head(s) \in {ReadGates(group), Sign(group)}
    BY <2>1, SingleFacts
  <2>3. Head(s).do \in {"gates", "attest"}
    BY <2>2, StepKinds
  <2> QED  BY <2>1, <2>3
<1> QED
  BY <1>1, <1>2, <1>3, <1>4, <1>5, <1>6, <1>7, <1>8
   DEF Plans, InterviewPlans, ClaimPlans, AttestPlans, Answering, Gating

(* The artifact that a command binds next is one. *)
LEMMA BindsNext ==
    ASSUME NEW s \in Plans, s # <<>>, Head(s).do = "bind"
    PROVE  Head(s).artifact \in Session!Record /\ Head(s).artifact.node # Approver
<1>1. CASE \E g \in Gates, text \in Texts : s \in GateFirst(g, text)
  <2>1. PICK g \in Gates, text \in Texts : s \in GateFirst(g, text)
    BY <1>1
  <2>2. PICK h \in Stamps : Head(s) = GateBind(g, h)
    BY <2>1, AnsweringFacts
  <2> QED  BY <2>2, NodesIn, NodesDiffer, BindsRecord DEF GateBind
<1>2. CASE \E g \in Gates, text \in Texts : s \in AnswerLast(g, text)
  <2>1. PICK g \in Gates, text \in Texts : s \in AnswerLast(g, text)
    BY <1>2
  <2>2. PICK asked \in Asked : Head(s) = AnswerBind(g, text, asked)
    BY <2>1, AnsweringFacts
  <2> QED  BY <2>2, NodesIn, NodesDiffer, BindsRecord DEF AnswerBind
<1>3. CASE \E g \in Gates : s \in GateOnly(g)
  <2>1. PICK g \in Gates : s \in GateOnly(g)
    BY <1>3
  <2>2. PICK h \in Stamps : Head(s) = GateBind(g, h)
    BY <2>1, SingleFacts
  <2> QED  BY <2>2, NodesIn, NodesDiffer, BindsRecord DEF GateBind
<1>4. CASE s \in AskedOnly
  <2>1. PICK i \in 1..MaxLines, h \in Stamps : Head(s) = Bind(QuestionNode(i), h, {})
    BY <1>4, SingleFacts
  <2> QED  BY <2>1, NodesIn, NodesDiffer, BindsRecord
<1>5. CASE \E c \in Claims, g \in Gates : s \in Claiming(c, g)
  <2>1. PICK c \in Claims, g \in Gates : s \in Claiming(c, g)
    BY <1>5
  <2>2. PICK h \in Stamps : Head(s) = Bind(ClaimNode(c), h, {AnswerNode(g)})
    BY <2>1, SingleFacts
  <2> QED  BY <2>2, NodesIn, NodesDiffer, BindsRecord
<1>6. CASE \E k \in Conflicts, deps \in ConflictDeps : s \in Settling(k, deps)
  <2>1. PICK k \in Conflicts, deps \in ConflictDeps : s \in Settling(k, deps)
    BY <1>6
  <2>2. PICK h \in Stamps : Head(s) = Bind(ConflictNode(k), h, deps)
    BY <2>1, SingleFacts
  <2> QED  BY <2>2, NodesIn, NodesDiffer, BindsRecord
<1> QED
  BY <1>1, <1>2, <1>3, <1>4, <1>5, <1>6, PlanKinds

(* The kinds of commands have nothing in common. *)
LEMMA PlansDisjoint ==
    ASSUME NEW s
    PROVE  /\ s \in InterviewPlans => s # <<>> /\ s \notin ClaimPlans \cup AttestPlans
           /\ s \in ClaimPlans => s # <<>> /\ s \notin AttestPlans
           /\ s \in AttestPlans => s # <<>>
<1>1. s \in InterviewPlans => s # <<>> /\ Head(s).do \in {"line", "bind"}
  <2>1. CASE \E g, text : s \in Disposing(g, text)
    <3>1. PICK g, text : s \in Disposing(g, text)
      BY <2>1
    <3> QED  BY <3>1, AnsweringFacts, StepKinds
  <2>2. CASE \E g, text : s \in AnswerLast(g, text)
    <3>1. PICK g, text : s \in AnswerLast(g, text)
      BY <2>2
    <3>2. PICK asked \in Asked : s # <<>> /\ Head(s) = AnswerBind(g, text, asked)
      BY <3>1, AnsweringFacts
    <3> QED  BY <3>2, StepKinds DEF AnswerBind
  <2>3. CASE \E g, text : s \in GateFirst(g, text)
    <3>1. PICK g, text : s \in GateFirst(g, text)
      BY <2>3
    <3>2. PICK h \in Stamps : s # <<>> /\ Head(s) = GateBind(g, h)
      BY <3>1, AnsweringFacts
    <3> QED  BY <3>2, StepKinds DEF GateBind
  <2>4. CASE \E g : s \in Gating(g)
    BY <2>4, GateIsFirst
  <2>5. CASE s \in AskedOnly
    <3>1. PICK i \in 1..MaxLines, h \in Stamps : s # <<>> /\ Head(s) = Bind(QuestionNode(i), h, {})
      BY <2>5, SingleFacts
    <3> QED  BY <3>1, StepKinds
  <2> QED
    BY <2>1, <2>2, <2>3, <2>4, <2>5 DEF InterviewPlans, Answering
<1>2. s \in AttestPlans => s # <<>> /\ Head(s).do \notin {"line", "bind"}
  <2> SUFFICES ASSUME s \in AttestPlans  PROVE s # <<>> /\ Head(s).do \notin {"line", "bind"}
    OBVIOUS
  <2>1. PICK group : s \in Attesting(group)
    BY DEF AttestPlans
  <2>2. s # <<>> /\ Head(s) \in {ReadGates(group), Sign(group)}
    BY <2>1, SingleFacts
  <2> QED  BY <2>2, StepKinds
<1>3. s \in ClaimPlans => s \notin {<<>>} \cup InterviewPlans \cup AttestPlans
  BY PlansApart DEF ClaimPlans
<1> QED
  BY <1>1, <1>2, <1>3

(* Every kind of command is among those of its store. *)
LEMMA KindsIn ==
    ASSUME NEW s
    PROVE  /\ \A g \in Gates, text \in Texts : s \in Answering(g, text) => s \in InterviewPlans
           /\ \A g \in Gates : s \in Gating(g) => s \in InterviewPlans
           /\ s \in AskedOnly => s \in InterviewPlans
           /\ \A c \in Claims, g \in Gates : s \in Claiming(c, g) => s \in ClaimPlans
           /\ \A k \in Conflicts, deps \in ConflictDeps : s \in Settling(k, deps) => s \in ClaimPlans
           /\ \A group \in Groups : s \in Attesting(group) => s \in AttestPlans
<1>1. \A g \in Gates, text \in Texts : s \in Answering(g, text) => s \in InterviewPlans
  BY DEF InterviewPlans
<1>2. \A g \in Gates : s \in Gating(g) => s \in InterviewPlans
  BY DEF InterviewPlans
<1>3. s \in AskedOnly => s \in InterviewPlans
  BY DEF InterviewPlans
<1>4. \A c \in Claims, g \in Gates : s \in Claiming(c, g) => s \in ClaimPlans
  BY DEF ClaimPlans
<1>5. \A k \in Conflicts, deps \in ConflictDeps : s \in Settling(k, deps) => s \in ClaimPlans
  BY DEF ClaimPlans
<1>6. \A group \in Groups : s \in Attesting(group) => s \in AttestPlans
  BY DEF AttestPlans
<1> QED
  BY <1>1, <1>2, <1>3, <1>4, <1>5, <1>6

(* Every step of a command is of one of the four kinds. *)
LEMMA PlanTypes ==
    ASSUME NEW s \in Plans, NEW i \in 1..Len(s)
    PROVE  s[i].do \in {"line", "bind", "gates", "attest"}
<1>1. ASSUME NEW x, s = <<x>>, x.do \in {"line", "bind", "gates", "attest"}
      PROVE  s[i].do \in {"line", "bind", "gates", "attest"}
  BY <1>1
<1>2. ASSUME NEW x, NEW y, s = <<x, y>>, x.do \in {"line", "bind", "gates", "attest"},
             y.do \in {"line", "bind", "gates", "attest"}
      PROVE  s[i].do \in {"line", "bind", "gates", "attest"}
  BY <1>2
<1>3. ASSUME NEW x, NEW y, NEW z, s = <<x, y, z>>, x.do \in {"line", "bind", "gates", "attest"},
             y.do \in {"line", "bind", "gates", "attest"}, z.do \in {"line", "bind", "gates", "attest"}
      PROVE  s[i].do \in {"line", "bind", "gates", "attest"}
  BY <1>3
<1>4. \A n, h, d, e, group :
         /\ Bind(n, h, d).do \in {"line", "bind", "gates", "attest"}
         /\ Line(e).do \in {"line", "bind", "gates", "attest"}
         /\ ReadGates(group).do \in {"line", "bind", "gates", "attest"}
         /\ Sign(group).do \in {"line", "bind", "gates", "attest"}
  BY StepKinds
<1>5. CASE s \in InterviewPlans
  <2>1. CASE \E g, text : s \in Disposing(g, text)
    BY <1>3, <1>4, <2>1 DEF Disposing, GateBind, AnswerBind
  <2>2. CASE \E g, text : s \in GateFirst(g, text)
    BY <1>2, <1>4, <2>2 DEF GateFirst, GateBind, AnswerBind
  <2>3. CASE \E g, text : s \in AnswerLast(g, text)
    BY <1>1, <1>4, <2>3 DEF AnswerLast, AnswerBind
  <2>4. CASE \E g : s \in GateOnly(g)
    BY <1>1, <1>4, <2>4 DEF GateOnly, GateBind
  <2>5. CASE s \in AskedOnly
    BY <1>1, <1>4, <2>5 DEF AskedOnly
  <2> QED
    BY <1>5, <2>1, <2>2, <2>3, <2>4, <2>5 DEF InterviewPlans, Answering, Gating
<1>6. CASE s \in ClaimPlans
  <2>1. (\E c, g : s \in Claiming(c, g)) \/ (\E k, deps : s \in Settling(k, deps))
    BY <1>6 DEF ClaimPlans
  <2> QED  BY <1>1, <1>4, <2>1 DEF Claiming, Settling
<1>7. CASE s \in AttestPlans
  BY <1>1, <1>2, <1>4, <1>7 DEF AttestPlans, Attesting
<1>8. CASE s = <<>>
  BY <1>8
<1> QED
  BY <1>5, <1>6, <1>7, <1>8 DEF Plans

-----------------------------------------------------------------------------
(* Who works on what.                                                       *)

\* The plans of the commands that hold the lock of a store.
PlansOf(store) == IF store = "interview" THEN InterviewPlans ELSE ClaimPlans
Stores == {"interview", "claims"}

LEMMA WorkOf ==
    ASSUME WorkInv
    PROVE  \A p \in Procs : /\ todo[p] \in Plans
                            /\ \A store \in Stores : todo[p] \in PlansOf(store) <=> lock[store] = p
  BY DEF WorkInv, Stores, PlansOf

(* A command takes the lock of its store and has its bindings left. *)
LEMMA StartKeepsWork ==
    ASSUME TypeOK, WorkInv, NEW p \in Procs, NEW store \in Stores, NEW s \in PlansOf(store),
           Idle(p), lock[store] = NoProc, lock' = [lock EXCEPT ![store] = p],
           todo' = [todo EXCEPT ![p] = s]
    PROVE  WorkInv' /\ lock' \in [Stores -> Procs \cup {NoProc}]
<1>1. /\ lock \in [Stores -> Procs \cup {NoProc}] /\ todo \in [Procs -> Plans]
      /\ NoProc \notin Procs /\ s \in Plans
  BY DiscoveryGroups DEF TypeOK, WorkInv, Stores, PlansOf, Plans
<1>2. ASSUME NEW q \in Procs, NEW other \in Stores
      PROVE  todo'[q] \in PlansOf(other) <=> lock'[other] = q
  <2>1. todo[q] \in PlansOf(other) <=> lock[other] = q
    BY WorkOf
  <2>2. CASE q = p
    <3>1. todo[p] \notin PlansOf(other)
      BY PlansDisjoint DEF Idle, PlansOf
    <3>2. s \in PlansOf(other) <=> other = store
      BY PlansDisjoint DEF PlansOf, Stores
    <3> QED  BY <1>1, <2>1, <2>2, <3>1, <3>2
  <2>3. CASE q # p
    BY <1>1, <2>1, <2>3
  <2> QED  BY <2>2, <2>3
<1> QED
  BY <1>1, <1>2 DEF WorkInv, PlansOf, Stores

(* A command goes on, or one of the commands that take no lock starts. *)
LEMMA GoOnKeepsWork ==
    ASSUME WorkInv, NEW p \in Procs, NEW s \in Plans, UNCHANGED lock,
           todo' = [todo EXCEPT ![p] = s],
           \A store \in Stores : s \in PlansOf(store) <=> todo[p] \in PlansOf(store)
    PROVE  WorkInv'
<1>1. todo \in [Procs -> Plans]
  BY DEF WorkInv
<1>2. ASSUME NEW q \in Procs, NEW store \in Stores
      PROVE  todo'[q] \in PlansOf(store) <=> lock'[store] = q
  <2>1. todo[q] \in PlansOf(store) <=> lock[store] = q
    BY WorkOf
  <2> QED  BY <1>1, <2>1
<1> QED
  BY <1>1, <1>2 DEF WorkInv, PlansOf, Stores

(* A command returns, or its process is gone. *)
LEMMA EndKeepsWork ==
    ASSUME TypeOK, WorkInv, NEW p \in Procs, Ends(p)
    PROVE  WorkInv' /\ lock' \in [Stores -> Procs \cup {NoProc}]
<1>1. /\ lock \in [Stores -> Procs \cup {NoProc}] /\ todo \in [Procs -> Plans]
      /\ NoProc \notin Procs /\ <<>> \in Plans
  BY DiscoveryGroups DEF TypeOK, WorkInv, Stores, Plans
<1>2. /\ todo' = [todo EXCEPT ![p] = <<>>]
      /\ \A store \in Stores : lock'[store] = IF lock[store] = p THEN NoProc ELSE lock[store]
      /\ lock' \in [Stores -> Procs \cup {NoProc}]
  BY <1>1 DEF Ends
<1>3. ASSUME NEW q \in Procs, NEW store \in Stores
      PROVE  todo'[q] \in PlansOf(store) <=> lock'[store] = q
  <2>1. todo[q] \in PlansOf(store) <=> lock[store] = q
    BY WorkOf
  <2>2. <<>> \notin PlansOf(store)
    BY PlansDisjoint DEF PlansOf
  <2> QED  BY <1>1, <1>2, <2>1, <2>2
<1> QED
  BY <1>1, <1>2, <1>3 DEF WorkInv, PlansOf, Stores

-----------------------------------------------------------------------------
(* What the actions do.                                                     *)

\* A command of the interview has written a line, and has s left to do.
Wrote(p, s) ==
    /\ Idle(p) /\ seen[p] = NoOne
    /\ s \in InterviewPlans
    /\ lock["interview"] = NoProc /\ lock' = [lock EXCEPT !["interview"] = p]
    /\ todo' = [todo EXCEPT ![p] = s]
    /\ lines < MaxLines /\ lines' = lines + 1
    /\ Sound(kept') /\ Keeps(kept, kept') /\ view' = [view EXCEPT ![p] = kept']
    /\ Len(kept'.questions) <= Len(kept.questions) + 1
    /\ UNCHANGED <<session, attested, faults, claims, conflicts, seen, overtaken>>

Askes(s) ==
    /\ s \in AskedOnly
    /\ kept'.answers = kept.answers /\ kept'.current = kept.current
    /\ kept'.disposition = kept.disposition
Records(g, text, s) ==
    /\ s \in Disposing(g, text) \cup AnswerLast(g, text)
    /\ NewCurrent(kept, kept', g, text)
Settles(g, d, s) ==
    /\ s \in GateOnly(g)
    /\ kept'.answers = kept.answers /\ kept'.current = kept.current
    /\ kept'.disposition = [kept.disposition EXCEPT ![g] = d]

LEMMA NextStamp ==
    ASSUME TypeOK, lines < MaxLines
    PROVE  Stamp \in Stamps /\ lines + 1 \in 0..MaxLines /\ lines \in Nat /\ MaxLines \in Nat
  BY DiscoveryBounds DEF TypeOK, Stamp, Stamps

LEMMA WroteFrom ==
    ASSUME TypeOK, NEW p, NEW e, NEW s \in InterviewPlans, Interviews(p, e, s),
           Sound(Applied(kept, e)), Keeps(kept, Applied(kept, e)), OneMeaning(kept, e),
           Len(Applied(kept, e).questions) <= Len(kept.questions) + 1
    PROVE  Wrote(p, s) /\ kept' = Applied(kept, e)
  BY DEF Interviews, Writes, Wrote, OneMeaning

LEMMA AskStep ==
    ASSUME TypeOK, KeptInv, NEW p, Ask(p)
    PROVE  \E s : Wrote(p, s) /\ Askes(s)
<1> DEFINE id == Len(kept.questions) + 1
           s == <<Bind(QuestionNode(id), Stamp, {})>>
<1>1. PICK g \in Gates : Interviews(p, [type |-> "question_asked", id |-> id, gate |-> g], s)
  BY DEF Ask
<1> DEFINE e == [type |-> "question_asked", id |-> id, gate |-> g]
<1>2. lines < MaxLines /\ kept.open = None /\ Sound(kept)
  BY <1>1 DEF Ask, Interviews, Writes, KeptInv
<1>3. id \in 1..MaxLines
  <2>1. Len(kept.questions) \in Nat /\ Len(kept.questions) <= lines
    BY <1>2, IndexTypes DEF KeptInv, Sound
  <2> QED  BY <1>2, <2>1, NextStamp
<1>4. s \in AskedOnly
  BY <1>2, <1>3, NextStamp DEF AskedOnly
<1> HIDE DEF s
<1>5. /\ Sound(Applied(kept, e)) /\ Keeps(kept, Applied(kept, e)) /\ OneMeaning(kept, e)
      /\ Applied(kept, e).answers = kept.answers /\ Applied(kept, e).current = kept.current
      /\ Applied(kept, e).disposition = kept.disposition
      /\ Len(Applied(kept, e).questions) = Len(kept.questions) + 1
  BY <1>2, AskKeeps
<1>6. Len(Applied(kept, e).questions) <= Len(kept.questions) + 1
  BY <1>2, <1>5, IndexTypes DEF Sound
<1> HIDE DEF e, id
<1>7. Interviews(p, e, s) /\ s \in InterviewPlans
  BY <1>1, <1>4 DEF e, InterviewPlans
<1>8. Wrote(p, s) /\ kept' = Applied(kept, e)
  BY <1>5, <1>6, <1>7, WroteFrom
<1> QED
  BY <1>4, <1>5, <1>8 DEF Askes

LEMMA AnswerStep ==
    ASSUME TypeOK, KeptInv, NEW p, AnswerGate(p)
    PROVE  \E g \in Gates, text \in Texts : \E s : Wrote(p, s) /\ Records(g, text, s)
<1> DEFINE id == Len(kept.answers) + 1
           asked == IF kept.open = None THEN {} ELSE {QuestionNode(kept.open)}
<1>1. PICK g \in Gates, text \in Texts :
         Interviews(p, [type |-> "answer_recorded", id |-> id, gate |-> g,
                        text |-> text, question |-> kept.open],
                    <<Line(Disposition(g, "answered")),
                      Bind(GateNode(g), Stamp, {AnswerNode(g)}),
                      Bind(AnswerNode(g), text, asked)>>)
  BY DEF AnswerGate
<1> DEFINE e == [type |-> "answer_recorded", id |-> id, gate |-> g,
                 text |-> text, question |-> kept.open]
           s == <<Line(Disposition(g, "answered")),
                  Bind(GateNode(g), Stamp, {AnswerNode(g)}),
                  Bind(AnswerNode(g), text, asked)>>
<1>2. lines < MaxLines /\ Sound(kept)
  BY <1>1 DEF Interviews, Writes, KeptInv
<1>3. asked \in Asked
  <2>1. kept.open \in 0..Len(kept.questions) /\ Len(kept.questions) \in Nat /\ Len(kept.questions) <= lines
    BY <1>2, IndexTypes DEF KeptInv, Sound
  <2>2. kept.open # None => kept.open \in 1..MaxLines
    BY <1>2, <2>1, NextStamp DEF None
  <2> QED  BY <2>2 DEF Asked
<1>4. s \in Disposing(g, text)
  BY <1>2, <1>3, NextStamp DEF Disposing, GateBind, AnswerBind
<1>5. /\ e.type = "answer_recorded" /\ e.id = Len(kept.answers) + 1 /\ e.gate = g
      /\ e.text = text /\ e.question = kept.open
  OBVIOUS
<1>6. Interviews(p, e, s)
  BY <1>1
<1> HIDE DEF s, e
<1>7. /\ Sound(Applied(kept, e)) /\ Keeps(kept, Applied(kept, e)) /\ OneMeaning(kept, e)
      /\ NewCurrent(kept, Applied(kept, e), g, text)
  BY <1>2, <1>5, AnswerKeeps
<1>8. Len(Applied(kept, e).questions) <= Len(kept.questions) + 1
  BY <1>2, <1>7, IndexTypes DEF Sound, NewCurrent
<1>9. s \in InterviewPlans
  BY <1>4, KindsIn DEF Answering
<1>10. Wrote(p, s) /\ kept' = Applied(kept, e)
  BY <1>6, <1>7, <1>8, <1>9, WroteFrom
<1> QED
  BY <1>4, <1>7, <1>10 DEF Records

LEMMA CorrectStep ==
    ASSUME TypeOK, KeptInv, NEW p, Correct(p)
    PROVE  \E g \in Gates, text \in Texts : \E s : Wrote(p, s) /\ Records(g, text, s)
<1> DEFINE id == Len(kept.answers) + 1
<1>1. PICK old \in 1..Len(kept.answers), text \in Texts :
         /\ IsCurrent(kept, old)
         /\ Interviews(p, [type |-> "correction_recorded", id |-> id,
                           gate |-> kept.answers[old].gate, text |-> text, old |-> old],
                       <<Bind(AnswerNode(kept.answers[old].gate), text, {})>>)
  BY DEF Correct
<1> DEFINE g == kept.answers[old].gate
           e == [type |-> "correction_recorded", id |-> id, gate |-> g,
                 text |-> text, old |-> old]
           s == <<Bind(AnswerNode(g), text, {})>>
<1>2. Sound(kept) /\ g \in Gates
  <2>1. Sound(kept) /\ kept \in InterviewIndex
    BY DEF KeptInv, Sound
  <2>2. kept.answers[old] \in Answer
    BY <2>1, IndexTypes
  <2> QED  BY <2>1, <2>2 DEF Answer
<1>3. s \in AnswerLast(g, text)
  BY DEF AnswerLast, AnswerBind, Asked
<1>4. /\ e.type = "correction_recorded" /\ e.id = Len(kept.answers) + 1
      /\ e.gate = kept.answers[old].gate /\ e.text = text /\ e.old = old
  OBVIOUS
<1>5. Interviews(p, e, s)
  BY <1>1
<1> HIDE DEF s, e
<1>6. /\ Sound(Applied(kept, e)) /\ Keeps(kept, Applied(kept, e)) /\ OneMeaning(kept, e)
      /\ NewCurrent(kept, Applied(kept, e), kept.answers[old].gate, text)
  BY <1>1, <1>2, <1>4, CorrectKeeps
<1>7. Len(Applied(kept, e).questions) <= Len(kept.questions) + 1
  BY <1>2, <1>6, IndexTypes DEF Sound, NewCurrent
<1>8. s \in InterviewPlans
  BY <1>2, <1>3, KindsIn DEF Answering
<1>9. Wrote(p, s) /\ kept' = Applied(kept, e)
  BY <1>5, <1>6, <1>7, <1>8, WroteFrom
<1> QED
  BY <1>2, <1>3, <1>6, <1>9 DEF Records

LEMMA SetGateStep ==
    ASSUME TypeOK, KeptInv, NEW p, SetGate(p)
    PROVE  \E g \in Gates, d \in Dispositions : \E s : Wrote(p, s) /\ Settles(g, d, s)
<1>1. PICK g \in Gates, d \in Dispositions :
         Interviews(p, Disposition(g, d), <<Bind(GateNode(g), Stamp, {AnswerNode(g)})>>)
  BY DEF SetGate
<1> DEFINE e == Disposition(g, d)
           s == <<Bind(GateNode(g), Stamp, {AnswerNode(g)})>>
<1>2. lines < MaxLines /\ Sound(kept)
  BY <1>1 DEF Interviews, Writes, KeptInv
<1>3. s \in GateOnly(g)
  BY <1>2, NextStamp DEF GateOnly, GateBind
<1>4. /\ Sound(Applied(kept, e)) /\ Keeps(kept, Applied(kept, e)) /\ OneMeaning(kept, e)
      /\ Applied(kept, e).answers = kept.answers /\ Applied(kept, e).current = kept.current
      /\ Applied(kept, e).disposition = [kept.disposition EXCEPT ![g] = d]
      /\ Applied(kept, e).questions = kept.questions
  BY <1>2, DisposeKeeps
<1>5. Interviews(p, e, s)
  BY <1>1
<1> HIDE DEF s, e
<1>6. Len(Applied(kept, e).questions) <= Len(kept.questions) + 1
  BY <1>2, <1>4, IndexTypes DEF Sound
<1>7. s \in InterviewPlans
  BY <1>3, KindsIn DEF Gating
<1>8. Wrote(p, s) /\ kept' = Applied(kept, e)
  BY <1>4, <1>5, <1>6, <1>7, WroteFrom
<1> QED
  BY <1>3, <1>4, <1>8 DEF Settles

\* A command of the claims has written a line, and has s left to do.
Lodged(p, s) ==
    /\ Idle(p)
    /\ s \in ClaimPlans
    /\ lock["claims"] = NoProc /\ lock' = [lock EXCEPT !["claims"] = p]
    /\ todo' = [todo EXCEPT ![p] = s]
    /\ lines < MaxLines /\ lines' = lines + 1
    /\ UNCHANGED <<session, attested, faults, kept, view, seen, overtaken>>

LEMMA AddClaimStep ==
    ASSUME TypeOK, NEW p, AddClaim(p)
    PROVE  \E c \in Claims, g \in Gates : \E s \in Claiming(c, g) :
              /\ Lodged(p, s) /\ seen[p] = NoOne /\ claims[c] = NoOne
              /\ claims' = [claims EXCEPT ![c] = g] /\ UNCHANGED conflicts
<1>1. PICK c \in Claims \ Recorded, g \in Gates :
         /\ claims' = [claims EXCEPT ![c] = g]
         /\ Writes(p, "claims", <<Bind(ClaimNode(c), Stamp, {AnswerNode(g)})>>)
  BY DEF AddClaim
<1> DEFINE s == <<Bind(ClaimNode(c), Stamp, {AnswerNode(g)})>>
<1>2. lines < MaxLines /\ claims[c] = NoOne /\ c \in Claims
  BY <1>1 DEF Writes, Recorded
<1>3. s \in Claiming(c, g)
  BY <1>2, NextStamp DEF Claiming
<1>4. s \in ClaimPlans
  <2> HIDE DEF s
  <2> QED  BY <1>2, <1>3, KindsIn
<1>5. Lodged(p, s)
  BY <1>1, <1>4 DEF Writes, Lodged, AddClaim
<1> QED
  BY <1>1, <1>2, <1>3, <1>5 DEF AddClaim

LEMMA AddConflictStep ==
    ASSUME TypeOK, NEW p, AddConflict(p)
    PROVE  \E k \in Conflicts, involved \in SUBSET Claims, groups \in SUBSET Groups :
              \E s \in Settling(k, {ClaimNode(c) : c \in involved}) :
                  /\ Lodged(p, s) /\ conflicts[k] = NoConflict
                  /\ conflicts' = [conflicts EXCEPT ![k] =
                        [claims |-> involved, groups |-> groups, state |-> Unresolved]]
                  /\ UNCHANGED claims
                  /\ {ClaimNode(c) : c \in involved} \in ConflictDeps
<1>1. PICK k \in Conflicts, involved \in (SUBSET Recorded) \ {{}}, groups \in (SUBSET Groups) \ {{}} :
         /\ conflicts[k] = NoConflict
         /\ conflicts' = [conflicts EXCEPT ![k] =
               [claims |-> involved, groups |-> groups, state |-> Unresolved]]
         /\ Writes(p, "claims", <<Bind(ConflictNode(k), Stamp, {ClaimNode(c) : c \in involved})>>)
  BY DEF AddConflict
<1> DEFINE deps == {ClaimNode(c) : c \in involved}
           s == <<Bind(ConflictNode(k), Stamp, deps)>>
<1>2. lines < MaxLines /\ involved \in SUBSET Claims /\ groups \in SUBSET Groups
  BY <1>1 DEF Writes, Recorded
<1>3. deps \in ConflictDeps
  <2>1. deps = deps \cup {}
    OBVIOUS
  <2> QED  BY <1>2, <2>1 DEF ConflictDeps
<1>4. s \in Settling(k, deps)
  BY <1>2, NextStamp DEF Settling
<1>5. s \in ClaimPlans
  <2> HIDE DEF s, deps
  <2> QED  BY <1>3, <1>4, KindsIn
<1>6. Lodged(p, s)
  BY <1>1, <1>5 DEF Writes, Lodged, AddConflict
<1> QED
  BY <1>1, <1>2, <1>3, <1>4, <1>6 DEF AddConflict

LEMMA ResolveStep ==
    ASSUME TypeOK, NEW p \in Procs, ResolveConflict(p)
    PROVE  \E k \in Conflicts : \E s \in Settling(k, ResolveDeps(k)) :
              /\ Lodged(p, s) /\ seen[p] \in Approvers
              /\ conflicts[k].state = Unresolved /\ conflicts[k] \in Conflict
              /\ conflicts' = [conflicts EXCEPT ![k].state = seen[p]]
              /\ UNCHANGED claims
              /\ ResolveDeps(k) \in ConflictDeps
<1>1. PICK k \in Conflicts :
         /\ conflicts[k].state = Unresolved
         /\ conflicts' = [conflicts EXCEPT ![k].state = seen[p]]
         /\ Writes(p, "claims", <<Bind(ConflictNode(k), Stamp, ResolveDeps(k))>>)
  BY DEF ResolveConflict
<1> DEFINE s == <<Bind(ConflictNode(k), Stamp, ResolveDeps(k))>>
<1>2. lines < MaxLines /\ seen[p] \in Approvers
  BY <1>1 DEF ResolveConflict, Writes, TypeOK
<1>3. conflicts[k] \in Conflict
  <2>1. conflicts[k] \in Conflict \cup {NoConflict}
    BY DEF TypeOK
  <2>2. CASE conflicts[k] = NoConflict
    <3>1. Unresolved = NoOne
      BY <1>1, <2>2 DEF NoConflict
    <3> QED  BY <3>1, DiscoveryStates
  <2> QED  BY <2>1, <2>2
<1>4. ResolveDeps(k) \in ConflictDeps
  <2>1. conflicts[k].claims \in SUBSET Claims
    BY <1>3 DEF Conflict
  <2>2. PICK X \in {{}, {Approver}} : ResolveDeps(k) = {ClaimNode(c) : c \in conflicts[k].claims} \cup X
    BY DEF ResolveDeps
  <2>3. \A C \in SUBSET Claims : {ClaimNode(c) : c \in C} \cup X \in ConflictDeps
    BY DEF ConflictDeps
  <2> QED  BY <2>1, <2>2, <2>3
<1>5. s \in Settling(k, ResolveDeps(k))
  BY <1>2, NextStamp DEF Settling
<1>6. s \in ClaimPlans
  <2> HIDE DEF s
  <2> QED  BY <1>4, <1>5, KindsIn
<1>7. Lodged(p, s)
  BY <1>1, <1>6 DEF Writes, Lodged, ResolveConflict
<1> QED
  BY <1>1, <1>2, <1>3, <1>4, <1>5, <1>7 DEF ResolveConflict

\* What is left of a command is one step shorter, or nothing.
Advances(p) ==
    \/ Len(todo[p]) = 1 /\ Ends(p)
    \/ Len(todo[p]) # 1 /\ todo' = [todo EXCEPT ![p] = Tail(@)] /\ UNCHANGED <<view, seen, lock>>

\* answer disposes of its gate.
LEMMA WriteLineStep ==
    ASSUME TypeOK, WorkInv, KeptInv, LiveIsReplay, NEW p \in Procs, WriteLine(p)
    PROVE  \E g \in Gates, text \in Texts :
              /\ todo[p] \in Disposing(g, text)
              /\ todo' = [todo EXCEPT ![p] = Tail(todo[p])] /\ Tail(todo[p]) \in GateFirst(g, text)
              /\ lock["interview"] = p
              /\ Sound(kept') /\ Keeps(kept, kept') /\ view' = [view EXCEPT ![p] = kept']
              /\ kept'.answers = kept.answers /\ kept'.current = kept.current
              /\ kept'.disposition = [kept.disposition EXCEPT ![g] = "answered"]
              /\ kept'.questions = kept.questions
<1>1. todo[p] \in Plans /\ todo[p] # <<>> /\ Head(todo[p]).do = "line"
  BY DEF WorkInv, WriteLine, Does, Next1
<1>2. PICK g \in Gates, text \in Texts : todo[p] \in Disposing(g, text)
  BY <1>1, PlanKinds
<1>3. Head(todo[p]) = Line(Disposition(g, "answered")) /\ Tail(todo[p]) \in GateFirst(g, text)
  BY <1>2, AnsweringFacts
<1>4. lock["interview"] = p
  BY <1>2, KindsIn DEF WorkInv, Answering
<1>5. view[p] = kept
  BY <1>4 DEF LiveIsReplay
<1>6. Head(todo[p]).event = Disposition(g, "answered")
  BY <1>3, StepKinds
<1>7. /\ kept' = Applied(kept, Disposition(g, "answered"))
      /\ view' = [view EXCEPT ![p] = Live(kept, Disposition(g, "answered"))]
      /\ todo' = [todo EXCEPT ![p] = Tail(todo[p])]
  BY <1>5, <1>6 DEF WriteLine, Next1
<1> DEFINE e == Disposition(g, "answered")
<1>8. /\ Sound(Applied(kept, e)) /\ Keeps(kept, Applied(kept, e))
      /\ Live(kept, e) = Applied(kept, e)
      /\ Applied(kept, e).answers = kept.answers /\ Applied(kept, e).current = kept.current
      /\ Applied(kept, e).disposition = [kept.disposition EXCEPT ![g] = "answered"]
      /\ Applied(kept, e).questions = kept.questions
  <2>1. Sound(kept) /\ "answered" \in Dispositions
    BY DEF KeptInv, Dispositions
  <2> QED  BY <2>1, DisposeKeeps
<1> HIDE DEF e
<1> QED
  BY <1>2, <1>3, <1>4, <1>7, <1>8 DEF e

(* record_artifact binds what the command has next, and never the approver. *)
LEMMA BindStep ==
    ASSUME TypeOK, WorkInv, NEW p \in Procs, RecordArtifact(p)
    PROVE  /\ todo[p] \in Plans /\ todo[p] # <<>> /\ Head(todo[p]).do = "bind"
           /\ Head(todo[p]).artifact \in Session!Record
           /\ Head(todo[p]).artifact.node # Approver
           /\ session.state # "closed"
           /\ session' = Session!Register(session, Head(todo[p]).artifact)
           /\ Advances(p)
           /\ UNCHANGED <<stores, lines, faults, overtaken>>
<1>1. todo[p] \in Plans /\ todo[p] # <<>> /\ Head(todo[p]).do = "bind"
  BY DEF WorkInv, RecordArtifact, Does, Next1
<1>2. Head(todo[p]).artifact \in Session!Record /\ Head(todo[p]).artifact.node # Approver
  BY <1>1, BindsNext
<1> QED
  BY <1>1, <1>2 DEF RecordArtifact, Next1, Continues, Advances

(* The bindings of a command are of its store to the last. *)
LEMMA BindGoesOn ==
    ASSUME NEW s \in Plans, s # <<>>, Head(s).do = "bind", Len(s) # 1
    PROVE  \E g \in Gates, text \in Texts : s \in GateFirst(g, text) /\ Tail(s) \in AnswerLast(g, text)
<1>1. CASE \E g \in Gates, text \in Texts : s \in AnswerLast(g, text)
  BY <1>1, AnsweringFacts
<1>2. CASE \E g \in Gates, text \in Texts : s \in GateFirst(g, text)
  BY <1>2, AnsweringFacts
<1>3. CASE s \in AskedOnly \/ (\E g : s \in GateOnly(g)) \/ (\E c, g : s \in Claiming(c, g))
           \/ (\E k, deps : s \in Settling(k, deps))
  <2>1. Len(s) = 1
    BY <1>3, SingleFacts
  <2> QED  BY <2>1
<1> QED
  BY <1>1, <1>2, <1>3, PlanKinds

(* A command that has bound an artifact goes on under its lock, or gives it up. *)
LEMMA AdvanceKeepsWork ==
    ASSUME TypeOK, WorkInv, NEW p \in Procs, todo[p] # <<>>, Head(todo[p]).do = "bind", Advances(p)
    PROVE  WorkInv' /\ lock' \in [Stores -> Procs \cup {NoProc}]
<1>1. CASE Len(todo[p]) = 1 /\ Ends(p)
  BY <1>1, EndKeepsWork
<1>2. CASE Len(todo[p]) # 1 /\ todo' = [todo EXCEPT ![p] = Tail(@)] /\ UNCHANGED <<view, seen, lock>>
  <2>1. todo[p] \in Plans
    BY DEF WorkInv
  <2>2. PICK g \in Gates, text \in Texts :
           todo[p] \in GateFirst(g, text) /\ Tail(todo[p]) \in AnswerLast(g, text)
    BY <1>2, <2>1, BindGoesOn
  <2>3. todo[p] \in InterviewPlans /\ Tail(todo[p]) \in InterviewPlans
    BY <2>2, KindsIn DEF Answering
  <2>4. \A store \in Stores : Tail(todo[p]) \in PlansOf(store) <=> todo[p] \in PlansOf(store)
    BY <2>3, PlansDisjoint DEF PlansOf
  <2>5. WorkInv'
    <3>1. todo' = [todo EXCEPT ![p] = Tail(todo[p])] /\ Tail(todo[p]) \in Plans
      BY <1>2, <2>3 DEF Plans
    <3> QED  BY <1>2, <2>4, <3>1, GoOnKeepsWork
  <2> QED  BY <1>2, <2>5 DEF TypeOK, Stores
<1> QED
  BY <1>1, <1>2 DEF Advances

(* attest takes no lock, so its steps are of nobody's store. *)
LEMMA AttestWork ==
    ASSUME WorkInv, NEW p \in Procs, NEW s \in Plans, UNCHANGED lock,
           todo' = [todo EXCEPT ![p] = s],
           todo[p] \in {<<>>} \cup AttestPlans, s \in {<<>>} \cup AttestPlans
    PROVE  WorkInv'
<1>1. \A store \in Stores : s \notin PlansOf(store) /\ todo[p] \notin PlansOf(store)
  BY PlansDisjoint DEF PlansOf
<1> QED
  BY <1>1, GoOnKeepsWork

LEMMA AttestPlan ==
    ASSUME WorkInv, NEW p \in Procs, Does(p, "gates") \/ Does(p, "attest")
    PROVE  \E group \in Groups :
              /\ todo[p] \in Attesting(group) /\ todo[p] \in AttestPlans
              /\ Next1(p).group = group
              /\ Does(p, "gates") => Tail(todo[p]) \in Attesting(group)
<1>1. todo[p] \in Plans /\ todo[p] # <<>> /\ Head(todo[p]).do \in {"gates", "attest"}
  BY DEF WorkInv, Does, Next1
<1>2. PICK group \in Groups : todo[p] \in Attesting(group)
  BY <1>1, PlanKinds
<1>3. /\ Head(todo[p]) \in {ReadGates(group), Sign(group)}
      /\ Head(todo[p]) = ReadGates(group) => Tail(todo[p]) = <<Sign(group)>>
  BY <1>2, SingleFacts
<1>4. Head(todo[p]).group = group
  BY <1>3, StepKinds
<1>5. Does(p, "gates") => Tail(todo[p]) \in Attesting(group)
  <2>1. Does(p, "gates") => Head(todo[p]) = ReadGates(group)
    BY <1>3, StepKinds DEF Does, Next1
  <2> QED  BY <1>3, <2>1 DEF Attesting
<1> QED
  BY <1>2, <1>4, <1>5, KindsIn DEF Next1

-----------------------------------------------------------------------------
(* The transcript, step by step.                                            *)

TodoTyped == \A q \in Procs : \A i \in 1..Len(todo[q]) :
                todo[q][i].do \in {"line", "bind", "gates", "attest"}

LEMMA TodoTypes == WorkInv => TodoTyped
<1>1. WorkInv => \A q \in Procs : todo[q] \in Plans
  BY DEF WorkInv
<1> QED
  BY <1>1, PlanTypes DEF TodoTyped

LEMMA EmptySound == Sound(Empty) /\ Len(Empty.questions) = 0
<1>1. Empty \in InterviewIndex
  BY DEF Empty, InterviewIndex, None, Open
<1> QED
  BY <1>1 DEF Sound, Empty, None

(* A command returns: nothing it held in memory is left. *)
LEMMA EndTypes ==
    ASSUME TypeOK, WorkInv, LiveIsReplay, NEW p \in Procs, Ends(p), kept' = kept
    PROVE  /\ WorkInv' /\ lock' \in [Stores -> Procs \cup {NoProc}]
           /\ view' \in [Procs -> InterviewIndex]
           /\ seen' \in [Procs -> Approvers \cup {NoOne}]
           /\ LiveIsReplay'
<1>1. WorkInv' /\ lock' \in [Stores -> Procs \cup {NoProc}]
  BY EndKeepsWork
<1>2. /\ view' \in [Procs -> InterviewIndex] /\ seen' \in [Procs -> Approvers \cup {NoOne}]
      /\ \A q \in Procs : q # p => view'[q] = view[q]
  BY EmptySound DEF TypeOK, Ends, Sound
<1>3. \A q \in Procs : lock'["interview"] = q => q # p /\ lock["interview"] = q
  BY DiscoveryGroups DEF TypeOK, Ends
<1> QED
  BY <1>1, <1>2, <1>3 DEF LiveIsReplay

LEMMA WroteKeepsTranscript ==
    ASSUME TranscriptInv, NEW p \in Procs, NEW s, Wrote(p, s)
    PROVE  TranscriptInv'
<1>1. TypeOK /\ WorkInv /\ KeptInv /\ ApproverInv
  BY DEF TranscriptInv
<1>2. /\ s \in InterviewPlans /\ Idle(p)
      /\ lock["interview"] = NoProc /\ lock' = [lock EXCEPT !["interview"] = p]
      /\ todo' = [todo EXCEPT ![p] = s]
      /\ lines < MaxLines /\ lines' = lines + 1
      /\ Sound(kept') /\ view' = [view EXCEPT ![p] = kept']
      /\ Len(kept'.questions) <= Len(kept.questions) + 1
      /\ UNCHANGED <<session, attested, faults, claims, conflicts, seen, overtaken>>
  BY DEF Wrote
<1>3. WorkInv' /\ lock' \in [Stores -> Procs \cup {NoProc}]
  <2>1. "interview" \in Stores /\ s \in PlansOf("interview")
    BY <1>2 DEF Stores, PlansOf
  <2> QED  BY <1>1, <1>2, <2>1, StartKeepsWork
<1>4. KeptInv'
  <2>1. /\ Len(kept.questions) \in Nat /\ Len(kept.questions) <= lines
        /\ Len(kept'.questions) \in Nat /\ lines \in Nat
    BY <1>1, <1>2, IndexTypes, NextStamp DEF KeptInv, Sound
  <2>2. Len(kept'.questions) <= lines'
    BY <1>2, <2>1
  <2> QED  BY <1>2, <2>2 DEF KeptInv
<1>5. kept' \in InterviewIndex /\ view' \in [Procs -> InterviewIndex]
  BY <1>1, <1>2 DEF TypeOK, Sound
<1>6. LiveIsReplay'
  BY <1>1, <1>2 DEF TypeOK, LiveIsReplay
<1>7. lines' \in 0..MaxLines
  BY <1>1, <1>2, NextStamp
<1>8. TodoTyped'
  BY <1>3, TodoTypes, PTL
<1>9. TypeOK'
  BY <1>1, <1>2, <1>3, <1>5, <1>7, <1>8 DEF TypeOK, Stores, TodoTyped
<1>10. ApproverInv'
  BY <1>1, <1>2 DEF ApproverInv
<1> QED
  BY <1>3, <1>4, <1>6, <1>9, <1>10 DEF TranscriptInv

LEMMA LodgedKeepsTranscript ==
    ASSUME TranscriptInv, NEW p \in Procs, NEW s, Lodged(p, s),
           claims' \in [Claims -> Gates \cup {NoOne}],
           conflicts' \in [Conflicts -> Conflict \cup {NoConflict}]
    PROVE  TranscriptInv'
<1>1. TypeOK /\ WorkInv /\ KeptInv /\ ApproverInv /\ LiveIsReplay
  BY DEF TranscriptInv
<1>2. /\ s \in ClaimPlans /\ Idle(p)
      /\ lock["claims"] = NoProc /\ lock' = [lock EXCEPT !["claims"] = p]
      /\ todo' = [todo EXCEPT ![p] = s]
      /\ lines < MaxLines /\ lines' = lines + 1
      /\ UNCHANGED <<session, attested, faults, kept, view, seen, overtaken>>
  BY DEF Lodged
<1>3. WorkInv' /\ lock' \in [Stores -> Procs \cup {NoProc}]
  <2>1. "claims" \in Stores /\ s \in PlansOf("claims")
    BY <1>2 DEF Stores, PlansOf
  <2> QED  BY <1>1, <1>2, <2>1, StartKeepsWork
<1>4. KeptInv'
  <2>1. Len(kept.questions) \in Nat /\ Len(kept.questions) <= lines /\ lines \in Nat
    BY <1>1, <1>2, IndexTypes, NextStamp DEF KeptInv, Sound
  <2> QED  BY <1>1, <1>2, <2>1 DEF KeptInv
<1>5. LiveIsReplay'
  BY <1>1, <1>2 DEF TypeOK, LiveIsReplay
<1>6. lines' \in 0..MaxLines
  BY <1>1, <1>2, NextStamp
<1>7. TodoTyped'
  BY <1>3, TodoTypes, PTL
<1>8. TypeOK'
  BY <1>1, <1>2, <1>3, <1>6, <1>7 DEF TypeOK, Stores, TodoTyped
<1>9. ApproverInv'
  BY <1>1, <1>2 DEF ApproverInv
<1> QED
  BY <1>3, <1>4, <1>5, <1>8, <1>9 DEF TranscriptInv

LEMMA ClaimKeepsTranscript ==
    ASSUME TranscriptInv, NEW p \in Procs, Claim(p)
    PROVE  TranscriptInv'
<1>1. TypeOK /\ WorkInv /\ KeptInv /\ ApproverInv /\ LiveIsReplay
  BY DEF TranscriptInv
<1>2. CASE AddClaim(p)
  <2>1. PICK c \in Claims, g \in Gates : \E s \in Claiming(c, g) :
           /\ Lodged(p, s) /\ claims' = [claims EXCEPT ![c] = g] /\ UNCHANGED conflicts
    BY <1>1, <1>2, AddClaimStep
  <2>2. /\ claims' \in [Claims -> Gates \cup {NoOne}]
        /\ conflicts' \in [Conflicts -> Conflict \cup {NoConflict}]
    BY <1>1, <2>1 DEF TypeOK
  <2> QED  BY <2>1, <2>2, LodgedKeepsTranscript
<1>3. CASE AddConflict(p)
  <2>1. PICK k \in Conflicts, involved \in SUBSET Claims, groups \in SUBSET Groups :
           \E s \in Settling(k, {ClaimNode(c) : c \in involved}) :
              /\ Lodged(p, s) /\ conflicts[k] = NoConflict
              /\ conflicts' = [conflicts EXCEPT ![k] =
                    [claims |-> involved, groups |-> groups, state |-> Unresolved]]
              /\ UNCHANGED claims
              /\ {ClaimNode(c) : c \in involved} \in ConflictDeps
    BY <1>1, <1>3, AddConflictStep
  <2>2. [claims |-> involved, groups |-> groups, state |-> Unresolved] \in Conflict
    BY DEF Conflict
  <2>3. /\ claims' \in [Claims -> Gates \cup {NoOne}]
        /\ conflicts' \in [Conflicts -> Conflict \cup {NoConflict}]
    BY <1>1, <2>1, <2>2 DEF TypeOK
  <2> QED  BY <2>1, <2>3, LodgedKeepsTranscript
<1>4. CASE ResolveConflict(p)
  <2>1. PICK k \in Conflicts : \E s \in Settling(k, ResolveDeps(k)) :
           /\ Lodged(p, s) /\ UNCHANGED claims /\ seen[p] \in Approvers
           /\ conflicts[k] \in Conflict
           /\ conflicts' = [conflicts EXCEPT ![k].state = seen[p]]
    BY <1>1, <1>4, ResolveStep
  <2>2. [conflicts[k] EXCEPT !.state = seen[p]] \in Conflict
    BY <2>1 DEF Conflict
  <2>3. /\ claims' \in [Claims -> Gates \cup {NoOne}]
        /\ conflicts' \in [Conflicts -> Conflict \cup {NoConflict}]
    BY <1>1, <2>1, <2>2 DEF TypeOK
  <2> QED  BY <2>1, <2>3, LodgedKeepsTranscript
<1>5. CASE OpenSession(p)
  <2>1. /\ seen' \in [Procs -> Approvers \cup {NoOne}]
        /\ UNCHANGED <<stores, session, lock, todo, view, lines, faults, overtaken>>
    BY <1>1, <1>5 DEF OpenSession, TypeOK, ApproverInv
  <2>2. TypeOK'
    BY <1>1, <2>1 DEF TypeOK, stores
  <2> QED
    BY <1>1, <2>1, <2>2 DEF TranscriptInv, WorkInv, KeptInv, ApproverInv, LiveIsReplay, stores
<1> QED
  BY <1>2, <1>3, <1>4, <1>5 DEF Claim

LEMMA InterviewWrote ==
    ASSUME TypeOK, KeptInv, NEW p \in Procs, Interview(p)
    PROVE  \E s : /\ Wrote(p, s)
                  /\ \/ Askes(s)
                     \/ \E g \in Gates, text \in Texts : Records(g, text, s)
                     \/ \E g \in Gates, d \in Dispositions : Settles(g, d, s)
  BY AskStep, AnswerStep, CorrectStep, SetGateStep DEF Interview

LEMMA InterviewKeepsTranscript ==
    ASSUME TranscriptInv, NEW p \in Procs, Interview(p)
    PROVE  TranscriptInv'
<1>1. PICK s : Wrote(p, s)
  BY InterviewWrote DEF TranscriptInv
<1> QED
  BY <1>1, WroteKeepsTranscript

LEMMA WriteLineKeepsTranscript ==
    ASSUME TranscriptInv, NEW p \in Procs, WriteLine(p)
    PROVE  TranscriptInv'
<1>1. TypeOK /\ WorkInv /\ KeptInv /\ ApproverInv /\ LiveIsReplay
  BY DEF TranscriptInv
<1>2. PICK g \in Gates, text \in Texts :
         /\ todo[p] \in Disposing(g, text)
         /\ todo' = [todo EXCEPT ![p] = Tail(todo[p])] /\ Tail(todo[p]) \in GateFirst(g, text)
         /\ lock["interview"] = p
         /\ Sound(kept') /\ Keeps(kept, kept') /\ view' = [view EXCEPT ![p] = kept']
         /\ kept'.answers = kept.answers /\ kept'.current = kept.current
         /\ kept'.disposition = [kept.disposition EXCEPT ![g] = "answered"]
         /\ kept'.questions = kept.questions
  BY <1>1, WriteLineStep
<1>3. UNCHANGED <<claims, conflicts, attested, session, lock, seen, lines, faults, overtaken>>
  BY DEF WriteLine
<1>4. WorkInv'
  <2>1. todo[p] \in InterviewPlans /\ Tail(todo[p]) \in InterviewPlans
    BY <1>2, KindsIn DEF Answering
  <2>2. \A store \in Stores : Tail(todo[p]) \in PlansOf(store) <=> todo[p] \in PlansOf(store)
    BY <2>1, PlansDisjoint DEF PlansOf
  <2> QED  BY <1>1, <1>2, <1>3, <2>1, <2>2, GoOnKeepsWork DEF Plans
<1>5. KeptInv'
  BY <1>1, <1>2, <1>3 DEF KeptInv
<1>6. LiveIsReplay'
  BY <1>1, <1>2, <1>3 DEF TypeOK, LiveIsReplay
<1>7. TodoTyped'
  BY <1>4, TodoTypes, PTL
<1>8. kept' \in InterviewIndex /\ view' \in [Procs -> InterviewIndex]
  BY <1>1, <1>2 DEF TypeOK, Sound
<1>9. TypeOK'
  BY <1>1, <1>3, <1>7, <1>8 DEF TypeOK, TodoTyped
<1>10. ApproverInv'
  BY <1>1, <1>3 DEF ApproverInv
<1> QED
  BY <1>4, <1>5, <1>6, <1>9, <1>10 DEF TranscriptInv

(* A binding of a command leaves the approver. *)
LEMMA BindEffect ==
    ASSUME TranscriptInv, NEW p \in Procs, RecordArtifact(p)
    PROVE  /\ session' \in Session!Index
           /\ session'.hash[Approver] = session.hash[Approver]
           /\ session'.state = session.state
<1>1. TypeOK /\ WorkInv /\ session \in Session!Index
  BY DEF TranscriptInv, TypeOK
<1>2. /\ Head(todo[p]).artifact \in Session!Record /\ Head(todo[p]).artifact.node # Approver
      /\ session' = Session!Register(session, Head(todo[p]).artifact)
  BY <1>1, BindStep
<1>3. /\ session' \in Session!Index /\ session'.state = session.state
      /\ session'.hash = [session.hash EXCEPT ![Head(todo[p]).artifact.node] = Head(todo[p]).artifact.hash]
  BY <1>1, <1>2, RegisterFacts
<1>4. session.hash \in [ArtifactNodes -> ArtifactHashes \cup {NoHash}] /\ Approver \in ArtifactNodes
  BY <1>1, NodesIn DEF Session!Index, Session!Absent
<1> QED
  BY <1>2, <1>3, <1>4

LEMMA BindKeepsTranscript ==
    ASSUME TranscriptInv, NEW p \in Procs, RecordArtifact(p)
    PROVE  TranscriptInv'
<1>1. TypeOK /\ WorkInv /\ KeptInv /\ ApproverInv /\ LiveIsReplay
  BY DEF TranscriptInv
<1>2. /\ todo[p] # <<>> /\ Head(todo[p]).do = "bind" /\ Advances(p)
      /\ UNCHANGED <<stores, lines, faults, overtaken>>
  BY <1>1, BindStep
<1>3. /\ session' \in Session!Index /\ session'.hash[Approver] = session.hash[Approver]
  BY BindEffect
<1>4. WorkInv' /\ lock' \in [Stores -> Procs \cup {NoProc}]
  BY <1>1, <1>2, AdvanceKeepsWork
<1>5. /\ view' \in [Procs -> InterviewIndex] /\ seen' \in [Procs -> Approvers \cup {NoOne}]
      /\ LiveIsReplay'
  <2>1. kept' = kept
    BY <1>2 DEF stores
  <2>2. CASE Ends(p)
    BY <1>1, <2>1, <2>2, EndTypes
  <2>3. CASE UNCHANGED <<view, seen, lock>>
    BY <1>1, <2>1, <2>3 DEF TypeOK, LiveIsReplay
  <2> QED  BY <1>2, <2>2, <2>3 DEF Advances
<1>6. TodoTyped'
  BY <1>4, TodoTypes, PTL
<1>7. TypeOK'
  BY <1>1, <1>2, <1>3, <1>4, <1>5, <1>6 DEF TypeOK, Stores, TodoTyped, stores
<1>8. KeptInv'
  BY <1>1, <1>2 DEF KeptInv, stores
<1>9. ApproverInv'
  BY <1>1, <1>3 DEF ApproverInv
<1> QED
  BY <1>4, <1>5, <1>7, <1>8, <1>9 DEF TranscriptInv

\* A command returns and leaves stores and session as they are, but for an
\* attestation, a kill that is counted.
LEMMA EndKeepsTranscript ==
    ASSUME TranscriptInv, NEW p \in Procs, Ends(p),
           UNCHANGED <<kept, claims, conflicts, session, lines, overtaken>>,
           attested' \in [Groups -> Approvers \cup {NoOne}],
           faults' \in [kills : 0..MaxFaults, revisions : 0..MaxFaults]
    PROVE  TranscriptInv'
<1>1. TypeOK /\ WorkInv /\ KeptInv /\ ApproverInv /\ LiveIsReplay
  BY DEF TranscriptInv
<1>2. /\ WorkInv' /\ lock' \in [Stores -> Procs \cup {NoProc}]
      /\ view' \in [Procs -> InterviewIndex]
      /\ seen' \in [Procs -> Approvers \cup {NoOne}]
      /\ LiveIsReplay'
  BY <1>1, EndTypes
<1>3. TodoTyped'
  BY <1>2, TodoTypes, PTL
<1>4. TypeOK'
  BY <1>1, <1>2, <1>3 DEF TypeOK, Stores, TodoTyped
<1> QED
  BY <1>1, <1>2, <1>4 DEF TranscriptInv, KeptInv, ApproverInv

LEMMA ApproveKeepsTranscript ==
    ASSUME TranscriptInv, NEW p \in Procs, Approve(p)
    PROVE  TranscriptInv'
<1>1. TypeOK /\ WorkInv /\ KeptInv /\ ApproverInv /\ LiveIsReplay
  BY DEF TranscriptInv
<1>2. ASSUME NEW s \in Plans, todo' = [todo EXCEPT ![p] = s],
             todo[p] \in {<<>>} \cup AttestPlans, s \in {<<>>} \cup AttestPlans,
             UNCHANGED <<stores, session, lock, view, seen, lines, faults, overtaken>>
      PROVE  TranscriptInv'
  <2>1. WorkInv'
    BY <1>1, <1>2, AttestWork
  <2>2. TodoTyped'
    BY <2>1, TodoTypes, PTL
  <2>3. TypeOK'
    BY <1>1, <1>2, <2>2 DEF TypeOK, TodoTyped, stores
  <2> QED
    BY <1>1, <1>2, <2>1, <2>3 DEF TranscriptInv, KeptInv, ApproverInv, LiveIsReplay, stores
<1>3. CASE VerifyClaims(p)
  <2>1. PICK group \in Groups :
           /\ todo' = [todo EXCEPT ![p] = <<ReadGates(group), Sign(group)>>]
           /\ todo[p] = <<>>
           /\ UNCHANGED <<stores, session, lock, view, seen, lines, faults, overtaken>>
    BY <1>3 DEF VerifyClaims, Idle
  <2>2. <<ReadGates(group), Sign(group)>> \in Attesting(group)
    BY DEF Attesting
  <2> DEFINE s == <<ReadGates(group), Sign(group)>>
  <2> HIDE DEF s
  <2>3. s \in AttestPlans /\ s \in Plans
    BY <2>2, KindsIn DEF Plans, s
  <2> QED  BY <1>2, <2>1, <2>3 DEF s
<1>4. CASE VerifyGates(p)
  <2>1. PICK group \in Groups : todo[p] \in AttestPlans /\ Tail(todo[p]) \in Attesting(group)
    BY <1>1, <1>4, AttestPlan DEF VerifyGates
  <2>2. PICK s \in {Tail(todo[p]), <<>>} : todo' = [todo EXCEPT ![p] = s]
    BY <1>4 DEF VerifyGates
  <2>3. s \in {<<>>} \cup AttestPlans /\ s \in Plans
    BY <2>1, KindsIn DEF Plans
  <2>4. UNCHANGED <<stores, session, lock, view, seen, lines, faults, overtaken>>
    BY <1>4 DEF VerifyGates
  <2> QED  BY <1>2, <2>1, <2>2, <2>3, <2>4
<1>5. CASE Attest(p)
  <2>1. /\ attested' = [attested EXCEPT ![Next1(p).group] = session.hash[Approver]]
        /\ Ends(p) /\ UNCHANGED <<kept, claims, conflicts, session, lines, faults, overtaken>>
    BY <1>5 DEF Attest
  <2>2. attested' \in [Groups -> Approvers \cup {NoOne}]
    BY <1>1, <2>1 DEF TypeOK, ApproverInv
  <2>3. faults' \in [kills : 0..MaxFaults, revisions : 0..MaxFaults]
    BY <1>1, <2>1 DEF TypeOK
  <2> QED  BY <2>1, <2>2, <2>3, EndKeepsTranscript
<1> QED
  BY <1>3, <1>4, <1>5 DEF Approve

LEMMA FaultTypes ==
    ASSUME TypeOK, Faults < MaxFaults
    PROVE  /\ [faults EXCEPT !.kills = @ + 1] \in [kills : 0..MaxFaults, revisions : 0..MaxFaults]
           /\ [faults EXCEPT !.revisions = @ + 1] \in [kills : 0..MaxFaults, revisions : 0..MaxFaults]
<1>1. /\ faults \in [kills : 0..MaxFaults, revisions : 0..MaxFaults]
      /\ faults.kills \in Nat /\ faults.revisions \in Nat
  BY DEF TypeOK
<1>2. MaxFaults \in Nat /\ faults.kills < MaxFaults /\ faults.revisions < MaxFaults
  <2>1. faults.kills + faults.revisions < MaxFaults
    <3>1. CASE session.state = "closed"
      BY <1>1, <3>1, DiscoveryBounds DEF Faults
    <3>2. CASE session.state # "closed"
      BY <1>1, <3>2, DiscoveryBounds DEF Faults
    <3> QED  BY <3>1, <3>2
  <2> QED  BY <1>1, <2>1, DiscoveryBounds
<1> QED
  BY <1>1, <1>2

LEMMA KillKeepsTranscript ==
    ASSUME TranscriptInv, NEW p \in Procs, Kill(p) \/ RecordRefused(p)
    PROVE  TranscriptInv'
<1>1. TypeOK
  BY DEF TranscriptInv
<1>2. CASE Kill(p)
  <2>1. /\ faults' \in [kills : 0..MaxFaults, revisions : 0..MaxFaults]
        /\ Ends(p) /\ UNCHANGED <<kept, claims, conflicts, session, lines, overtaken>>
        /\ attested' \in [Groups -> Approvers \cup {NoOne}]
    BY <1>1, <1>2, FaultTypes DEF Kill, stores, TypeOK
  <2> QED  BY <2>1, EndKeepsTranscript
<1>3. CASE RecordRefused(p)
  <2>1. /\ faults' \in [kills : 0..MaxFaults, revisions : 0..MaxFaults]
        /\ Ends(p) /\ UNCHANGED <<kept, claims, conflicts, session, lines, overtaken>>
        /\ attested' \in [Groups -> Approvers \cup {NoOne}]
    BY <1>1, <1>3 DEF RecordRefused, stores, TypeOK
  <2> QED  BY <2>1, EndKeepsTranscript
<1> QED
  BY <1>2, <1>3

(* The session's other users change its approver and its state. *)
LEMMA ReviseEffect ==
    ASSUME TypeOK, ReviseApprover
    PROVE  \E a \in Approvers \ {session.hash[Approver]} :
              /\ Artifact(Approver, a, {}) \in Session!Record
              /\ session' = Session!Register(session, Artifact(Approver, a, {}))
              /\ session' \in Session!Index /\ session'.state = session.state
              /\ session'.hash = [session.hash EXCEPT ![Approver] = a]
              /\ session'.deps = [session.deps EXCEPT ![Approver] = {}]
              /\ session.stale \subseteq session'.stale
<1>1. PICK a \in Approvers \ {session.hash[Approver]} :
         session' = Session!Register(session, Artifact(Approver, a, {}))
  BY DEF ReviseApprover
<1> DEFINE r == Artifact(Approver, a, {})
<1>2. r \in Session!Record /\ r.node = Approver /\ r.hash = a /\ r.deps = {}
  BY NodesIn DEF Artifact, Session!Record, ArtifactHashes
<1> HIDE DEF r
<1>3. session \in Session!Index
  BY DEF TypeOK
<1> DEFINE x == Session!Register(session, r)
<1>4. /\ x \in Session!Index /\ x.state = session.state
      /\ x.hash = [session.hash EXCEPT ![r.node] = r.hash]
      /\ x.deps = [session.deps EXCEPT ![r.node] = r.deps]
      /\ session.stale \subseteq x.stale
  BY <1>2, <1>3, RegisterFacts
<1>5. session' = x
  BY <1>1 DEF r
<1> HIDE DEF x
<1>6. /\ r \in Session!Record /\ session' \in Session!Index /\ session'.state = session.state
      /\ session'.hash = [session.hash EXCEPT ![Approver] = a]
      /\ session'.deps = [session.deps EXCEPT ![Approver] = {}]
      /\ session.stale \subseteq session'.stale
  BY <1>2, <1>4, <1>5
<1> QED
  BY <1>1, <1>6 DEF r

LEMMA UsersKeepTranscript ==
    ASSUME TranscriptInv, ReviseApprover \/ CloseSession
    PROVE  TranscriptInv'
<1>1. TypeOK /\ WorkInv /\ KeptInv /\ ApproverInv /\ LiveIsReplay
  BY DEF TranscriptInv
<1>2. session \in Session!Index
  BY <1>1 DEF TypeOK
<1>3. CASE ReviseApprover
  <2>1. PICK a \in Approvers : session' \in Session!Index /\ session'.hash = [session.hash EXCEPT ![Approver] = a]
    BY <1>1, <1>3, ReviseEffect
  <2>2. session'.hash[Approver] = a
    BY <1>2, <2>1, NodesIn DEF Session!Index
  <2>3. /\ faults' \in [kills : 0..MaxFaults, revisions : 0..MaxFaults]
        /\ overtaken' \in BOOLEAN /\ UNCHANGED <<stores, lock, local, lines>>
    BY <1>1, <1>3, FaultTypes DEF ReviseApprover, TypeOK
  <2>4. TypeOK'
    BY <1>1, <2>1, <2>3 DEF TypeOK, stores, local
  <2> QED
    BY <1>1, <2>2, <2>3, <2>4
     DEF TranscriptInv, WorkInv, KeptInv, ApproverInv, LiveIsReplay, stores, local
<1>4. CASE CloseSession
  <2>1. /\ session' = [session EXCEPT !.state = "closed"]
        /\ UNCHANGED <<stores, lock, local, lines, faults, overtaken>>
    BY <1>4 DEF CloseSession
  <2>2. session' \in Session!Index /\ session'.hash = session.hash
    BY <1>2, <2>1 DEF Session!Index, Session!States
  <2>3. TypeOK'
    BY <1>1, <2>1, <2>2 DEF TypeOK, stores, local
  <2> QED
    BY <1>1, <2>1, <2>2, <2>3
     DEF TranscriptInv, WorkInv, KeptInv, ApproverInv, LiveIsReplay, stores, local
<1> QED
  BY <1>3, <1>4

(* The first charter is the approver's, and nothing else is recorded. *)
LEMMA FirstSession ==
    ASSUME Init
    PROVE  /\ session \in Session!Index /\ session.state = "interviewing"
           /\ session.hash = [n \in ArtifactNodes |-> IF n = Approver THEN FirstApprover ELSE NoHash]
<1> DEFINE r == Artifact(Approver, FirstApprover, {})
           x == Session!Register(Session!Empty, r)
<1>1. r \in Session!Record /\ r.node = Approver /\ r.hash = FirstApprover
  BY NodesIn, DiscoveryGroups DEF Artifact, Session!Record, ArtifactHashes
<1>2. Session!Empty \in Session!Index /\ Session!Empty.hash = [n \in ArtifactNodes |-> NoHash]
  BY DEF Session!Empty, Session!Index, Session!Absent
<1> HIDE DEF r
<1>3. x \in Session!Index /\ x.hash = [Session!Empty.hash EXCEPT ![Approver] = FirstApprover]
  BY <1>1, <1>2, RegisterFacts
<1>4. session = [x EXCEPT !.state = "interviewing"]
  BY DEF Init, x, r
<1> HIDE DEF x
<1>5. session \in Session!Index /\ session.state = "interviewing" /\ session.hash = x.hash
  BY <1>3, <1>4 DEF Session!Index, Session!States
<1>6. x.hash = [n \in ArtifactNodes |-> IF n = Approver THEN FirstApprover ELSE NoHash]
  BY <1>2, <1>3, NodesIn
<1> QED
  BY <1>5, <1>6

LEMMA TranscriptStarts == Init => TranscriptInv
<1> SUFFICES ASSUME Init  PROVE TranscriptInv
  OBVIOUS
<1>1. /\ kept = Empty /\ todo = [p \in Procs |-> <<>>] /\ view = [p \in Procs |-> Empty]
      /\ lock = [store \in Stores |-> NoProc] /\ lines = 0
      /\ claims = [c \in Claims |-> NoOne] /\ conflicts = [k \in Conflicts |-> NoConflict]
      /\ attested = [group \in Groups |-> NoOne] /\ seen = [p \in Procs |-> NoOne]
      /\ faults = [kills |-> 0, revisions |-> 0] /\ overtaken = FALSE
  BY DEF Init, Stores
<1>2. WorkInv
  <2>1. <<>> \in Plans /\ NoProc \notin Procs
    BY DiscoveryGroups DEF Plans
  <2>2. <<>> \notin InterviewPlans /\ <<>> \notin ClaimPlans
    BY PlansDisjoint
  <2> QED  BY <1>1, <2>1, <2>2 DEF WorkInv, Stores
<1>3. TodoTyped
  BY <1>2, TodoTypes
<1>4. KeptInv /\ kept \in InterviewIndex
  BY <1>1, EmptySound DEF KeptInv, Sound
<1>5. session \in Session!Index /\ session.hash[Approver] = FirstApprover
  BY FirstSession, NodesIn
<1>6. lines \in 0..MaxLines /\ faults \in [kills : 0..MaxFaults, revisions : 0..MaxFaults]
  BY <1>1, DiscoveryBounds
<1>7. TypeOK
  BY <1>1, <1>3, <1>4, <1>5, <1>6 DEF TypeOK, TodoTyped, Stores
<1>8. LiveIsReplay /\ ApproverInv
  BY <1>1, <1>5, DiscoveryGroups DEF LiveIsReplay, ApproverInv
<1> QED
  BY <1>2, <1>4, <1>7, <1>8 DEF TranscriptInv

LEMMA TranscriptStep == TranscriptInv /\ [Next]_vars => TranscriptInv'
<1> SUFFICES ASSUME TranscriptInv, [Next]_vars  PROVE TranscriptInv'
  OBVIOUS
<1>1. CASE \E p \in Procs : Interview(p)
  BY <1>1, InterviewKeepsTranscript
<1>2. CASE \E p \in Procs : Claim(p)
  BY <1>2, ClaimKeepsTranscript
<1>3. CASE \E p \in Procs : Rest(p)
  BY <1>3, WriteLineKeepsTranscript, BindKeepsTranscript, KillKeepsTranscript DEF Rest
<1>4. CASE \E p \in Procs : Approve(p)
  BY <1>4, ApproveKeepsTranscript
<1>5. CASE \E p \in Procs : Kill(p)
  BY <1>5, KillKeepsTranscript
<1>6. CASE ReviseApprover \/ CloseSession
  BY <1>6, UsersKeepTranscript
<1>7. CASE UNCHANGED vars
  BY <1>7 DEF TranscriptInv, TypeOK, WorkInv, KeptInv, LiveIsReplay, ApproverInv,
              vars, stores, local
<1> QED
  BY <1>1, <1>2, <1>3, <1>4, <1>5, <1>6, <1>7 DEF Next

LEMMA TranscriptAlways == Spec => []TranscriptInv
  BY TranscriptStarts, TranscriptStep, PTL DEF Spec

(* Whatever the commands of any number of processes write, and wherever they
   are killed: at most one question is open, the current answer of a gate is one
   that nothing has superseded, and what a command holds in memory is what the
   next one will replay. *)
THEOREM TranscriptCorrect == Spec => []TranscriptSound
<1>1. TranscriptInv => TranscriptSound
  BY DEF TranscriptInv, TranscriptSound, KeptInv, Sound, OneOpenQuestion
<1> QED
  BY <1>1, TranscriptAlways, PTL

(* No line of the interview rewrites what an earlier one has recorded: it
   supersedes an answer that is current, closes a question that is open, or
   leaves them. *)
THEOREM HistoryIsKept == Spec => HistoryKept
<1>1. TranscriptInv /\ [Next]_vars => kept' = kept \/ Keeps(kept, kept')
  <2> SUFFICES ASSUME TranscriptInv, Next, kept' # kept  PROVE Keeps(kept, kept')
    BY DEF vars, stores
  <2>1. TypeOK /\ WorkInv /\ KeptInv /\ LiveIsReplay
    BY DEF TranscriptInv
  <2>2. CASE \E p \in Procs : Interview(p)
    BY <2>1, <2>2, InterviewWrote DEF Wrote
  <2>3. CASE \E p \in Procs : WriteLine(p)
    BY <2>1, <2>3, WriteLineStep
  <2> QED
    BY <2>2, <2>3 DEF Next, Claim, Rest, Approve, AddClaim, AddConflict, OpenSession,
       ResolveConflict, RecordArtifact, RecordRefused, VerifyClaims, VerifyGates, Attest, Kill,
       ReviseApprover, CloseSession, stores
<1> DEFINE Step ==
      /\ \A i \in 1..Len(kept.answers) :
            LET was == kept.answers[i] IN LET is == kept'.answers[i]
            IN  \/ is = was
                \/ /\ was.superseded_by = None
                   /\ is = [was EXCEPT !.superseded_by = Len(kept'.answers)]
                   /\ is.superseded_by > i
      /\ \A i \in 1..Len(kept.questions) :
            LET was == kept.questions[i] IN LET is == kept'.questions[i]
            IN  \/ is = was
                \/ /\ was.answered_by = None
                   /\ is = [was EXCEPT !.answered_by = Len(kept'.answers)]
<1>2. TranscriptInv /\ [Next]_vars => Step
  BY <1>1 DEF Keeps
<1>3. TranscriptInv /\ [Next]_vars => [Step]_vars
  BY <1>2
<1> QED
  BY <1>3, TranscriptAlways, PTL DEF Spec, HistoryKept

-----------------------------------------------------------------------------
(* The interview and what the session has bound of it.                      *)

\* Commands that have nothing of the interview left to do.
Outside == {<<>>} \cup ClaimPlans \cup AttestPlans

\* The work on the interview is as it was for gate g.
SameWork(g) ==
    \A q \in Procs :
        /\ \A text \in Texts : todo'[q] \in Answering(g, text) <=> todo[q] \in Answering(g, text)
        /\ todo'[q] \in Gating(g) <=> todo[q] \in Gating(g)

LEMMA OutsideWork ==
    ASSUME NEW s \in Outside
    PROVE  \A g, text : s \notin Answering(g, text) /\ s \notin Gating(g)
  BY PlansApart DEF Outside

LEMMA OutsideSame ==
    ASSUME WorkInv, NEW p \in Procs, NEW s \in Outside, todo[p] \in Outside,
           todo' = [todo EXCEPT ![p] = s]
    PROVE  \A g : SameWork(g)
<1>1. \A q \in Procs : todo'[q] = IF q = p THEN s ELSE todo[q]
  BY DEF WorkInv
<1> QED
  BY <1>1, OutsideWork DEF SameWork

(* Only who has the interview's lock has something of it left to do. *)
LEMMA OnlyHolder ==
    ASSUME WorkInv, NEW q \in Procs, NEW g \in Gates
    PROVE  /\ \A text \in Texts : todo[q] \in Answering(g, text) => lock["interview"] = q
           /\ todo[q] \in Gating(g) => lock["interview"] = q
  BY KindsIn DEF WorkInv

LEMMA NobodyAtWork ==
    ASSUME WorkInv, lock["interview"] = NoProc, NEW g \in Gates
    PROVE  /\ \A q \in Procs, text \in Texts : todo[q] \notin Answering(g, text)
           /\ \A q \in Procs : todo[q] \notin Gating(g)
  BY OnlyHolder, DiscoveryGroups

LEMMA AgreeFrame ==
    ASSUME NEW g \in Gates, AgreeOn(g), SameWork(g), kept' = kept,
           session'.hash[AnswerNode(g)] = session.hash[AnswerNode(g)],
           session'.hash[GateNode(g)] = session.hash[GateNode(g)]
    PROVE  AgreeOn(g)'
<1>1. CurrentText(g)' = CurrentText(g) /\ Replaced(g)' = Replaced(g)
  BY DEF CurrentText, Replaced
<1> QED
  BY <1>1 DEF AgreeOn, SameWork

(* What is recorded keeps its gate and its text. *)
LEMMA KeepsTexts ==
    ASSUME NEW x, Sound(x), NEW y, Keeps(x, y), NEW i \in 1..Len(x.answers)
    PROVE  y.answers[i].gate = x.answers[i].gate /\ y.answers[i].text = x.answers[i].text
<1>1. x.answers[i] \in Answer
  BY IndexTypes DEF Sound
<1>2. \/ y.answers[i] = x.answers[i]
      \/ y.answers[i] = [x.answers[i] EXCEPT !.superseded_by = Len(y.answers)]
  BY DEF Keeps
<1> QED
  BY <1>1, <1>2 DEF Answer

LEMMA SameText ==
    ASSUME Sound(kept), Keeps(kept, kept'), NEW g \in Gates, kept'.current[g] = kept.current[g]
    PROVE  CurrentText(g)' = CurrentText(g)
<1>1. kept.current[g] # None => kept.current[g] \in 1..Len(kept.answers)
  BY IndexTypes DEF Sound, None
<1>2. kept.current[g] # None =>
         kept'.answers[kept.current[g]].text = kept.answers[kept.current[g]].text
  BY <1>1, KeepsTexts
<1> QED
  BY <1>2 DEF CurrentText

(* A new answer replaces the one that was current. *)
LEMMA NewReplaces ==
    ASSUME Sound(kept), Keeps(kept, kept'), NEW g \in Gates, NEW text,
           NewCurrent(kept, kept', g, text)
    PROVE  Replaced(g)' = CurrentText(g) /\ CurrentText(g)' = text
<1> DEFINE n == Len(kept.answers) + 1
           earlier == {i \in 1..Len(kept.answers) : kept'.answers[i].gate = g}
           c == kept.current[g]
<1>1. /\ Len(kept.answers) \in Nat /\ kept.current \in [Gates -> Nat]
      /\ c \in 0..Len(kept.answers)
      /\ c # None => kept.answers[c].gate = g
      /\ \A i \in 1..Len(kept.answers) : i <= kept.current[kept.answers[i].gate]
  BY IndexTypes DEF Sound
<1>2. Len(kept'.answers) = n /\ kept'.current[g] = n /\ kept'.answers[n].text = text
  BY <1>1 DEF NewCurrent
<1>3. CurrentText(g)' = text
  BY <1>1, <1>2 DEF CurrentText, None
<1>4. Replaced(g)' = IF earlier = {} THEN NoHash
                     ELSE kept'.answers[CHOOSE i \in earlier : \A j \in earlier : j <= i].text
  <2> DEFINE before == {i \in 1..(kept'.current[g] - 1) : kept'.answers[i].gate = g}
  <2>1. 1..(kept'.current[g] - 1) = 1..Len(kept.answers)
    BY <1>1, <1>2
  <2>2. before = earlier
    BY <2>1
  <2>3. Replaced(g)' = IF before = {} THEN NoHash
                       ELSE kept'.answers[CHOOSE i \in before : \A j \in before : j <= i].text
    BY DEF Replaced
  <2> HIDE DEF before, earlier
  <2> QED  BY <2>2, <2>3
<1>5. \A i \in earlier : i \in 1..Len(kept.answers) /\ i <= c
  BY <1>1, KeepsTexts
<1>6. CASE c = None
  <2>1. earlier = {}
    BY <1>5, <1>6 DEF None
  <2> QED  BY <1>3, <1>4, <1>6, <2>1 DEF CurrentText
<1>7. CASE c # None
  <2>1. c \in earlier /\ kept'.answers[c].text = kept.answers[c].text
    <3>1. c # 0 /\ kept.answers[c].gate = g
      BY <1>1, <1>7 DEF None
    <3> HIDE DEF c
    <3>2. c \in 0..Len(kept.answers) /\ Len(kept.answers) \in Nat
      BY <1>1
    <3>3. c \in 1..Len(kept.answers)
      BY <3>1, <3>2
    <3>4. kept'.answers[c].gate = g /\ kept'.answers[c].text = kept.answers[c].text
      BY <3>1, <3>3, KeepsTexts
    <3> QED  BY <3>3, <3>4
  <2> HIDE DEF earlier, c
  <2>2. (CHOOSE i \in earlier : \A j \in earlier : j <= i) = c
    <3>1. \E i \in earlier : \A j \in earlier : j <= i
      BY <1>5, <2>1
    <3>2. \A i \in earlier : (\A j \in earlier : j <= i) => i = c
      BY <1>1, <1>5, <2>1
    <3> QED  BY <3>1, <3>2
  <2>3. Replaced(g)' = kept'.answers[c].text
    BY <1>4, <2>1, <2>2
  <2> QED  BY <1>3, <1>7, <2>1, <2>3 DEF CurrentText, c
<1> QED
  BY <1>6, <1>7

(* An interview command leaves to bind what it has just written. *)
LEMMA WroteAgrees ==
    ASSUME TypeOK, WorkInv, KeptInv, NEW p \in Procs, NEW s, Wrote(p, s),
           \/ Askes(s)
           \/ \E g \in Gates, text \in Texts : Records(g, text, s)
           \/ \E g \in Gates, d \in Dispositions : Settles(g, d, s),
           \A g \in Gates : AgreeOn(g)
    PROVE  (\A g \in Gates : AgreeOn(g))'
<1>1. /\ s \in InterviewPlans /\ Sound(kept) /\ Keeps(kept, kept') /\ session' = session
      /\ \A q \in Procs : todo'[q] = IF q = p THEN s ELSE todo[q]
  BY DEF Wrote, KeptInv, WorkInv
<1> SUFFICES ASSUME NEW g \in Gates  PROVE AgreeOn(g)'
  OBVIOUS
<1>2. /\ \A q \in Procs, text \in Texts : todo[q] \notin Answering(g, text)
      /\ \A q \in Procs : todo[q] \notin Gating(g)
  BY NobodyAtWork DEF Wrote
<1>3. /\ session.hash[AnswerNode(g)] = CurrentText(g)
      /\ session.hash[GateNode(g)] = NoHash <=> kept.disposition[g] = Open
  BY <1>2 DEF AgreeOn
<1>4. \A q \in Procs : q # p =>
         todo'[q] \notin Gating(g) /\ \A text \in Texts : todo'[q] \notin Answering(g, text)
  BY <1>1, <1>2
<1>5. todo'[p] = s
  BY <1>1
<1>6. kept.disposition \in [Gates -> Dispositions \cup {Open}] /\ kept.current \in [Gates -> Nat]
  BY <1>1, IndexTypes DEF Sound
<1>7. ASSUME kept'.current[g] = kept.current[g], kept'.disposition[g] = kept.disposition[g],
             s \notin Gating(g), \A text \in Texts : s \notin Answering(g, text)
      PROVE  AgreeOn(g)'
  <2>1. CurrentText(g)' = CurrentText(g)
    BY <1>1, <1>7, SameText
  <2>2. \A q \in Procs :
           todo'[q] \notin Gating(g) /\ \A text \in Texts : todo'[q] \notin Answering(g, text)
    BY <1>4, <1>5, <1>7
  <2> QED  BY <1>1, <1>3, <1>7, <2>1, <2>2 DEF AgreeOn
<1>8. CASE Askes(s)
  BY <1>7, <1>8, PlansApart DEF Askes
<1>9. CASE \E g0 \in Gates, text \in Texts : Records(g0, text, s)
  <2>1. PICK g0 \in Gates, text \in Texts : Records(g0, text, s)
    BY <1>9
  <2>2. s \in Disposing(g0, text) \cup AnswerLast(g0, text) /\ NewCurrent(kept, kept', g0, text)
    BY <2>1 DEF Records
  <2>3. s \in Answering(g0, text) /\ s \notin Gating(g)
    BY <2>2, PlansApart DEF Answering
  <2>4. /\ kept'.disposition = kept.disposition
        /\ g # g0 => kept'.current[g] = kept.current[g]
    BY <1>6, <2>2 DEF NewCurrent
  <2>5. CASE g = g0
    <3>1. Replaced(g)' = CurrentText(g) /\ CurrentText(g)' = text
      BY <1>1, <2>2, <2>5, NewReplaces
    <3>2. \A q \in Procs, other \in Texts :
             todo'[q] \in Answering(g, other) => other = text
      BY <1>4, <1>5, <2>3, <2>5, PlansApart
    <3>3. \A q \in Procs : todo'[q] \notin Gating(g)
      BY <1>4, <1>5, <2>3
    <3>4. todo'[p] \in Answering(g, text)
      BY <1>5, <2>3, <2>5
    <3> QED  BY <1>1, <1>3, <2>4, <3>1, <3>2, <3>3, <3>4 DEF AgreeOn
  <2>6. CASE g # g0
    <3>1. \A other \in Texts : s \notin Answering(g, other)
      BY <2>3, <2>6, PlansApart
    <3> QED  BY <1>7, <2>3, <2>4, <2>6, <3>1
  <2> QED  BY <2>5, <2>6
<1>10. CASE \E g0 \in Gates, d \in Dispositions : Settles(g0, d, s)
  <2>1. PICK g0 \in Gates, d \in Dispositions : Settles(g0, d, s)
    BY <1>10
  <2>2. /\ s \in GateOnly(g0) /\ kept'.current = kept.current
        /\ kept'.disposition = [kept.disposition EXCEPT ![g0] = d]
    BY <2>1 DEF Settles
  <2>3. s \in Gating(g0) /\ \A text \in Texts : s \notin Answering(g, text)
    BY <2>2, PlansApart DEF Gating
  <2>4. CASE g = g0
    <3>1. kept'.disposition[g] # Open
      BY <1>6, <2>2, <2>4 DEF Dispositions, Open
    <3>2. CurrentText(g)' = CurrentText(g)
      BY <1>1, <2>2, SameText
    <3>3. \A q \in Procs, text \in Texts : todo'[q] \notin Answering(g, text)
      BY <1>4, <1>5, <2>3
    <3>4. todo'[p] \in Gating(g)
      BY <1>5, <2>3, <2>4
    <3> QED  BY <1>1, <1>3, <3>1, <3>2, <3>3, <3>4 DEF AgreeOn
  <2>5. CASE g # g0
    <3>1. s \notin Gating(g) /\ kept'.disposition[g] = kept.disposition[g]
      BY <1>6, <2>2, <2>3, <2>5, PlansApart
    <3> QED  BY <1>7, <2>2, <2>3, <3>1
  <2> QED  BY <2>4, <2>5
<1> QED
  BY <1>8, <1>9, <1>10

(* answer disposes of its gate, and then has it to bind. *)
LEMMA LineAgrees ==
    ASSUME TypeOK, WorkInv, KeptInv, LiveIsReplay, NEW p \in Procs, WriteLine(p),
           \A g \in Gates : AgreeOn(g)
    PROVE  (\A g \in Gates : AgreeOn(g))'
<1>1. PICK g0 \in Gates, text0 \in Texts :
         /\ todo[p] \in Disposing(g0, text0)
         /\ todo' = [todo EXCEPT ![p] = Tail(todo[p])] /\ Tail(todo[p]) \in GateFirst(g0, text0)
         /\ lock["interview"] = p
         /\ Sound(kept') /\ Keeps(kept, kept') /\ view' = [view EXCEPT ![p] = kept']
         /\ kept'.answers = kept.answers /\ kept'.current = kept.current
         /\ kept'.disposition = [kept.disposition EXCEPT ![g0] = "answered"]
         /\ kept'.questions = kept.questions
  BY WriteLineStep
<1>2. session' = session /\ \A q \in Procs : q # p => todo'[q] = todo[q]
  BY <1>1 DEF WriteLine, WorkInv
<1>3. todo'[p] \in GateFirst(g0, text0)
  BY <1>1 DEF WorkInv
<1> SUFFICES ASSUME NEW g \in Gates  PROVE AgreeOn(g)'
  OBVIOUS
<1>4. CurrentText(g)' = CurrentText(g) /\ Replaced(g)' = Replaced(g)
  BY <1>1 DEF CurrentText, Replaced
<1>5. \A q \in Procs, text \in Texts : todo'[q] \in Answering(g, text) <=> todo[q] \in Answering(g, text)
  <2>1. todo[p] \in Answering(g0, text0) /\ todo'[p] \in Answering(g0, text0)
    BY <1>1, <1>3 DEF Answering
  <2> QED  BY <1>2, <2>1, PlansApart
<1>6. kept.disposition \in [Gates -> Dispositions \cup {Open}]
  BY IndexTypes DEF TypeOK
<1>7. CASE g = g0
  <2>1. kept'.disposition[g] # Open
    BY <1>1, <1>6, <1>7 DEF Open
  <2>2. todo'[p] \in Gating(g)
    BY <1>3, <1>7 DEF Gating
  <2> QED  BY <1>2, <1>4, <1>5, <2>1, <2>2 DEF AgreeOn
<1>8. CASE g # g0
  <2>1. kept'.disposition[g] = kept.disposition[g]
    BY <1>1, <1>6, <1>8
  <2>2. todo[p] \notin Gating(g) /\ todo'[p] \notin Gating(g)
    <3>1. todo'[p] \in Gating(g0)
      BY <1>3 DEF Gating
    <3> QED  BY <1>1, <1>8, <3>1, PlansApart
  <2>3. \A q \in Procs : todo'[q] \in Gating(g) <=> todo[q] \in Gating(g)
    BY <1>2, <2>2
  <2> QED  BY <1>2, <1>4, <1>5, <2>1, <2>3 DEF AgreeOn
<1> QED
  BY <1>7, <1>8

(* What a binding writes in the session. *)
LEMMA BindWrites ==
    ASSUME TypeOK, WorkInv, NEW p \in Procs, RecordArtifact(p), NEW a, a = Head(todo[p]).artifact
    PROVE  /\ session'.hash = [session.hash EXCEPT ![a.node] = a.hash]
           /\ session'.deps = [session.deps EXCEPT ![a.node] = a.deps]
           /\ session.stale \subseteq session'.stale
           /\ session'.state = session.state
           /\ session \in Session!Index /\ session' \in Session!Index
           /\ a \in Session!Record
<1>1. session \in Session!Index
  BY DEF TypeOK
<1>2. a \in Session!Record /\ session' = Session!Register(session, a)
  BY BindStep
<1> DEFINE x == Session!Register(session, a)
<1>3. /\ x \in Session!Index /\ x.state = session.state
      /\ x.hash = [session.hash EXCEPT ![a.node] = a.hash]
      /\ x.deps = [session.deps EXCEPT ![a.node] = a.deps]
      /\ session.stale \subseteq x.stale
  BY <1>1, <1>2, RegisterFacts
<1>4. session' = x
  BY <1>2
<1> HIDE DEF x
<1> QED
  BY <1>1, <1>2, <1>3, <1>4

\* The artifact n, and no other, gets the hash h.
HashSet(n, h) ==
    /\ session'.hash[n] = h
    /\ \A m \in ArtifactNodes : m # n => session'.hash[m] = session.hash[m]
DepsSet(n, d) ==
    /\ session'.deps[n] = d
    /\ \A m \in ArtifactNodes : m # n => session'.deps[m] = session.deps[m]

LEMMA BindSets ==
    ASSUME TypeOK, WorkInv, NEW p \in Procs, RecordArtifact(p),
           NEW n, NEW h, NEW d, Head(todo[p]) = Bind(n, h, d)
    PROVE  /\ HashSet(n, h) /\ DepsSet(n, d) /\ n \in ArtifactNodes
           /\ session.stale \subseteq session'.stale
<1> DEFINE a == Head(todo[p]).artifact
<1>1. a.node = n /\ a.hash = h /\ a.deps = d
  BY StepKinds
<1> HIDE DEF a
<1>2. /\ session'.hash = [session.hash EXCEPT ![a.node] = a.hash]
      /\ session'.deps = [session.deps EXCEPT ![a.node] = a.deps]
      /\ session.stale \subseteq session'.stale
      /\ session \in Session!Index
      /\ a \in Session!Record
  BY BindWrites DEF a
<1>3. /\ DOMAIN session.hash = ArtifactNodes /\ DOMAIN session.deps = ArtifactNodes
      /\ n \in ArtifactNodes
  BY <1>1, <1>2 DEF Session!Index, Session!Record
<1> QED
  BY <1>1, <1>2, <1>3 DEF HashSet, DepsSet

LEMMA SingleEnds ==
    ASSUME WorkInv, NEW p \in Procs, Advances(p), Len(todo[p]) = 1
    PROVE  Ends(p) /\ \A q \in Procs : todo'[q] = IF q = p THEN <<>> ELSE todo[q]
  BY DEF Advances, Ends, WorkInv

(* What is bound is what the interview holds. *)
LEMMA BindAgrees ==
    ASSUME TypeOK, WorkInv, KeptInv, NEW p \in Procs, RecordArtifact(p),
           \A g \in Gates : AgreeOn(g)
    PROVE  (\A g \in Gates : AgreeOn(g))'
<1>1. /\ todo[p] \in Plans /\ todo[p] # <<>> /\ Head(todo[p]).do = "bind" /\ Advances(p)
      /\ kept' = kept
  BY BindStep DEF stores
<1> SUFFICES ASSUME NEW g \in Gates  PROVE AgreeOn(g)'
  OBVIOUS
<1>2. CurrentText(g)' = CurrentText(g) /\ Replaced(g)' = Replaced(g)
  BY <1>1 DEF CurrentText, Replaced
<1>3. /\ AnswerNode(g) \in ArtifactNodes /\ GateNode(g) \in ArtifactNodes
  BY NodesIn
<1>4. CASE \E g0 \in Gates, text0 \in Texts : todo[p] \in GateFirst(g0, text0)
  <2>1. PICK g0 \in Gates, text0 \in Texts : todo[p] \in GateFirst(g0, text0)
    BY <1>4
  <2>2. PICK h \in Stamps : Head(todo[p]) = GateBind(g0, h)
    BY <2>1, AnsweringFacts
  <2>3. HashSet(GateNode(g0), h)
    BY <2>2, BindSets DEF GateBind
  <2>4. Len(todo[p]) # 1 /\ Tail(todo[p]) \in AnswerLast(g0, text0)
    BY <2>1, AnsweringFacts
  <2>5. \A q \in Procs : todo'[q] = IF q = p THEN Tail(todo[p]) ELSE todo[q]
    BY <1>1, <2>4 DEF Advances, WorkInv
  <2>6. lock["interview"] = p /\ \A q \in Procs : q # p => todo[q] \notin Gating(g)
    <3>1. lock["interview"] = p
      BY <2>1, OnlyHolder DEF Answering
    <3> QED  BY <3>1, OnlyHolder
  <2>7. \A q \in Procs : todo'[q] \notin Gating(g)
    <3>1. Tail(todo[p]) \notin Gating(g)
      BY <2>4, PlansApart
    <3> QED  BY <2>5, <2>6, <3>1
  <2>8. \A q \in Procs, text \in Texts : todo'[q] \in Answering(g, text) <=> todo[q] \in Answering(g, text)
    <3>1. todo[p] \in Answering(g0, text0) /\ todo'[p] \in Answering(g0, text0)
      BY <2>1, <2>4, <2>5 DEF Answering
    <3>2. \A text \in Texts : todo'[p] \in Answering(g, text) <=> todo[p] \in Answering(g, text)
      BY <3>1, PlansApart
    <3> QED  BY <2>5, <3>2
  <2>9. session'.hash[AnswerNode(g)] = session.hash[AnswerNode(g)]
    BY <1>3, <2>3, NodesDiffer DEF HashSet
  <2>10. CASE g = g0
    <3>1. h # NoHash /\ session'.hash[GateNode(g)] = h
      BY <2>3, <2>10, DiscoveryNodes DEF ArtifactHashes, Stamps, HashSet
    <3>2. todo[p] \in Gating(g)
      BY <2>1, <2>10 DEF Gating
    <3>3. kept.disposition[g] # Open
      BY <3>2 DEF AgreeOn
    <3> QED  BY <1>1, <1>2, <2>7, <2>8, <2>9, <3>1, <3>3 DEF AgreeOn
  <2>11. CASE g # g0
    <3>1. session'.hash[GateNode(g)] = session.hash[GateNode(g)]
      BY <1>3, <2>3, <2>11, NodesDiffer DEF HashSet
    <3>2. todo[p] \notin Gating(g)
      <4>1. todo[p] \in Gating(g0)
        BY <2>1 DEF Gating
      <4> QED  BY <2>11, <4>1, PlansApart
    <3>3. \A q \in Procs : todo[q] \notin Gating(g)
      BY <2>6, <3>2
    <3> QED  BY <1>1, <1>2, <2>7, <2>8, <2>9, <3>1, <3>3 DEF AgreeOn
  <2> QED  BY <2>10, <2>11
<1>5. CASE \E g0 \in Gates, text0 \in Texts : todo[p] \in AnswerLast(g0, text0)
  <2>1. PICK g0 \in Gates, text0 \in Texts : todo[p] \in AnswerLast(g0, text0)
    BY <1>5
  <2>2. PICK asked \in Asked : Head(todo[p]) = AnswerBind(g0, text0, asked)
    BY <2>1, AnsweringFacts
  <2>3. HashSet(AnswerNode(g0), text0)
    BY <2>2, BindSets DEF AnswerBind
  <2>4. \A q \in Procs : todo'[q] = IF q = p THEN <<>> ELSE todo[q]
    <3>1. Len(todo[p]) = 1
      BY <2>1, AnsweringFacts
    <3> QED  BY <1>1, <3>1, SingleEnds
  <2>5. todo[p] \in Answering(g0, text0) /\ lock["interview"] = p
    BY <2>1, OnlyHolder DEF Answering
  <2>6. \A q \in Procs : q # p =>
           todo[q] \notin Gating(g) /\ \A text \in Texts : todo[q] \notin Answering(g, text)
    BY <2>5, OnlyHolder
  <2>7. todo[p] \notin Gating(g)
    BY <2>1, PlansApart
  <2>8. \A q \in Procs : /\ todo'[q] \notin Gating(g) /\ todo[q] \notin Gating(g)
                         /\ \A text \in Texts : todo'[q] \notin Answering(g, text)
    BY <2>4, <2>6, <2>7, PlansApart
  <2>9. session'.hash[GateNode(g)] = session.hash[GateNode(g)]
    BY <1>3, <2>3, NodesDiffer DEF HashSet
  <2>10. CASE g = g0
    <3>1. text0 = CurrentText(g) /\ session'.hash[AnswerNode(g)] = text0
      BY <2>3, <2>5, <2>10 DEF AgreeOn, HashSet
    <3> QED  BY <1>1, <1>2, <2>8, <2>9, <3>1 DEF AgreeOn
  <2>11. CASE g # g0
    <3>1. session'.hash[AnswerNode(g)] = session.hash[AnswerNode(g)]
      BY <1>3, <2>3, <2>11, NodesDiffer DEF HashSet
    <3>2. \A q \in Procs, text \in Texts : todo[q] \notin Answering(g, text)
      BY <2>5, <2>6, <2>11, PlansApart
    <3> QED  BY <1>1, <1>2, <2>8, <2>9, <3>1, <3>2 DEF AgreeOn
  <2> QED  BY <2>10, <2>11
<1>6. CASE \E g0 \in Gates : todo[p] \in GateOnly(g0)
  <2>1. PICK g0 \in Gates : todo[p] \in GateOnly(g0)
    BY <1>6
  <2>2. PICK h \in Stamps : Head(todo[p]) = GateBind(g0, h)
    <3>1. todo[p] \in Gating(g0)
      BY <2>1 DEF Gating
    <3> QED  BY <3>1, GatingFacts
  <2>3. HashSet(GateNode(g0), h)
    BY <2>2, BindSets DEF GateBind
  <2>4. \A q \in Procs : todo'[q] = IF q = p THEN <<>> ELSE todo[q]
    <3>1. Len(todo[p]) = 1
      BY <2>1, SingleFacts
    <3> QED  BY <1>1, <3>1, SingleEnds
  <2>5. todo[p] \in Gating(g0) /\ lock["interview"] = p
    BY <2>1, OnlyHolder DEF Gating
  <2>6. \A q \in Procs : q # p =>
           todo[q] \notin Gating(g) /\ \A text \in Texts : todo[q] \notin Answering(g, text)
    BY <2>5, OnlyHolder
  <2>7. \A text \in Texts : todo[p] \notin Answering(g, text)
    BY <2>1, PlansApart
  <2>8. \A q \in Procs : /\ todo'[q] \notin Gating(g)
                         /\ \A text \in Texts : /\ todo'[q] \notin Answering(g, text)
                                                /\ todo[q] \notin Answering(g, text)
    BY <2>4, <2>6, <2>7, PlansApart
  <2>9. session'.hash[AnswerNode(g)] = session.hash[AnswerNode(g)]
    BY <1>3, <2>3, NodesDiffer DEF HashSet
  <2>10. CASE g = g0
    <3>1. h # NoHash /\ session'.hash[GateNode(g)] = h
      BY <2>3, <2>10, DiscoveryNodes DEF ArtifactHashes, Stamps, HashSet
    <3>2. kept.disposition[g] # Open
      BY <2>5, <2>10 DEF AgreeOn
    <3> QED  BY <1>1, <1>2, <2>8, <2>9, <3>1, <3>2 DEF AgreeOn
  <2>11. CASE g # g0
    <3>1. session'.hash[GateNode(g)] = session.hash[GateNode(g)]
      BY <1>3, <2>3, <2>11, NodesDiffer DEF HashSet
    <3>2. \A q \in Procs : todo[q] \notin Gating(g)
      BY <2>5, <2>6, <2>11, PlansApart
    <3> QED  BY <1>1, <1>2, <2>8, <2>9, <3>1, <3>2 DEF AgreeOn
  <2> QED  BY <2>10, <2>11
<1>7. ASSUME NEW n, NEW h, NEW d, Head(todo[p]) = Bind(n, h, d), Len(todo[p]) = 1,
             n # AnswerNode(g), n # GateNode(g), todo[p] \in AskedOnly \cup ClaimPlans
      PROVE  AgreeOn(g)'
  <2>1. HashSet(n, h)
    BY <1>7, BindSets
  <2>2. \A q \in Procs : todo'[q] = IF q = p THEN <<>> ELSE todo[q]
    BY <1>1, <1>7, SingleEnds
  <2>3. SameWork(g)
    BY <1>7, <2>2, PlansApart DEF SameWork
  <2> QED  BY <1>1, <1>3, <1>7, <2>1, <2>3, AgreeFrame DEF HashSet
<1>8. CASE todo[p] \in AskedOnly
  <2>1. PICK i \in 1..MaxLines, h \in Stamps :
           Len(todo[p]) = 1 /\ Head(todo[p]) = Bind(QuestionNode(i), h, {})
    BY <1>8, SingleFacts
  <2>2. QuestionNode(i) # AnswerNode(g) /\ QuestionNode(i) # GateNode(g)
    BY NodesDiffer
  <2> QED  BY <1>7, <1>8, <2>1, <2>2
<1>9. CASE \E c \in Claims, g0 \in Gates : todo[p] \in Claiming(c, g0)
  <2>1. PICK c \in Claims, g0 \in Gates : todo[p] \in Claiming(c, g0)
    BY <1>9
  <2>2. PICK h \in Stamps : Len(todo[p]) = 1 /\ Head(todo[p]) = Bind(ClaimNode(c), h, {AnswerNode(g0)})
    BY <2>1, ClaimingFacts
  <2>3. ClaimNode(c) # AnswerNode(g) /\ ClaimNode(c) # GateNode(g)
    BY NodesDiffer
  <2>4. todo[p] \in ClaimPlans
    BY <2>1, KindsIn
  <2> QED  BY <1>7, <2>2, <2>3, <2>4
<1>10. CASE \E k \in Conflicts, deps \in ConflictDeps : todo[p] \in Settling(k, deps)
  <2>1. PICK k \in Conflicts, deps \in ConflictDeps : todo[p] \in Settling(k, deps)
    BY <1>10
  <2>2. PICK h \in Stamps : Len(todo[p]) = 1 /\ Head(todo[p]) = Bind(ConflictNode(k), h, deps)
    BY <2>1, SettlingFacts
  <2>3. ConflictNode(k) # AnswerNode(g) /\ ConflictNode(k) # GateNode(g)
    BY NodesDiffer
  <2>4. todo[p] \in ClaimPlans
    BY <2>1, KindsIn
  <2> QED  BY <1>7, <2>2, <2>3, <2>4
<1> QED
  BY <1>1, <1>4, <1>5, <1>6, <1>8, <1>9, <1>10, PlanKinds

LEMMA AgreeStarts == Init => AgreeInv
<1> SUFFICES ASSUME Init, NEW g \in Gates  PROVE AgreeOn(g)
  BY DEF AgreeInv
<1>1. /\ kept = Empty /\ \A p \in Procs : todo[p] = <<>>
      /\ session.hash[AnswerNode(g)] = NoHash /\ session.hash[GateNode(g)] = NoHash
  BY FirstSession, NodesIn, NodesDiffer DEF Init
<1>2. kept.current[g] = None /\ kept.disposition[g] = Open
  BY <1>1 DEF Empty
<1>3. \A p \in Procs, text \in Texts : todo[p] \notin Answering(g, text) /\ todo[p] \notin Gating(g)
  BY <1>1, PlansApart
<1>4. CurrentText(g) = NoHash
  BY <1>2 DEF CurrentText
<1>5. \A p \in Procs : todo[p] \notin Gating(g)
  BY <1>1, PlansApart
<1> QED
  BY <1>1, <1>2, <1>3, <1>4, <1>5 DEF AgreeOn

(* What has come between a line and its binding is not undone. *)
LEMMA StaysDisturbed ==
    ASSUME TypeOK, WorkInv, Next, Undisturbed'
    PROVE  /\ Undisturbed
           /\ \A p \in Procs : ~Kill(p) /\ ~RecordRefused(p)
           /\ ~CloseSession
<1>1. /\ faults' = faults \/ ReviseApprover \/ \E p \in Procs : Kill(p)
      /\ session' = session \/ ReviseApprover \/ CloseSession \/ \E p \in Procs : RecordArtifact(p)
  <2>1. \A p \in Procs : Interview(p) => faults' = faults /\ session' = session
    BY DEF Interview, Ask, AnswerGate, Correct, SetGate, Interviews, Writes
  <2>2. \A p \in Procs : Claim(p) => faults' = faults /\ session' = session
    BY DEF Claim, AddClaim, AddConflict, OpenSession, ResolveConflict, Writes
  <2>3. \A p \in Procs : Rest(p) =>
           faults' = faults /\ (session' = session \/ RecordArtifact(p))
    BY DEF Rest, WriteLine, RecordArtifact, RecordRefused
  <2>4. \A p \in Procs : Approve(p) => faults' = faults /\ session' = session
    BY DEF Approve, VerifyClaims, VerifyGates, Attest
  <2>5. \A p \in Procs : Kill(p) => session' = session
    BY DEF Kill
  <2>6. CloseSession => faults' = faults
    BY DEF CloseSession
  <2> QED
    BY <2>1, <2>2, <2>3, <2>4, <2>5, <2>6 DEF Next
<1>2. faults \in [kills : 0..MaxFaults, revisions : 0..MaxFaults] /\ session \in Session!Index
  BY DEF TypeOK
<1>3. \A p \in Procs : ~Kill(p)
  BY <1>2 DEF Kill, Undisturbed
<1>4. faults'.kills = faults.kills
  BY <1>1, <1>2, <1>3 DEF ReviseApprover
<1>5. ~CloseSession
  BY <1>2 DEF CloseSession, Undisturbed, Session!Index
<1>6. session'.state = session.state
  <2>1. CASE ReviseApprover
    BY <2>1, ReviseEffect
  <2>2. CASE \E p \in Procs : RecordArtifact(p)
    BY <2>2, BindWrites
  <2> QED  BY <1>1, <1>5, <2>1, <2>2
<1>7. Undisturbed
  BY <1>4, <1>6 DEF Undisturbed
<1>8. \A p \in Procs : ~RecordRefused(p)
  BY <1>7 DEF RecordRefused, Undisturbed
<1> QED
  BY <1>3, <1>5, <1>7, <1>8

(* The other actions: what is left of the interview and what is bound of it
   stay as they are. *)
LEMMA ElsewhereAgrees ==
    ASSUME TypeOK, WorkInv, NEW p \in Procs, Claim(p) \/ Approve(p), NEW g \in Gates, AgreeOn(g)
    PROVE  AgreeOn(g)'
<1>1. \E s \in Outside : todo[p] \in Outside /\ todo' = [todo EXCEPT ![p] = s]
  <2>1. CASE AddClaim(p)
    <3>1. PICK s : Lodged(p, s)
      BY <2>1, AddClaimStep
    <3> QED  BY <3>1 DEF Lodged, Outside, Idle
  <2>2. CASE AddConflict(p)
    <3>1. PICK s : Lodged(p, s)
      BY <2>2, AddConflictStep
    <3> QED  BY <3>1 DEF Lodged, Outside, Idle
  <2>3. CASE ResolveConflict(p)
    <3>1. PICK s : Lodged(p, s)
      BY <2>3, ResolveStep
    <3> QED  BY <3>1 DEF Lodged, Outside, Idle
  <2>4. CASE OpenSession(p)
    BY <2>4 DEF OpenSession, Outside, Idle, WorkInv
  <2>5. CASE VerifyClaims(p)
    <3>1. PICK group \in Groups : todo' = [todo EXCEPT ![p] = <<ReadGates(group), Sign(group)>>]
      BY <2>5 DEF VerifyClaims
    <3>2. <<ReadGates(group), Sign(group)>> \in Attesting(group) /\ todo[p] = <<>>
      BY <2>5 DEF Attesting, VerifyClaims, Idle
    <3> QED  BY <3>1, <3>2, KindsIn DEF Outside
  <2>6. CASE VerifyGates(p)
    <3>1. PICK group \in Groups : todo[p] \in AttestPlans /\ Tail(todo[p]) \in Attesting(group)
      BY <2>6, AttestPlan DEF VerifyGates
    <3>2. PICK s \in {Tail(todo[p]), <<>>} : todo' = [todo EXCEPT ![p] = s]
      BY <2>6 DEF VerifyGates
    <3>3. Tail(todo[p]) \in AttestPlans
      BY <3>1, KindsIn
    <3> QED  BY <3>1, <3>2, <3>3 DEF Outside
  <2>7. CASE Attest(p)
    <3>1. todo[p] \in AttestPlans /\ todo' = [todo EXCEPT ![p] = <<>>]
      BY <2>7, AttestPlan DEF Attest, Ends
    <3> QED  BY <3>1 DEF Outside
  <2> QED
    BY <2>1, <2>2, <2>3, <2>4, <2>5, <2>6, <2>7 DEF Claim, Approve
<1>2. SameWork(g)
  BY <1>1, OutsideSame
<1>3. kept' = kept /\ session' = session
  BY DEF Claim, AddClaim, AddConflict, OpenSession, ResolveConflict, Writes,
         Approve, VerifyClaims, VerifyGates, Attest, stores
<1> QED
  BY <1>2, <1>3, AgreeFrame

LEMMA AgreeStep == TranscriptInv /\ AgreeInv /\ [Next]_vars => AgreeInv'
<1> SUFFICES ASSUME TranscriptInv, AgreeInv, [Next]_vars, Undisturbed'
             PROVE  (\A g \in Gates : AgreeOn(g))'
  BY DEF AgreeInv
<1>1. TypeOK /\ WorkInv /\ KeptInv /\ LiveIsReplay
  BY DEF TranscriptInv
<1>2. CASE UNCHANGED vars
  <2>1. Undisturbed /\ kept' = kept /\ session' = session /\ todo' = todo
    BY <1>2 DEF Undisturbed, vars, stores, local
  <2>2. \A g \in Gates : AgreeOn(g) /\ SameWork(g)
    BY <2>1 DEF AgreeInv, SameWork
  <2> QED  BY <2>1, <2>2, AgreeFrame
<1>3. CASE Next
  <2>1. /\ \A g \in Gates : AgreeOn(g)
        /\ \A p \in Procs : ~Kill(p) /\ ~RecordRefused(p)
        /\ ~CloseSession
    BY <1>1, <1>3, StaysDisturbed DEF AgreeInv
  <2>2. CASE \E p \in Procs : Interview(p)
    <3>1. PICK p \in Procs : Interview(p)
      BY <2>2
    <3>2. PICK s :
             /\ Wrote(p, s)
             /\ \/ Askes(s)
                \/ \E g \in Gates, text \in Texts : Records(g, text, s)
                \/ \E g \in Gates, d \in Dispositions : Settles(g, d, s)
      BY <1>1, <3>1, InterviewWrote
    <3> QED  BY <1>1, <2>1, <3>2, WroteAgrees
  <2>3. CASE \E p \in Procs : WriteLine(p)
    BY <1>1, <2>1, <2>3, LineAgrees
  <2>4. CASE \E p \in Procs : RecordArtifact(p)
    BY <1>1, <2>1, <2>4, BindAgrees
  <2>5. CASE \E p \in Procs : Claim(p) \/ Approve(p)
    BY <1>1, <2>1, <2>5, ElsewhereAgrees
  <2>6. CASE ReviseApprover
    <3>1. kept' = kept /\ todo' = todo
      BY <2>6 DEF ReviseApprover, stores, local
    <3>2. \A n \in ArtifactNodes : n # Approver => session'.hash[n] = session.hash[n]
      <4>1. PICK a : session'.hash = [session.hash EXCEPT ![Approver] = a]
        BY <1>1, <2>6, ReviseEffect
      <4>2. DOMAIN session.hash = ArtifactNodes
        BY <1>1 DEF TypeOK, Session!Index
      <4> QED  BY <4>1, <4>2
    <3> SUFFICES ASSUME NEW g \in Gates  PROVE AgreeOn(g)'
      OBVIOUS
    <3>3. /\ session'.hash[AnswerNode(g)] = session.hash[AnswerNode(g)]
          /\ session'.hash[GateNode(g)] = session.hash[GateNode(g)]
      BY <3>2, NodesIn, NodesDiffer
    <3>4. SameWork(g) /\ AgreeOn(g)
      BY <2>1, <3>1 DEF SameWork
    <3> QED  BY <3>1, <3>3, <3>4, AgreeFrame
  <2> QED
    BY <1>3, <2>1, <2>2, <2>3, <2>4, <2>5, <2>6 DEF Next, Rest
<1> QED
  BY <1>2, <1>3

LEMMA AgreeAlways == Spec => []AgreeInv
  BY TranscriptAlways, AgreeStarts, AgreeStep, PTL DEF Spec

(* Unless a process was killed or the session closed between a line and its
   binding: whoever finds the interview unlocked finds the current answer of every
   gate bound in the session, with its text, and every disposed gate. *)
THEOREM JournalsAlwaysAgree == Spec => []JournalsAgree
<1>1. TranscriptInv /\ AgreeInv => JournalsAgree
  <2> SUFFICES ASSUME TranscriptInv, AgreeInv, Undisturbed, lock["interview"] = NoProc,
                      NEW g \in Gates
               PROVE  /\ session.hash[AnswerNode(g)] = CurrentText(g)
                      /\ (session.hash[GateNode(g)] = NoHash) <=> (kept.disposition[g] = Open)
    BY DEF JournalsAgree, CurrentText
  <2>1. /\ \A q \in Procs, text \in Texts : todo[q] \notin Answering(g, text)
        /\ \A q \in Procs : todo[q] \notin Gating(g)
    BY NobodyAtWork DEF TranscriptInv
  <2> QED  BY <2>1 DEF AgreeInv, AgreeOn
<1> QED
  BY <1>1, TranscriptAlways, AgreeAlways, PTL

-----------------------------------------------------------------------------
(* The claims and what the session has bound of them.                       *)

\* Commands that have nothing of the claims left to do.
ClaimsOutside == {<<>>} \cup InterviewPlans \cup AttestPlans

NodeSame(n) ==
    session'.hash[n] = session.hash[n] /\ session'.deps[n] = session.deps[n]

\* The bindings of the claims, of the conflicts and of the approver stay.
ClaimsKept ==
    /\ \A c \in Claims : NodeSame(ClaimNode(c))
    /\ \A k \in Conflicts : NodeSame(ConflictNode(k))
    /\ UNCHANGED <<claims, conflicts>>

\* No process but p does anything, and p has nothing to do with the claims.
ClaimsQuiet(p) ==
    /\ todo[p] \in ClaimsOutside /\ todo'[p] \in ClaimsOutside
    /\ \A q \in Procs : q # p => todo'[q] = todo[q] /\ seen'[q] = seen[q]

LEMMA OutsideClaims ==
    ASSUME NEW s \in ClaimsOutside
    PROVE  /\ \A c, g : s \notin Claiming(c, g)
           /\ \A k, deps : s \notin Settling(k, deps)
  BY PlansApart DEF ClaimsOutside

(* Only who has the claims' lock has something of them left to do. *)
LEMMA ClaimHolder ==
    ASSUME WorkInv, NEW q \in Procs
    PROVE  /\ \A c \in Claims, g \in Gates : todo[q] \in Claiming(c, g) => lock["claims"] = q
           /\ \A k \in Conflicts, deps \in ConflictDeps :
                 todo[q] \in Settling(k, deps) => lock["claims"] = q
  BY KindsIn DEF WorkInv

LEMMA NobodyClaims ==
    ASSUME WorkInv, lock["claims"] = NoProc, NEW q \in Procs
    PROVE  /\ \A c \in Claims, g \in Gates : todo[q] \notin Claiming(c, g)
           /\ \A k \in Conflicts, deps \in ConflictDeps : todo[q] \notin Settling(k, deps)
  BY ClaimHolder, DiscoveryGroups

(* The interview, attestations and the opening of a session leave the claims. *)
LEMMA QuietStep ==
    ASSUME TypeOK, WorkInv, KeptInv, LiveIsReplay, NEW p \in Procs,
           Interview(p) \/ WriteLine(p) \/ Approve(p) \/ OpenSession(p)
    PROVE  /\ ClaimsQuiet(p) /\ session' = session
           /\ UNCHANGED <<claims, conflicts, overtaken>>
<1>1. DOMAIN todo = Procs /\ DOMAIN seen = Procs
  BY DEF TypeOK, WorkInv
<1>2. CASE Interview(p)
  <2>1. PICK s : Wrote(p, s)
    BY <1>2, InterviewWrote
  <2> QED  BY <1>1, <2>1 DEF Wrote, ClaimsQuiet, ClaimsOutside, Idle
<1>3. CASE WriteLine(p)
  <2>1. PICK g \in Gates, text \in Texts :
           /\ todo[p] \in Disposing(g, text)
           /\ todo' = [todo EXCEPT ![p] = Tail(todo[p])] /\ Tail(todo[p]) \in GateFirst(g, text)
    BY <1>3, WriteLineStep
  <2>2. todo[p] \in InterviewPlans /\ Tail(todo[p]) \in InterviewPlans
    BY <2>1, KindsIn DEF Answering
  <2> QED  BY <1>1, <1>3, <2>1, <2>2 DEF WriteLine, ClaimsQuiet, ClaimsOutside
<1>4. CASE VerifyClaims(p)
  <2>1. PICK group \in Groups : todo' = [todo EXCEPT ![p] = <<ReadGates(group), Sign(group)>>]
    BY <1>4 DEF VerifyClaims
  <2>2. <<ReadGates(group), Sign(group)>> \in Attesting(group) /\ todo[p] = <<>>
    BY <1>4 DEF Attesting, VerifyClaims, Idle
  <2>3. todo'[p] \in AttestPlans
    BY <1>1, <2>1, <2>2, KindsIn
  <2> QED  BY <1>1, <1>4, <2>1, <2>2, <2>3 DEF VerifyClaims, ClaimsQuiet, ClaimsOutside, stores
<1>5. CASE VerifyGates(p)
  <2>1. PICK group \in Groups : todo[p] \in AttestPlans /\ Tail(todo[p]) \in Attesting(group)
    BY <1>5, AttestPlan DEF VerifyGates
  <2>2. PICK s \in {Tail(todo[p]), <<>>} : todo' = [todo EXCEPT ![p] = s]
    BY <1>5 DEF VerifyGates
  <2>3. todo'[p] \in {<<>>} \cup AttestPlans
    BY <1>1, <2>1, <2>2, KindsIn
  <2> QED  BY <1>1, <1>5, <2>1, <2>2, <2>3 DEF VerifyGates, ClaimsQuiet, ClaimsOutside, stores
<1>6. CASE Attest(p)
  <2>1. todo[p] \in AttestPlans
    BY <1>6, AttestPlan DEF Attest
  <2> QED  BY <1>1, <1>6, <2>1 DEF Attest, Ends, ClaimsQuiet, ClaimsOutside
<1>7. CASE OpenSession(p)
  BY <1>1, <1>7 DEF OpenSession, Idle, ClaimsQuiet, ClaimsOutside, stores
<1> QED
  BY <1>2, <1>3, <1>4, <1>5, <1>6, <1>7 DEF Approve

(* A binding of the interview leaves the claims. *)
LEMMA BindElsewhere ==
    ASSUME TypeOK, WorkInv, NEW p \in Procs, RecordArtifact(p), todo[p] \in InterviewPlans
    PROVE  ClaimsQuiet(p) /\ ClaimsKept /\ NodeSame(Approver)
<1>1. /\ todo[p] \in Plans /\ todo[p] # <<>> /\ Head(todo[p]).do = "bind" /\ Advances(p)
      /\ UNCHANGED <<claims, conflicts>>
  BY BindStep DEF stores
<1>2. DOMAIN todo = Procs /\ DOMAIN seen = Procs
  BY DEF TypeOK, WorkInv
<1>3. ClaimsQuiet(p)
  <2>1. CASE Len(todo[p]) = 1 /\ Ends(p)
    BY <1>2, <2>1 DEF Ends, ClaimsQuiet, ClaimsOutside
  <2>2. CASE Len(todo[p]) # 1 /\ todo' = [todo EXCEPT ![p] = Tail(@)] /\ UNCHANGED <<view, seen, lock>>
    <3>1. PICK g \in Gates, text \in Texts : Tail(todo[p]) \in AnswerLast(g, text)
      BY <1>1, <2>2, BindGoesOn
    <3>2. Tail(todo[p]) \in InterviewPlans
      BY <3>1, KindsIn DEF Answering
    <3> QED  BY <1>2, <2>2, <3>2 DEF ClaimsQuiet, ClaimsOutside
  <2> QED  BY <1>1, <2>1, <2>2 DEF Advances
<1>4. \E n, h, d : /\ Head(todo[p]) = Bind(n, h, d)
                   /\ \E x : n \in {QuestionNode(x), AnswerNode(x), GateNode(x)}
  <2>1. CASE \E g \in Gates, text \in Texts : todo[p] \in AnswerLast(g, text)
    <3>1. PICK g \in Gates, text \in Texts : todo[p] \in AnswerLast(g, text)
      BY <2>1
    <3>2. PICK asked \in Asked : Head(todo[p]) = AnswerBind(g, text, asked)
      BY <3>1, AnsweringFacts
    <3> QED  BY <3>2 DEF AnswerBind
  <2>2. CASE \E g \in Gates, text \in Texts : todo[p] \in GateFirst(g, text)
    <3>1. PICK g \in Gates, text \in Texts : todo[p] \in GateFirst(g, text)
      BY <2>2
    <3>2. PICK h \in Stamps : Head(todo[p]) = GateBind(g, h)
      BY <3>1, AnsweringFacts
    <3> QED  BY <3>2 DEF GateBind
  <2>3. CASE \E g \in Gates : todo[p] \in GateOnly(g)
    <3>1. PICK g \in Gates : todo[p] \in Gating(g)
      BY <2>3 DEF Gating
    <3>2. PICK h \in Stamps : Head(todo[p]) = GateBind(g, h)
      BY <3>1, GatingFacts
    <3> QED  BY <3>2 DEF GateBind
  <2>4. CASE todo[p] \in AskedOnly
    BY <2>4, SingleFacts
  <2>5. ~(\E c \in Claims, g \in Gates : todo[p] \in Claiming(c, g))
        /\ ~(\E k \in Conflicts, deps \in ConflictDeps : todo[p] \in Settling(k, deps))
    BY PlansApart
  <2> QED  BY <1>1, <2>1, <2>2, <2>3, <2>4, <2>5, PlanKinds
<1>5. PICK n, h, d : /\ Head(todo[p]) = Bind(n, h, d)
                     /\ \E x : n \in {QuestionNode(x), AnswerNode(x), GateNode(x)}
  BY <1>4
<1>6. HashSet(n, h) /\ DepsSet(n, d)
  BY <1>5, BindSets
<1>7. /\ n # Approver /\ \A c : n # ClaimNode(c)
      /\ \A k : n # ConflictNode(k)
  BY <1>5, NodesDiffer
<1>8. \A m \in ArtifactNodes : m # n => NodeSame(m)
  BY <1>6 DEF HashSet, DepsSet, NodeSame
<1> QED
  BY <1>1, <1>3, <1>7, <1>8, NodesIn DEF ClaimsKept

(* Whoever binds a claim or a conflict has nothing left to do. *)
LEMMA BindClaims ==
    ASSUME TypeOK, WorkInv, NEW p \in Procs, RecordArtifact(p), todo[p] \notin InterviewPlans
    PROVE  /\ \/ \E c \in Claims, g \in Gates : \E h \in Stamps :
                    /\ todo[p] \in Claiming(c, g)
                    /\ HashSet(ClaimNode(c), h) /\ DepsSet(ClaimNode(c), {AnswerNode(g)})
              \/ \E k \in Conflicts, deps \in ConflictDeps : \E h \in Stamps :
                    /\ todo[p] \in Settling(k, deps)
                    /\ HashSet(ConflictNode(k), h) /\ DepsSet(ConflictNode(k), deps)
           /\ \A q \in Procs : todo'[q] = IF q = p THEN <<>> ELSE todo[q]
           /\ \A q \in Procs : q # p => seen'[q] = seen[q]
           /\ lock["claims"] = p
           /\ session.stale \subseteq session'.stale
           /\ UNCHANGED <<claims, conflicts>>
<1>1. /\ todo[p] \in Plans /\ todo[p] # <<>> /\ Head(todo[p]).do = "bind" /\ Advances(p)
      /\ UNCHANGED <<claims, conflicts>>
  BY BindStep DEF stores
<1>2. ~(\E g \in Gates, text \in Texts : todo[p] \in GateFirst(g, text) \cup AnswerLast(g, text))
      /\ ~(\E g \in Gates : todo[p] \in GateOnly(g)) /\ todo[p] \notin AskedOnly
  BY KindsIn DEF Answering, Gating
<1>3. ASSUME Len(todo[p]) = 1
      PROVE  /\ \A q \in Procs : todo'[q] = IF q = p THEN <<>> ELSE todo[q]
             /\ \A q \in Procs : q # p => seen'[q] = seen[q]
  BY <1>1, <1>3, SingleEnds DEF Ends, TypeOK
<1>4. CASE \E c \in Claims, g \in Gates : todo[p] \in Claiming(c, g)
  <2>1. PICK c \in Claims, g \in Gates : todo[p] \in Claiming(c, g)
    BY <1>4
  <2>2. PICK h \in Stamps : Len(todo[p]) = 1 /\ Head(todo[p]) = Bind(ClaimNode(c), h, {AnswerNode(g)})
    BY <2>1, ClaimingFacts
  <2>3. /\ HashSet(ClaimNode(c), h) /\ DepsSet(ClaimNode(c), {AnswerNode(g)})
        /\ session.stale \subseteq session'.stale
    BY <2>2, BindSets
  <2>4. lock["claims"] = p
    BY <2>1, ClaimHolder
  <2> QED  BY <1>1, <1>3, <2>1, <2>2, <2>3, <2>4
<1>5. CASE \E k \in Conflicts, deps \in ConflictDeps : todo[p] \in Settling(k, deps)
  <2>1. PICK k \in Conflicts, deps \in ConflictDeps : todo[p] \in Settling(k, deps)
    BY <1>5
  <2>2. PICK h \in Stamps : Len(todo[p]) = 1 /\ Head(todo[p]) = Bind(ConflictNode(k), h, deps)
    BY <2>1, SettlingFacts
  <2>3. /\ HashSet(ConflictNode(k), h) /\ DepsSet(ConflictNode(k), deps)
        /\ session.stale \subseteq session'.stale
    BY <2>2, BindSets
  <2>4. lock["claims"] = p
    BY <2>1, ClaimHolder
  <2> QED  BY <1>1, <1>3, <2>1, <2>2, <2>3, <2>4
<1> QED
  BY <1>1, <1>2, <1>4, <1>5, PlanKinds

LEMMA ClaimFrame ==
    ASSUME NEW c \in Claims, ClaimDerived(c), NodeSame(ClaimNode(c)), claims'[c] = claims[c],
           \A q \in Procs, g \in Gates : todo'[q] \in Claiming(c, g) => todo[q] \in Claiming(c, g)
    PROVE  ClaimDerived(c)'
  BY DEF ClaimDerived, NodeSame

LEMMA ConflictFrame ==
    ASSUME NEW k \in Conflicts, ConflictDerived(k), NodeSame(ConflictNode(k)),
           conflicts'[k] = conflicts[k],
           \A q \in Procs, deps \in ConflictDeps :
              todo'[q] \in Settling(k, deps) => todo[q] \in Settling(k, deps)
    PROVE  ConflictDerived(k)'
  BY DEF ConflictDerived, NodeSame

\* Nobody has more to do with the claims than before.
ClaimsLess ==
    \A q \in Procs : todo'[q] = todo[q] \/ todo'[q] \in ClaimsOutside

LEMMA DerivedFrame ==
    ASSUME DerivedInv, ClaimsKept, ClaimsLess
    PROVE  DerivedInv'
<1>1. ASSUME NEW c \in Claims  PROVE ClaimDerived(c)'
  <2>1. ClaimDerived(c) /\ NodeSame(ClaimNode(c)) /\ claims'[c] = claims[c]
    BY DEF DerivedInv, ClaimsKept
  <2>2. \A q \in Procs, g \in Gates : todo'[q] \in Claiming(c, g) => todo[q] \in Claiming(c, g)
    BY OutsideClaims DEF ClaimsLess
  <2> QED  BY <2>1, <2>2, ClaimFrame
<1>2. ASSUME NEW k \in Conflicts  PROVE ConflictDerived(k)'
  <2>1. ConflictDerived(k) /\ NodeSame(ConflictNode(k)) /\ conflicts'[k] = conflicts[k]
    BY DEF DerivedInv, ClaimsKept
  <2>2. \A q \in Procs, deps \in ConflictDeps :
           todo'[q] \in Settling(k, deps) => todo[q] \in Settling(k, deps)
    BY OutsideClaims DEF ClaimsLess
  <2> QED  BY <2>1, <2>2, ConflictFrame
<1> QED
  BY <1>1, <1>2 DEF DerivedInv

LEMMA QuietLess ==
    ASSUME NEW p \in Procs, ClaimsQuiet(p)
    PROVE  ClaimsLess
  BY DEF ClaimsQuiet, ClaimsLess

(* The session's other users, and what ends a command, leave the claims. *)
LEMMA OthersKeepClaims ==
    ASSUME TypeOK, WorkInv,
           ReviseApprover \/ CloseSession \/ \E p \in Procs : Kill(p) \/ RecordRefused(p)
    PROVE  ClaimsKept /\ ClaimsLess
<1>1. CASE ReviseApprover
  <2>1. PICK a : /\ session'.hash = [session.hash EXCEPT ![Approver] = a]
                 /\ session'.deps = [session.deps EXCEPT ![Approver] = {}]
    BY <1>1, ReviseEffect
  <2>2. DOMAIN session.hash = ArtifactNodes /\ DOMAIN session.deps = ArtifactNodes
    BY DEF TypeOK, Session!Index
  <2>3. \A n \in ArtifactNodes : n # Approver => NodeSame(n)
    BY <2>1, <2>2 DEF NodeSame
  <2>4. UNCHANGED <<claims, conflicts, todo>>
    BY <1>1 DEF ReviseApprover, stores, local
  <2>5. (\A c \in Claims : NodeSame(ClaimNode(c))) /\ (\A k \in Conflicts : NodeSame(ConflictNode(k)))
    BY <2>3, NodesIn, NodesDiffer
  <2> QED  BY <2>4, <2>5 DEF ClaimsKept, ClaimsLess
<1>2. CASE CloseSession
  <2>1. session'.hash = session.hash /\ session'.deps = session.deps
        /\ UNCHANGED <<claims, conflicts, todo>>
    BY <1>2 DEF CloseSession, stores, local, TypeOK, Session!Index
  <2> QED  BY <2>1 DEF ClaimsKept, ClaimsLess, NodeSame
<1>3. CASE \E p \in Procs : Kill(p) \/ RecordRefused(p)
  <2>1. PICK p \in Procs : /\ todo' = [todo EXCEPT ![p] = <<>>]
                           /\ UNCHANGED <<claims, conflicts, session>>
    BY <1>3 DEF Kill, RecordRefused, Ends, stores
  <2> QED
    BY <2>1 DEF ClaimsKept, ClaimsLess, NodeSame, ClaimsOutside, WorkInv
<1> QED
  BY <1>1, <1>2, <1>3

(* A claim is recorded before it is bound. *)
LEMMA AddClaimDerived ==
    ASSUME TypeOK, WorkInv, DerivedInv, NEW p \in Procs, AddClaim(p)
    PROVE  DerivedInv'
<1>0. PICK c0 \in Claims, g0 \in Gates : \E s \in Claiming(c0, g0) :
         /\ Lodged(p, s) /\ seen[p] = NoOne /\ claims[c0] = NoOne
         /\ claims' = [claims EXCEPT ![c0] = g0] /\ UNCHANGED conflicts
  BY AddClaimStep
<1>1. PICK s \in Claiming(c0, g0) :
         /\ Lodged(p, s) /\ claims[c0] = NoOne
         /\ claims' = [claims EXCEPT ![c0] = g0] /\ UNCHANGED conflicts
  BY <1>0
<1>2. /\ \A q \in Procs : todo'[q] = IF q = p THEN s ELSE todo[q]
      /\ session' = session /\ lock["claims"] = NoProc
      /\ \A c \in Claims : claims'[c] = IF c = c0 THEN g0 ELSE claims[c]
  BY <1>1 DEF Lodged, WorkInv, TypeOK
<1>3. ASSUME NEW c \in Claims  PROVE ClaimDerived(c)'
  <2>1. CASE c = c0
    <3>1. session'.hash[ClaimNode(c)] = NoHash
      BY <1>1, <1>2, <2>1 DEF DerivedInv, ClaimDerived
    <3>2. \A q \in Procs, g \in Gates : todo'[q] \in Claiming(c, g) => g = g0
      BY <1>1, <1>2, <2>1, NobodyClaims, PlansApart
    <3> QED  BY <1>2, <2>1, <3>1, <3>2 DEF ClaimDerived
  <2>2. CASE c # c0
    <3>1. ClaimDerived(c) /\ NodeSame(ClaimNode(c)) /\ claims'[c] = claims[c]
      BY <1>2, <2>2 DEF DerivedInv, NodeSame
    <3>2. \A q \in Procs, g \in Gates : todo'[q] \in Claiming(c, g) => todo[q] \in Claiming(c, g)
      BY <1>1, <1>2, <2>2, PlansApart
    <3> QED  BY <3>1, <3>2, ClaimFrame
  <2> QED  BY <2>1, <2>2
<1>4. ASSUME NEW k \in Conflicts  PROVE ConflictDerived(k)'
  <2>1. ConflictDerived(k) /\ NodeSame(ConflictNode(k)) /\ conflicts'[k] = conflicts[k]
    BY <1>1, <1>2 DEF DerivedInv, NodeSame
  <2>2. \A q \in Procs, deps \in ConflictDeps :
           todo'[q] \in Settling(k, deps) => todo[q] \in Settling(k, deps)
    BY <1>1, <1>2, PlansApart
  <2> QED  BY <2>1, <2>2, ConflictFrame
<1> QED
  BY <1>3, <1>4 DEF DerivedInv

(* A conflict depends on its claims, resolved or not. *)
LEMMA SettlesDerived ==
    ASSUME TypeOK, WorkInv, DerivedInv, NEW p \in Procs, NEW k0 \in Conflicts,
           NEW deps0 \in ConflictDeps, NEW s \in Settling(k0, deps0), Lodged(p, s), UNCHANGED claims,
           NEW x \in Conflict, conflicts' = [conflicts EXCEPT ![k0] = x],
           {ClaimNode(c) : c \in x.claims} \subseteq deps0,
           conflicts[k0] = NoConflict \/ x.claims = conflicts[k0].claims, x # NoConflict
    PROVE  DerivedInv'
<1>1. /\ \A q \in Procs : todo'[q] = IF q = p THEN s ELSE todo[q]
      /\ session' = session /\ lock["claims"] = NoProc
      /\ \A k \in Conflicts : conflicts'[k] = IF k = k0 THEN x ELSE conflicts[k]
  BY DEF Lodged, WorkInv, TypeOK
<1>2. ASSUME NEW k \in Conflicts  PROVE ConflictDerived(k)'
  <2>1. CASE k = k0
    <3>1. session'.hash[ConflictNode(k)] # NoHash =>
             {ClaimNode(c) : c \in conflicts'[k].claims} \subseteq session'.deps[ConflictNode(k)]
      BY <1>1, <2>1 DEF DerivedInv, ConflictDerived
    <3>2. \A q \in Procs, deps \in ConflictDeps : todo'[q] \in Settling(k, deps) => deps = deps0
      BY <1>1, <2>1, NobodyClaims, PlansApart
    <3>3. conflicts'[k] # NoConflict /\ {ClaimNode(c) : c \in conflicts'[k].claims} \subseteq deps0
      BY <1>1, <2>1
    <3> QED  BY <3>1, <3>2, <3>3 DEF ConflictDerived
  <2>2. CASE k # k0
    <3>1. ConflictDerived(k) /\ NodeSame(ConflictNode(k)) /\ conflicts'[k] = conflicts[k]
      BY <1>1, <2>2 DEF DerivedInv, NodeSame
    <3>2. \A q \in Procs, deps \in ConflictDeps :
             todo'[q] \in Settling(k, deps) => todo[q] \in Settling(k, deps)
      BY <1>1, <2>2, PlansApart
    <3> QED  BY <3>1, <3>2, ConflictFrame
  <2> QED  BY <2>1, <2>2
<1>3. ASSUME NEW c \in Claims  PROVE ClaimDerived(c)'
  <2>1. ClaimDerived(c) /\ NodeSame(ClaimNode(c)) /\ claims'[c] = claims[c]
    BY <1>1 DEF DerivedInv, NodeSame
  <2>2. \A q \in Procs, g \in Gates : todo'[q] \in Claiming(c, g) => todo[q] \in Claiming(c, g)
    <3>1. \A g : s \notin Claiming(c, g)
      BY PlansApart
    <3> QED  BY <1>1, <3>1
  <2> QED  BY <2>1, <2>2, ClaimFrame
<1> QED
  BY <1>2, <1>3 DEF DerivedInv

(* Who binds a claim or a conflict binds it with what it was derived from. *)
LEMMA BindDerived ==
    ASSUME TypeOK, WorkInv, DerivedInv, NEW p \in Procs, RecordArtifact(p),
           todo[p] \notin InterviewPlans
    PROVE  DerivedInv'
<1>1. /\ \A q \in Procs : todo'[q] = IF q = p THEN <<>> ELSE todo[q]
      /\ UNCHANGED <<claims, conflicts>>
  BY BindClaims
<1>2. ClaimsLess
  BY <1>1 DEF ClaimsLess, ClaimsOutside
<1>3. \A c \in Claims : \A q \in Procs, g \in Gates :
         todo'[q] \in Claiming(c, g) => todo[q] \in Claiming(c, g)
  BY <1>2, OutsideClaims DEF ClaimsLess
<1>4. \A k \in Conflicts : \A q \in Procs, deps \in ConflictDeps :
         todo'[q] \in Settling(k, deps) => todo[q] \in Settling(k, deps)
  BY <1>2, OutsideClaims DEF ClaimsLess
<1>5. CASE \E c \in Claims, g \in Gates : \E h \in Stamps :
              /\ todo[p] \in Claiming(c, g)
              /\ HashSet(ClaimNode(c), h) /\ DepsSet(ClaimNode(c), {AnswerNode(g)})
  <2>1. PICK c0 \in Claims, g0 \in Gates, h0 \in Stamps :
           /\ todo[p] \in Claiming(c0, g0)
           /\ HashSet(ClaimNode(c0), h0) /\ DepsSet(ClaimNode(c0), {AnswerNode(g0)})
    BY <1>5
  <2>2. ASSUME NEW c \in Claims  PROVE ClaimDerived(c)'
    <3>1. CASE c = c0
      <4>1. claims[c] = g0 /\ g0 # NoOne
        BY <2>1, <3>1, DiscoveryGroups DEF DerivedInv, ClaimDerived
      <4>2. session'.deps[ClaimNode(c)] = {AnswerNode(g0)}
        BY <2>1, <3>1 DEF DepsSet
      <4>3. \A q \in Procs, g \in Gates : todo'[q] \in Claiming(c, g) => claims[c] = g
        BY <1>3 DEF DerivedInv, ClaimDerived
      <4> QED  BY <1>1, <4>1, <4>2, <4>3 DEF ClaimDerived
    <3>2. CASE c # c0
      <4>1. ClaimNode(c) \in ArtifactNodes /\ ClaimNode(c) # ClaimNode(c0)
        BY <3>2, NodesIn, NodesDiffer
      <4>2. NodeSame(ClaimNode(c)) /\ ClaimDerived(c) /\ claims'[c] = claims[c]
        BY <1>1, <2>1, <4>1 DEF DerivedInv, HashSet, DepsSet, NodeSame
      <4> QED  BY <1>3, <4>2, ClaimFrame
    <3> QED  BY <3>1, <3>2
  <2>3. ASSUME NEW k \in Conflicts  PROVE ConflictDerived(k)'
    <3>1. ConflictNode(k) \in ArtifactNodes /\ ConflictNode(k) # ClaimNode(c0)
      BY NodesIn, NodesDiffer
    <3>2. NodeSame(ConflictNode(k)) /\ ConflictDerived(k) /\ conflicts'[k] = conflicts[k]
      BY <1>1, <2>1, <3>1 DEF DerivedInv, HashSet, DepsSet, NodeSame
    <3> QED  BY <1>4, <3>2, ConflictFrame
  <2> QED  BY <2>2, <2>3 DEF DerivedInv
<1>6. CASE \E k \in Conflicts, deps \in ConflictDeps : \E h \in Stamps :
              /\ todo[p] \in Settling(k, deps)
              /\ HashSet(ConflictNode(k), h) /\ DepsSet(ConflictNode(k), deps)
  <2>1. PICK k0 \in Conflicts, deps0 \in ConflictDeps, h0 \in Stamps :
           /\ todo[p] \in Settling(k0, deps0)
           /\ HashSet(ConflictNode(k0), h0) /\ DepsSet(ConflictNode(k0), deps0)
    BY <1>6
  <2>2. ASSUME NEW k \in Conflicts  PROVE ConflictDerived(k)'
    <3>1. CASE k = k0
      <4>1. /\ conflicts[k] # NoConflict
            /\ {ClaimNode(c) : c \in conflicts[k].claims} \subseteq deps0
        BY <2>1, <3>1 DEF DerivedInv, ConflictDerived
      <4>2. session'.deps[ConflictNode(k)] = deps0
        BY <2>1, <3>1 DEF DepsSet
      <4>3. \A q \in Procs, deps \in ConflictDeps : todo'[q] \in Settling(k, deps) =>
               {ClaimNode(c) : c \in conflicts[k].claims} \subseteq deps
        BY <1>4 DEF DerivedInv, ConflictDerived
      <4> QED  BY <1>1, <4>1, <4>2, <4>3 DEF ConflictDerived
    <3>2. CASE k # k0
      <4>1. ConflictNode(k) \in ArtifactNodes /\ ConflictNode(k) # ConflictNode(k0)
        BY <3>2, NodesIn, NodesDiffer
      <4>2. NodeSame(ConflictNode(k)) /\ ConflictDerived(k) /\ conflicts'[k] = conflicts[k]
        BY <1>1, <2>1, <4>1 DEF DerivedInv, HashSet, DepsSet, NodeSame
      <4> QED  BY <1>4, <4>2, ConflictFrame
    <3> QED  BY <3>1, <3>2
  <2>3. ASSUME NEW c \in Claims  PROVE ClaimDerived(c)'
    <3>1. ClaimNode(c) \in ArtifactNodes /\ ClaimNode(c) # ConflictNode(k0)
      BY NodesIn, NodesDiffer
    <3>2. NodeSame(ClaimNode(c)) /\ ClaimDerived(c) /\ claims'[c] = claims[c]
      BY <1>1, <2>1, <3>1 DEF DerivedInv, HashSet, DepsSet, NodeSame
    <3> QED  BY <1>3, <3>2, ClaimFrame
  <2> QED  BY <2>2, <2>3 DEF DerivedInv
<1> QED
  BY <1>5, <1>6, BindClaims

LEMMA DerivedStarts == Init => DerivedInv
<1> SUFFICES ASSUME Init  PROVE DerivedInv
  OBVIOUS
<1>1. /\ \A c \in Claims : session.hash[ClaimNode(c)] = NoHash
      /\ \A k \in Conflicts : session.hash[ConflictNode(k)] = NoHash
  BY FirstSession, NodesIn, NodesDiffer
<1>2. \A p \in Procs : todo[p] \in ClaimsOutside
  BY DEF Init, ClaimsOutside
<1> QED
  BY <1>1, <1>2, OutsideClaims DEF DerivedInv, ClaimDerived, ConflictDerived

LEMMA DerivedStep == TranscriptInv /\ DerivedInv /\ [Next]_vars => DerivedInv'
<1> SUFFICES ASSUME TranscriptInv, DerivedInv, [Next]_vars  PROVE DerivedInv'
  OBVIOUS
<1>1. TypeOK /\ WorkInv /\ KeptInv /\ LiveIsReplay
  BY DEF TranscriptInv
<1>2. CASE UNCHANGED vars
  <2>1. ClaimsKept /\ ClaimsLess
    BY <1>2 DEF vars, stores, local, ClaimsKept, ClaimsLess, NodeSame
  <2> QED  BY <2>1, DerivedFrame
<1>3. CASE \E p \in Procs : Interview(p) \/ WriteLine(p) \/ Approve(p) \/ OpenSession(p)
  <2>1. PICK p \in Procs : ClaimsQuiet(p) /\ session' = session /\ UNCHANGED <<claims, conflicts>>
    BY <1>1, <1>3, QuietStep
  <2>2. ClaimsKept /\ ClaimsLess
    BY <2>1, QuietLess DEF ClaimsKept, NodeSame
  <2> QED  BY <2>2, DerivedFrame
<1>4. CASE ReviseApprover \/ CloseSession \/ \E p \in Procs : Kill(p) \/ RecordRefused(p)
  <2>1. ClaimsKept /\ ClaimsLess
    BY <1>1, <1>4, OthersKeepClaims
  <2> QED  BY <2>1, DerivedFrame
<1>5. CASE \E p \in Procs : RecordArtifact(p)
  <2>1. PICK p \in Procs : RecordArtifact(p)
    BY <1>5
  <2>2. CASE todo[p] \in InterviewPlans
    <3>1. ClaimsKept /\ ClaimsLess
      BY <1>1, <2>1, <2>2, BindElsewhere, QuietLess
    <3> QED  BY <3>1, DerivedFrame
  <2>3. CASE todo[p] \notin InterviewPlans
    BY <1>1, <2>1, <2>3, BindDerived
  <2> QED  BY <2>2, <2>3
<1>6. CASE \E p \in Procs : AddClaim(p)
  BY <1>1, <1>6, AddClaimDerived
<1>7. CASE \E p \in Procs : AddConflict(p)
  <2>1. PICK p \in Procs : AddConflict(p)
    BY <1>7
  <2>2. PICK k \in Conflicts, involved \in SUBSET Claims, groups \in SUBSET Groups :
           \E s \in Settling(k, {ClaimNode(c) : c \in involved}) :
              /\ Lodged(p, s) /\ conflicts[k] = NoConflict
              /\ conflicts' = [conflicts EXCEPT ![k] =
                    [claims |-> involved, groups |-> groups, state |-> Unresolved]]
              /\ UNCHANGED claims
              /\ {ClaimNode(c) : c \in involved} \in ConflictDeps
    BY <1>1, <2>1, AddConflictStep
  <2> DEFINE x == [claims |-> involved, groups |-> groups, state |-> Unresolved]
             deps == {ClaimNode(c) : c \in involved}
  <2>3. PICK s \in Settling(k, deps) :
           /\ Lodged(p, s) /\ conflicts[k] = NoConflict
           /\ conflicts' = [conflicts EXCEPT ![k] = x] /\ UNCHANGED claims /\ deps \in ConflictDeps
    BY <2>2
  <2>4. x \in Conflict /\ x.claims = involved
    BY DEF Conflict
  <2>5. x # NoConflict
    BY DiscoveryStates DEF NoConflict
  <2>6. {ClaimNode(c) : c \in x.claims} \subseteq deps
    BY <2>4
  <2> HIDE DEF x, deps
  <2> QED  BY <1>1, <2>3, <2>4, <2>5, <2>6, SettlesDerived
<1>8. CASE \E p \in Procs : ResolveConflict(p)
  <2>1. PICK p \in Procs : ResolveConflict(p)
    BY <1>8
  <2>2. PICK k \in Conflicts : \E s \in Settling(k, ResolveDeps(k)) :
              /\ Lodged(p, s) /\ seen[p] \in Approvers
              /\ conflicts[k].state = Unresolved /\ conflicts[k] \in Conflict
              /\ conflicts' = [conflicts EXCEPT ![k].state = seen[p]]
              /\ UNCHANGED claims
              /\ ResolveDeps(k) \in ConflictDeps
    BY <1>1, <2>1, ResolveStep
  <2> DEFINE x == [conflicts[k] EXCEPT !.state = seen[p]]
  <2>3. PICK s \in Settling(k, ResolveDeps(k)) :
           /\ Lodged(p, s) /\ conflicts' = [conflicts EXCEPT ![k] = x]
           /\ UNCHANGED claims /\ ResolveDeps(k) \in ConflictDeps
    BY <2>2
  <2>4. x \in Conflict /\ x.claims = conflicts[k].claims /\ x.state = seen[p]
    BY <2>2 DEF Conflict
  <2>5. x # NoConflict
    <3>1. NoConflict.state = NoOne
      BY DEF NoConflict
    <3> HIDE DEF x
    <3> QED  BY <2>2, <2>4, <3>1, DiscoveryGroups
  <2>6. {ClaimNode(c) : c \in x.claims} \subseteq ResolveDeps(k)
    BY <2>4 DEF ResolveDeps
  <2> HIDE DEF x
  <2> QED  BY <1>1, <2>3, <2>4, <2>5, <2>6, SettlesDerived
<1> QED
  BY <1>2, <1>3, <1>4, <1>5, <1>6, <1>7, <1>8 DEF Next, Claim, Rest

-----------------------------------------------------------------------------
(* The approver and what was resolved.                                      *)

LEMMA SeenFrame ==
    ASSUME SeenInv, session'.hash[Approver] = session.hash[Approver], overtaken' = overtaken,
           \A q \in Procs : seen'[q] \in {seen[q], NoOne, session.hash[Approver]}
    PROVE  SeenInv'
  BY DEF SeenInv

LEMMA SeenStep == TranscriptInv /\ SeenInv /\ [Next]_vars => SeenInv'
<1> SUFFICES ASSUME TranscriptInv, SeenInv, [Next]_vars  PROVE SeenInv'
  OBVIOUS
<1>1. TypeOK /\ WorkInv /\ DOMAIN seen = Procs
  BY DEF TranscriptInv, TypeOK
<1>2. CASE UNCHANGED vars
  BY <1>2, SeenFrame DEF vars, local
<1>3. CASE \E p \in Procs : Interview(p)
  BY <1>3, SeenFrame DEF Interview, Ask, AnswerGate, Correct, SetGate, Interviews, Writes
<1>4. CASE \E p \in Procs : Claim(p)
  <2>1. PICK p \in Procs : Claim(p)
    BY <1>4
  <2>2. CASE OpenSession(p)
    BY <1>1, <2>2, SeenFrame DEF OpenSession
  <2>3. CASE AddClaim(p) \/ AddConflict(p) \/ ResolveConflict(p)
    BY <2>3, SeenFrame DEF AddClaim, AddConflict, ResolveConflict, Writes
  <2> QED  BY <2>1, <2>2, <2>3 DEF Claim
<1>5. ASSUME NEW p \in Procs, Ends(p)  PROVE \A q \in Procs : seen'[q] \in {seen[q], NoOne}
  BY <1>1, <1>5 DEF Ends
<1>6. CASE \E p \in Procs : Rest(p)
  <2>1. PICK p \in Procs : Rest(p)
    BY <1>6
  <2>2. CASE WriteLine(p)
    BY <2>2, SeenFrame DEF WriteLine
  <2>3. CASE RecordArtifact(p)
    <3>1. session'.hash[Approver] = session.hash[Approver]
      BY <2>3, BindEffect
    <3>2. \A q \in Procs : seen'[q] \in {seen[q], NoOne}
      BY <1>5, <2>3 DEF RecordArtifact, Continues
    <3> QED  BY <2>3, <3>1, <3>2, SeenFrame DEF RecordArtifact
  <2>4. CASE RecordRefused(p)
    BY <1>5, <2>4, SeenFrame DEF RecordRefused
  <2> QED  BY <2>1, <2>2, <2>3, <2>4 DEF Rest
<1>7. CASE \E p \in Procs : Approve(p) \/ Kill(p)
  <2>1. PICK p \in Procs : Approve(p) \/ Kill(p)
    BY <1>7
  <2>2. CASE VerifyClaims(p) \/ VerifyGates(p)
    BY <2>2, SeenFrame DEF VerifyClaims, VerifyGates
  <2>3. CASE Attest(p) \/ Kill(p)
    BY <1>5, <2>3, SeenFrame DEF Attest, Kill
  <2> QED  BY <2>1, <2>2, <2>3 DEF Approve
<1>8. CASE ReviseApprover
  BY <1>8 DEF ReviseApprover, SeenInv, local
<1>9. CASE CloseSession
  <2>1. session'.hash = session.hash
    BY <1>1, <1>9 DEF CloseSession, TypeOK, Session!Index
  <2> QED  BY <1>9, <2>1, SeenFrame DEF CloseSession, local
<1> QED
  BY <1>2, <1>3, <1>4, <1>6, <1>7, <1>8, <1>9 DEF Next

(* A resolution is as current as it was when only others' work has gone on. *)
LEMMA ResolvedFrame ==
    ASSUME NEW k \in Conflicts, ResolvedBy(k), conflicts'[k] = conflicts[k],
           NodeSame(ConflictNode(k)), session'.hash[Approver] = session.hash[Approver],
           session.stale \subseteq session'.stale, NEW p \in Procs,
           \A q \in Procs : q # p => todo'[q] = todo[q] /\ seen'[q] = seen[q],
           \A deps \in ConflictDeps : todo[p] \notin Settling(k, deps),
           \A deps \in ConflictDeps : todo'[p] \notin Settling(k, deps)
    PROVE  ResolvedBy(k)'
<1>1. ASSUME NEW q \in Procs, NEW deps \in ConflictDeps
      PROVE  /\ todo'[q] \in Settling(k, deps) <=> todo[q] \in Settling(k, deps)
             /\ todo'[q] \in Settling(k, deps) => seen'[q] = seen[q]
  BY DEF NodeSame
<1>2. \A q \in Procs, deps \in ConflictDeps : todo'[q] \in Settling(k, deps) =>
         Approver \in deps /\ conflicts'[k].state = seen'[q]
  BY <1>1 DEF ResolvedBy
<1>3. (\A q \in Procs, deps \in ConflictDeps : todo'[q] \notin Settling(k, deps)) =>
         /\ Approver \in session'.deps[ConflictNode(k)]
         /\ conflicts'[k].state = session'.hash[Approver] \/ ConflictNode(k) \in session'.stale
  BY <1>1 DEF ResolvedBy, NodeSame
<1> QED
  BY <1>2, <1>3 DEF ResolvedBy

LEMMA QuietResolved ==
    ASSUME NEW p \in Procs, ClaimsQuiet(p), ClaimsKept, NEW k \in Conflicts, ResolvedBy(k),
           session'.hash[Approver] = session.hash[Approver], session.stale \subseteq session'.stale
    PROVE  ResolvedBy(k)'
<1>1. \A deps \in ConflictDeps : todo[p] \notin Settling(k, deps) /\ todo'[p] \notin Settling(k, deps)
  BY OutsideClaims DEF ClaimsQuiet
<1> QED
  BY <1>1, ResolvedFrame DEF ClaimsQuiet, ClaimsKept

(* The commands of the claims: only a resolution settles a conflict. *)
LEMMA LodgedResolved ==
    ASSUME TypeOK, WorkInv, NEW p \in Procs, NEW s, Lodged(p, s),
           NEW k \in Conflicts, ResolvedBy(k), conflicts'[k] = conflicts[k],
           \A deps \in ConflictDeps : s \notin Settling(k, deps)
    PROVE  ResolvedBy(k)'
<1>1. /\ \A q \in Procs : todo'[q] = IF q = p THEN s ELSE todo[q]
      /\ session' = session /\ lock["claims"] = NoProc /\ seen' = seen
  BY DEF Lodged, WorkInv
<1>2. \A deps \in ConflictDeps : todo[p] \notin Settling(k, deps)
  BY <1>1, NobodyClaims
<1>3. \A deps \in ConflictDeps : todo'[p] \notin Settling(k, deps)
  BY <1>1
<1>4. \A q \in Procs : q # p => todo'[q] = todo[q] /\ seen'[q] = seen[q]
  BY <1>1
<1>5. /\ NodeSame(ConflictNode(k)) /\ session'.hash[Approver] = session.hash[Approver]
      /\ session.stale \subseteq session'.stale
  BY <1>1 DEF NodeSame
<1> QED
  BY <1>2, <1>3, <1>4, <1>5, ResolvedFrame

LEMMA ClaimsResolved ==
    ASSUME TypeOK, WorkInv, ApproverInv, NEW p \in Procs,
           AddClaim(p) \/ AddConflict(p) \/ ResolveConflict(p),
           NEW k \in Semantic, conflicts'[k].state \in Approvers,
           conflicts[k].state \in Approvers => ResolvedBy(k)
    PROVE  ResolvedBy(k)'
<1>0. k \in Conflicts /\ DOMAIN conflicts = Conflicts
  BY DiscoveryGroups DEF TypeOK
<1>1. CASE AddClaim(p)
  <2>1. PICK c \in Claims, g \in Gates : \E s \in Claiming(c, g) :
           /\ Lodged(p, s) /\ seen[p] = NoOne /\ claims[c] = NoOne
           /\ claims' = [claims EXCEPT ![c] = g] /\ UNCHANGED conflicts
    BY <1>1, AddClaimStep
  <2>2. PICK s \in Claiming(c, g) : Lodged(p, s) /\ UNCHANGED conflicts
    BY <2>1
  <2>3. \A deps \in ConflictDeps : s \notin Settling(k, deps)
    BY PlansApart
  <2> QED  BY <1>0, <2>2, <2>3, LodgedResolved
<1>2. CASE AddConflict(p)
  <2>1. PICK k0 \in Conflicts, involved \in SUBSET Claims, groups \in SUBSET Groups :
           \E s \in Settling(k0, {ClaimNode(c) : c \in involved}) :
              /\ Lodged(p, s) /\ conflicts[k0] = NoConflict
              /\ conflicts' = [conflicts EXCEPT ![k0] =
                    [claims |-> involved, groups |-> groups, state |-> Unresolved]]
              /\ UNCHANGED claims
              /\ {ClaimNode(c) : c \in involved} \in ConflictDeps
    BY <1>2, AddConflictStep
  <2> DEFINE deps0 == {ClaimNode(c) : c \in involved}
  <2>2. PICK s \in Settling(k0, deps0) :
           /\ Lodged(p, s)
           /\ conflicts' = [conflicts EXCEPT ![k0] =
                 [claims |-> involved, groups |-> groups, state |-> Unresolved]]
    BY <2>1
  <2> HIDE DEF deps0
  <2>3. k # k0
    BY <1>0, <2>2, DiscoveryStates
  <2>4. conflicts'[k] = conflicts[k] /\ \A deps \in ConflictDeps : s \notin Settling(k, deps)
    BY <1>0, <2>2, <2>3, PlansApart
  <2> QED  BY <1>0, <2>2, <2>4, LodgedResolved
<1>3. CASE ResolveConflict(p)
  <2>1. PICK k0 \in Conflicts : \E s \in Settling(k0, ResolveDeps(k0)) :
              /\ Lodged(p, s) /\ seen[p] \in Approvers
              /\ conflicts[k0].state = Unresolved /\ conflicts[k0] \in Conflict
              /\ conflicts' = [conflicts EXCEPT ![k0].state = seen[p]]
              /\ UNCHANGED claims
              /\ ResolveDeps(k0) \in ConflictDeps
    BY <1>3, ResolveStep
  <2>2. PICK s \in Settling(k0, ResolveDeps(k0)) :
           /\ Lodged(p, s) /\ conflicts[k0] \in Conflict
           /\ conflicts' = [conflicts EXCEPT ![k0].state = seen[p]]
           /\ ResolveDeps(k0) \in ConflictDeps
    BY <2>1
  <2>3. CASE k = k0
    <3>1. /\ \A q \in Procs : todo'[q] = IF q = p THEN s ELSE todo[q]
          /\ lock["claims"] = NoProc /\ seen' = seen
      BY <2>2 DEF Lodged, WorkInv
    <3>2. conflicts'[k].state = seen'[p]
      BY <1>0, <2>2, <2>3, <3>1 DEF Conflict
    <3>3. Approver \in ResolveDeps(k)
      BY DEF ResolveDeps
    <3>4. \A q \in Procs, deps \in ConflictDeps :
             todo'[q] \in Settling(k, deps) => q = p /\ deps = ResolveDeps(k)
      BY <2>2, <2>3, <3>1, <1>0, NobodyClaims, PlansApart
    <3>5. todo'[p] \in Settling(k, ResolveDeps(k)) /\ ResolveDeps(k) \in ConflictDeps
      BY <2>2, <2>3, <3>1
    <3> QED  BY <3>2, <3>3, <3>4, <3>5 DEF ResolvedBy
  <2>4. CASE k # k0
    <3>1. conflicts'[k] = conflicts[k] /\ \A deps \in ConflictDeps : s \notin Settling(k, deps)
      BY <1>0, <2>2, <2>4, PlansApart
    <3> QED  BY <1>0, <2>2, <3>1, LodgedResolved
  <2> QED  BY <2>3, <2>4
<1> QED
  BY <1>1, <1>2, <1>3

(* What is bound of a resolution is by the approver it was checked against. *)
LEMMA BindResolved ==
    ASSUME TranscriptInv, SeenInv, ~overtaken, NEW p \in Procs, RecordArtifact(p),
           NEW k \in Semantic, conflicts[k].state \in Approvers, ResolvedBy(k)
    PROVE  ResolvedBy(k)'
<1>1. TypeOK /\ WorkInv /\ k \in Conflicts
  BY DiscoveryGroups DEF TranscriptInv
<1>2. session'.hash[Approver] = session.hash[Approver]
  BY BindEffect
<1>3. CASE todo[p] \in InterviewPlans
  <2>1. ClaimsQuiet(p) /\ ClaimsKept
    BY <1>1, <1>3, BindElsewhere
  <2>2. session.stale \subseteq session'.stale
    BY <1>1, BindWrites
  <2> QED  BY <1>1, <1>2, <2>1, <2>2, QuietResolved
<1>4. CASE todo[p] \notin InterviewPlans
  <2>1. /\ \A q \in Procs : todo'[q] = IF q = p THEN <<>> ELSE todo[q]
        /\ \A q \in Procs : q # p => seen'[q] = seen[q]
        /\ lock["claims"] = p /\ session.stale \subseteq session'.stale
        /\ UNCHANGED <<claims, conflicts>>
    BY <1>1, <1>4, BindClaims
  <2>2. \A deps \in ConflictDeps : todo'[p] \notin Settling(k, deps)
    BY <2>1, PlansApart
  <2>3. ASSUME NodeSame(ConflictNode(k)), \A deps \in ConflictDeps : todo[p] \notin Settling(k, deps)
        PROVE  ResolvedBy(k)'
    <3>1. /\ conflicts'[k] = conflicts[k]
          /\ \A q \in Procs : q # p => todo'[q] = todo[q] /\ seen'[q] = seen[q]
      BY <2>1
    <3> QED  BY <1>1, <1>2, <2>1, <2>2, <2>3, <3>1, ResolvedFrame
  <2>4. CASE \E c \in Claims, g \in Gates : \E h \in Stamps :
                /\ todo[p] \in Claiming(c, g)
                /\ HashSet(ClaimNode(c), h) /\ DepsSet(ClaimNode(c), {AnswerNode(g)})
    <3>1. PICK c \in Claims, g \in Gates, h \in Stamps :
             /\ todo[p] \in Claiming(c, g)
             /\ HashSet(ClaimNode(c), h) /\ DepsSet(ClaimNode(c), {AnswerNode(g)})
      BY <2>4
    <3>2. ConflictNode(k) \in ArtifactNodes /\ ConflictNode(k) # ClaimNode(c)
      BY <1>1, NodesIn, NodesDiffer
    <3>3. NodeSame(ConflictNode(k))
      BY <3>1, <3>2 DEF NodeSame, HashSet, DepsSet
    <3>4. \A deps \in ConflictDeps : todo[p] \notin Settling(k, deps)
      BY <3>1, PlansApart
    <3> QED  BY <2>3, <3>3, <3>4
  <2>5. CASE \E k0 \in Conflicts, deps \in ConflictDeps : \E h \in Stamps :
                /\ todo[p] \in Settling(k0, deps)
                /\ HashSet(ConflictNode(k0), h) /\ DepsSet(ConflictNode(k0), deps)
    <3>1. PICK k0 \in Conflicts, deps0 \in ConflictDeps, h \in Stamps :
             /\ todo[p] \in Settling(k0, deps0)
             /\ HashSet(ConflictNode(k0), h) /\ DepsSet(ConflictNode(k0), deps0)
      BY <2>5
    <3>2. CASE k0 = k
      <4>1. Approver \in deps0 /\ conflicts[k].state = seen[p]
        BY <3>1, <3>2 DEF ResolvedBy
      <4>2. seen[p] = session.hash[Approver]
        BY <4>1, DiscoveryGroups DEF SeenInv
      <4>3. session'.deps[ConflictNode(k)] = deps0
        BY <3>1, <3>2 DEF DepsSet
      <4>4. \A q \in Procs, deps \in ConflictDeps : todo'[q] \notin Settling(k, deps)
        BY <1>1, <2>1, <2>2, ClaimHolder
      <4> QED  BY <1>2, <2>1, <4>1, <4>2, <4>3, <4>4 DEF ResolvedBy
    <3>3. CASE k0 # k
      <4>1. ConflictNode(k) \in ArtifactNodes /\ ConflictNode(k) # ConflictNode(k0)
        BY <1>1, <3>3, NodesIn, NodesDiffer
      <4>2. NodeSame(ConflictNode(k))
        BY <3>1, <4>1 DEF NodeSame, HashSet, DepsSet
      <4>3. \A deps \in ConflictDeps : todo[p] \notin Settling(k, deps)
        BY <3>1, <3>3, PlansApart
      <4> QED  BY <2>3, <4>2, <4>3
    <3> QED  BY <3>2, <3>3
  <2> QED
    BY <1>1, <1>4, <2>4, <2>5, BindClaims
<1> QED
  BY <1>3, <1>4

(* A change of the approver stales what the former one has resolved. *)
LEMMA ReviseResolved ==
    ASSUME TranscriptInv, ReviseApprover, ~overtaken',
           NEW k \in Semantic, conflicts[k].state \in Approvers, ResolvedBy(k)
    PROVE  ResolvedBy(k)'
<1>1. TypeOK /\ ApproverInv /\ k \in Conflicts
  BY DiscoveryGroups DEF TranscriptInv
<1>2. \A q \in Procs : seen[q] = NoOne
  BY DEF ReviseApprover
<1>3. conflicts' = conflicts /\ todo' = todo /\ seen' = seen
  BY DEF ReviseApprover, stores, local
<1>4. \A q \in Procs, deps \in ConflictDeps : todo[q] \notin Settling(k, deps)
  BY <1>2, DiscoveryGroups DEF ResolvedBy
<1>5. Approver \in session.deps[ConflictNode(k)]
  BY <1>4 DEF ResolvedBy
<1>6. PICK a \in Approvers \ {session.hash[Approver]} :
         /\ Artifact(Approver, a, {}) \in Session!Record
         /\ session' = Session!Register(session, Artifact(Approver, a, {}))
         /\ session' \in Session!Index /\ session'.state = session.state
         /\ session'.hash = [session.hash EXCEPT ![Approver] = a]
         /\ session'.deps = [session.deps EXCEPT ![Approver] = {}]
         /\ session.stale \subseteq session'.stale
  BY <1>1, ReviseEffect
<1> DEFINE r == Artifact(Approver, a, {})
<1>7. r.node = Approver /\ r.hash = a
  BY DEF Artifact
<1> HIDE DEF r
<1>8. session \in Session!Index /\ r \in Session!Record /\ session' = Session!Register(session, r)
  BY <1>1, <1>6 DEF TypeOK, r
<1>9. session.hash[r.node] \notin {NoHash, r.hash}
  BY <1>1, <1>6, <1>7, DiscoveryNodes DEF ApproverInv, ArtifactHashes
<1>10. PICK D \in SUBSET Session!Register(session, r).stale :
          \A n \in ArtifactNodes :
             Session!Register(session, r).deps[n] \cap ({r.node} \cup D) # {} => n \in D
  BY <1>8, <1>9, RegisterStales
<1>11. ConflictNode(k) \in ArtifactNodes /\ ConflictNode(k) # Approver
  BY <1>1, NodesIn, NodesDiffer
<1>12. session'.deps[ConflictNode(k)] = session.deps[ConflictNode(k)]
  <2>1. DOMAIN session.deps = ArtifactNodes
    BY <1>8 DEF Session!Index
  <2> QED  BY <1>6, <1>11, <2>1
<1>13. ConflictNode(k) \in session'.stale
  <2>1. Approver \in session'.deps[ConflictNode(k)] /\ r.node = Approver
    BY <1>5, <1>7, <1>12
  <2>2. session'.deps[ConflictNode(k)] \cap ({r.node} \cup D) # {} => ConflictNode(k) \in D
    BY <1>8, <1>10, <1>11
  <2>3. D \subseteq session'.stale
    BY <1>8, <1>10
  <2> QED  BY <2>1, <2>2, <2>3
<1> QED
  BY <1>3, <1>4, <1>5, <1>12, <1>13 DEF ResolvedBy

LEMMA ResolvedStarts == Init => SeenInv /\ ResolvedInv
<1> SUFFICES ASSUME Init  PROVE SeenInv /\ ResolvedInv
  OBVIOUS
<1>1. SeenInv
  BY DEF Init, SeenInv
<1>2. \A k \in Semantic : conflicts[k].state \notin Approvers
  BY DiscoveryGroups DEF Init, NoConflict
<1> QED
  BY <1>1, <1>2 DEF ResolvedInv

LEMMA ResolvedStep == TranscriptInv /\ SeenInv /\ ResolvedInv /\ [Next]_vars => ResolvedInv'
<1> SUFFICES ASSUME TranscriptInv, SeenInv, ResolvedInv, [Next]_vars, Undisturbed', ~overtaken',
                    NEW k \in Semantic, conflicts'[k].state \in Approvers
             PROVE  ResolvedBy(k)'
  BY DEF ResolvedInv
<1>1. TypeOK /\ WorkInv /\ KeptInv /\ LiveIsReplay /\ ApproverInv /\ k \in Conflicts
  BY DiscoveryGroups DEF TranscriptInv
<1>2. CASE UNCHANGED vars
  <2>1. ResolvedBy(k)
    BY <1>2 DEF ResolvedInv, Undisturbed, vars, stores
  <2> QED  BY <1>2, <2>1 DEF ResolvedBy, vars, stores, local
<1>3. CASE Next
  <2>1. /\ Undisturbed /\ ~CloseSession
        /\ \A p \in Procs : ~Kill(p) /\ ~RecordRefused(p)
    BY <1>1, <1>3, StaysDisturbed
  <2>2. ~overtaken /\ conflicts[k].state \in Approvers => ResolvedBy(k)
    BY <2>1 DEF ResolvedInv
  <2>3. CASE \E p \in Procs : Interview(p) \/ WriteLine(p) \/ Approve(p) \/ OpenSession(p)
    <3>1. PICK p \in Procs : /\ ClaimsQuiet(p) /\ session' = session
                             /\ UNCHANGED <<claims, conflicts, overtaken>>
      BY <1>1, <2>3, QuietStep
    <3>2. /\ ClaimsKept /\ session'.hash[Approver] = session.hash[Approver]
          /\ session.stale \subseteq session'.stale /\ ResolvedBy(k)
      BY <2>2, <3>1 DEF ClaimsKept, NodeSame
    <3> QED  BY <1>1, <3>1, <3>2, QuietResolved
  <2>4. CASE \E p \in Procs : AddClaim(p) \/ AddConflict(p) \/ ResolveConflict(p)
    <3>1. PICK p \in Procs : AddClaim(p) \/ AddConflict(p) \/ ResolveConflict(p)
      BY <2>4
    <3>2. overtaken' = overtaken
      BY <3>1 DEF AddClaim, AddConflict, ResolveConflict
    <3> QED  BY <1>1, <2>2, <3>1, <3>2, ClaimsResolved
  <2>5. CASE \E p \in Procs : RecordArtifact(p)
    <3>1. PICK p \in Procs : RecordArtifact(p)
      BY <2>5
    <3>2. overtaken' = overtaken /\ conflicts' = conflicts
      BY <3>1 DEF RecordArtifact, stores
    <3> QED  BY <2>2, <3>1, <3>2, BindResolved
  <2>6. CASE ReviseApprover
    <3>1. ~overtaken /\ conflicts' = conflicts
      BY <2>6 DEF ReviseApprover, stores
    <3> QED  BY <2>2, <2>6, <3>1, ReviseResolved
  <2> QED
    BY <1>3, <2>1, <2>3, <2>4, <2>5, <2>6 DEF Next, Claim, Rest
<1> QED
  BY <1>2, <1>3

LEMMA ResolvedAlways == Spec => [](SeenInv /\ ResolvedInv)
  BY TranscriptAlways, ResolvedStarts, SeenStep, ResolvedStep, PTL DEF Spec

(* A resolution of a semantic conflict that stands was made by the current
   approver, or is stale: whatever the order in which charters are opened and
   revised and resolutions written and bound, but for a charter that was revised
   while the command had it open, a kill and a closed session. *)
THEOREM ResolverAlwaysCurrent == Spec => []ResolverCurrent
<1>1. TranscriptInv /\ ResolvedInv => ResolverCurrent
  <2> SUFFICES ASSUME TranscriptInv, ResolvedInv, NEW k \in Semantic, Undisturbed, ~overtaken,
                      Settled(k), conflicts[k].state \in Approvers
               PROVE  \/ conflicts[k].state = session.hash[Approver]
                      \/ ConflictNode(k) \in session.stale
    BY DEF ResolverCurrent
  <2>1. ASSUME NEW q \in Procs, NEW deps \in ConflictDeps, todo[q] \in Settling(k, deps)
        PROVE  FALSE
    <3>1. PICK h \in Stamps : Len(todo[q]) = 1 /\ Head(todo[q]) = Bind(ConflictNode(k), h, deps)
      BY <2>1, SettlingFacts
    <3>2. todo[q] # <<>>
      BY <2>1, SingleFacts
    <3>3. Head(todo[q]).do = "bind" /\ Head(todo[q]).artifact.node = ConflictNode(k)
      BY <3>1, StepKinds
    <3> QED  BY <3>2, <3>3 DEF Settled, Does, Next1
  <2>2. ResolvedBy(k)
    BY DEF ResolvedInv
  <2> QED  BY <2>1, <2>2 DEF ResolvedBy
<1> QED
  BY <1>1, TranscriptAlways, ResolvedAlways, PTL

(* What the session has bound is what the stores say and by whom. *)
THEOREM BindingsCorrect == Spec => []BindingsAgree
<1>1. JournalsAgree /\ ResolverCurrent => BindingsAgree
  BY DEF BindingsAgree
<1> QED
  BY <1>1, JournalsAlwaysAgree, ResolverAlwaysCurrent, PTL

-----------------------------------------------------------------------------
LEMMA DerivedAlways == Spec => []DerivedInv
  BY TranscriptAlways, DerivedStarts, DerivedStep, PTL DEF Spec

(* A process works on for as long as the actions are of others. *)
LEMMA OnlyOwn ==
    ASSUME TypeOK, WorkInv, KeptInv, LiveIsReplay, NEW p \in Procs, Does(p, "bind"), Idle(p)',
           Next
    PROVE  RecordArtifact(p) \/ RecordRefused(p) \/ Kill(p)
<1>1. todo'[p] # todo[p] /\ todo[p] # <<>> /\ Head(todo[p]).do = "bind" /\ DOMAIN todo = Procs
  BY DEF Does, Idle, Next1, WorkInv
<1>2. \A q \in Procs : Interview(q) \/ Claim(q) \/ VerifyClaims(q) => q # p /\ todo'[p] = todo[p]
  <2> SUFFICES ASSUME NEW q \in Procs, Interview(q) \/ Claim(q) \/ VerifyClaims(q)
               PROVE  q # p /\ todo'[p] = todo[p]
    OBVIOUS
  <2>1. ASSUME NEW store, NEW rest, Writes(q, store, rest)
        PROVE  q # p /\ todo'[p] = todo[p]
    BY <1>1, <2>1 DEF Writes, Idle
  <2>2. ASSUME NEW e, NEW rest, Interviews(q, e, rest)
        PROVE  q # p /\ todo'[p] = todo[p]
    <3>1. Writes(q, "interview", rest)
      BY <2>2 DEF Interviews
    <3> QED  BY <2>1, <3>1
  <2>3. CASE Ask(q)
    BY <2>2, <2>3 DEF Ask
  <2>4. CASE AnswerGate(q)
    BY <2>2, <2>4, Zenon DEF AnswerGate
  <2>5. CASE Correct(q)
    BY <2>2, <2>5, Zenon DEF Correct
  <2>6. CASE SetGate(q)
    BY <2>2, <2>6, Zenon DEF SetGate
  <2>7. CASE AddClaim(q)
    BY <2>1, <2>7, Zenon DEF AddClaim
  <2>8. CASE AddConflict(q)
    BY <2>1, <2>8, Zenon DEF AddConflict
  <2>9. CASE ResolveConflict(q)
    BY <2>1, <2>9, Zenon DEF ResolveConflict
  <2>10. CASE OpenSession(q)
    BY <1>1, <2>10 DEF OpenSession, Idle
  <2>11. CASE VerifyClaims(q)
    BY <1>1, <2>11 DEF VerifyClaims, Idle
  <2> QED
    BY <2>3, <2>4, <2>5, <2>6, <2>7, <2>8, <2>9, <2>10, <2>11 DEF Interview, Claim
<1>3. \A q \in Procs : WriteLine(q) \/ VerifyGates(q) \/ Attest(q) => q = p \/ todo'[p] = todo[p]
  BY <1>1 DEF WriteLine, VerifyGates, Attest, Ends
<1>4. ~WriteLine(p) /\ ~VerifyGates(p) /\ ~Attest(p)
  BY <1>1 DEF WriteLine, VerifyGates, Attest, Does, Next1
<1>5. \A q \in Procs : RecordArtifact(q) \/ RecordRefused(q) \/ Kill(q) => q = p \/ todo'[p] = todo[p]
  BY <1>1 DEF RecordArtifact, RecordRefused, Kill, Continues, Ends
<1>6. ReviseApprover \/ CloseSession => todo'[p] = todo[p]
  BY DEF ReviseApprover, CloseSession, local
<1> QED
  BY <1>1, <1>2, <1>3, <1>4, <1>5, <1>6 DEF Next, Rest, Approve

(* The binding of a corrected answer stales every claim of it that is bound, and
   every conflict bound of such a claim. *)
LEMMA CorrectionStep ==
    ASSUME TranscriptInv, AgreeInv, DerivedInv, Next, NEW g \in Gates, Undisturbed', Corrects(g)
    PROVE  RestsOn(g) \subseteq session'.stale
<1>1. TypeOK /\ WorkInv /\ KeptInv /\ LiveIsReplay
  BY DEF TranscriptInv
<1>2. PICK p \in Procs : /\ Does(p, "bind") /\ Next1(p).artifact.node = AnswerNode(g)
                         /\ Replaced(g) \notin {NoHash, Next1(p).artifact.hash} /\ Idle(p)'
  BY DEF Corrects
<1>3. Undisturbed /\ RecordArtifact(p)
  BY <1>1, <1>2, OnlyOwn, StaysDisturbed
<1> DEFINE a == Head(todo[p]).artifact
<1>4. /\ a.node = AnswerNode(g) /\ Replaced(g) \notin {NoHash, a.hash}
      /\ todo[p] \in Plans /\ todo[p] # <<>> /\ Head(todo[p]).do = "bind"
      /\ a \in Session!Record /\ session' = Session!Register(session, a)
  BY <1>1, <1>2, <1>3, BindStep DEF Next1
<1>5. \E text \in Texts : todo[p] \in AnswerLast(g, text)
  <2>1. CASE \E g0 \in Gates, text0 \in Texts : todo[p] \in AnswerLast(g0, text0)
    <3>1. PICK g0 \in Gates, text0 \in Texts : todo[p] \in AnswerLast(g0, text0)
      BY <2>1
    <3>2. PICK asked \in Asked : Head(todo[p]) = AnswerBind(g0, text0, asked)
      BY <3>1, AnsweringFacts
    <3>3. a.node = AnswerNode(g0)
      BY <3>2, StepKinds DEF AnswerBind
    <3> QED  BY <1>4, <3>1, <3>3, NodesDiffer
  <2>2. CASE \E g0 \in Gates : todo[p] \in Gating(g0)
    <3>1. PICK g0 \in Gates : todo[p] \in Gating(g0)
      BY <2>2
    <3>2. a.node = GateNode(g0)
      BY <3>1, GateIsFirst
    <3> QED  BY <1>4, <3>2, NodesDiffer
  <2>3. CASE todo[p] \in AskedOnly
    <3>1. PICK i \in 1..MaxLines, h \in Stamps : Head(todo[p]) = Bind(QuestionNode(i), h, {})
      BY <2>3, SingleFacts
    <3>2. a.node = QuestionNode(i)
      BY <3>1, StepKinds
    <3> QED  BY <1>4, <3>2, NodesDiffer
  <2>4. CASE \E c \in Claims, g0 \in Gates : todo[p] \in Claiming(c, g0)
    <3>1. PICK c \in Claims, g0 \in Gates : todo[p] \in Claiming(c, g0)
      BY <2>4
    <3>2. PICK h \in Stamps : Head(todo[p]) = Bind(ClaimNode(c), h, {AnswerNode(g0)})
      BY <3>1, ClaimingFacts
    <3>3. a.node = ClaimNode(c)
      BY <3>2, StepKinds
    <3> QED  BY <1>4, <3>3, NodesDiffer
  <2>5. CASE \E k \in Conflicts, deps \in ConflictDeps : todo[p] \in Settling(k, deps)
    <3>1. PICK k \in Conflicts, deps \in ConflictDeps : todo[p] \in Settling(k, deps)
      BY <2>5
    <3>2. PICK h \in Stamps : Head(todo[p]) = Bind(ConflictNode(k), h, deps)
      BY <3>1, SettlingFacts
    <3>3. a.node = ConflictNode(k)
      BY <3>2, StepKinds
    <3> QED  BY <1>4, <3>3, NodesDiffer
  <2> QED  BY <1>4, <2>1, <2>2, <2>3, <2>4, <2>5, PlanKinds DEF Gating
<1>6. session.hash[AnswerNode(g)] = Replaced(g)
  <2>1. AgreeOn(g)
    BY <1>3 DEF AgreeInv
  <2> QED  BY <1>5, <2>1 DEF AgreeOn, Answering
<1>7. /\ session'.deps = [session.deps EXCEPT ![a.node] = a.deps]
      /\ session \in Session!Index
  BY <1>1, <1>3, BindWrites
<1> HIDE DEF a
<1>8. session.hash[a.node] \notin {NoHash, a.hash}
  BY <1>4, <1>6
<1>9. PICK D \in SUBSET Session!Register(session, a).stale :
         \A n \in ArtifactNodes :
            Session!Register(session, a).deps[n] \cap ({a.node} \cup D) # {} => n \in D
  BY <1>4, <1>7, <1>8, RegisterStales
<1>10. /\ D \subseteq session'.stale
       /\ \A n \in ArtifactNodes : session'.deps[n] \cap ({AnswerNode(g)} \cup D) # {} => n \in D
  BY <1>4, <1>9
<1>11. \A n \in ArtifactNodes : n # AnswerNode(g) => session'.deps[n] = session.deps[n]
  <2>1. DOMAIN session.deps = ArtifactNodes
    BY <1>7 DEF Session!Index
  <2> QED  BY <1>4, <1>7, <2>1
<1>12. ASSUME NEW c \in Claims, claims[c] = g, session.hash[ClaimNode(c)] # NoHash
       PROVE  ClaimNode(c) \in D
  <2>1. session.deps[ClaimNode(c)] = {AnswerNode(g)}
    BY <1>12 DEF DerivedInv, ClaimDerived
  <2>2. ClaimNode(c) \in ArtifactNodes /\ ClaimNode(c) # AnswerNode(g)
    BY NodesIn, NodesDiffer
  <2> QED  BY <1>10, <1>11, <2>1, <2>2
<1>13. ASSUME NEW k \in Conflicts, NEW c \in conflicts[k].claims, c \in Claims, claims[c] = g,
              session.hash[ClaimNode(c)] # NoHash, session.hash[ConflictNode(k)] # NoHash
       PROVE  ConflictNode(k) \in D
  <2>1. ClaimNode(c) \in session.deps[ConflictNode(k)]
    BY <1>13 DEF DerivedInv, ConflictDerived
  <2>2. ConflictNode(k) \in ArtifactNodes /\ ConflictNode(k) # AnswerNode(g)
    BY NodesIn, NodesDiffer
  <2>3. ClaimNode(c) \in D
    BY <1>12, <1>13
  <2> QED  BY <1>10, <1>11, <2>1, <2>2, <2>3
<1> QED
  BY <1>10, <1>12, <1>13 DEF RestsOn

(* A correction stales what was derived from the answer it replaces: every claim
   and conflict that is bound when the command returns, whatever other commands
   are under way. *)
THEOREM CorrectionsStale == Spec => CorrectionStales
<1> DEFINE Step == \A g \in Gates : Undisturbed' /\ Corrects(g) => RestsOn(g) \subseteq session'.stale
<1>1. TranscriptInv /\ AgreeInv /\ DerivedInv /\ Next => Step
  BY CorrectionStep
<1>2. TranscriptInv /\ AgreeInv /\ DerivedInv /\ [Next]_vars => [Step]_vars
  BY <1>1
<1> QED
  BY <1>2, TranscriptAlways, AgreeAlways, DerivedAlways, PTL DEF Spec, CorrectionStales

(* The inductive invariant holds throughout. *)
LEMMA InvariantHolds == Spec => []IInv
<1>1. TranscriptInv /\ AgreeInv /\ DerivedInv /\ SeenInv /\ ResolvedInv => IInv
  BY DEF IInv
<1> QED
  BY <1>1, TranscriptAlways, AgreeAlways, DerivedAlways, ResolvedAlways, PTL
=============================================================================
