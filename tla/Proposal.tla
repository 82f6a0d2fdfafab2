------------------------------- MODULE Proposal -------------------------------
(***************************************************************************)
(* Proposals of typed operations and their verification (proposal.py): what *)
(* build_proposal accepts, the impacts and mandatory checks derived from an *)
(* operation, the candidate reconstructed from a base, and the readiness of *)
(* the dependency groups.  Everything here is a function of its arguments.  *)
(*                                                                         *)
(* A file tree maps targets to states.  A state is a function from fields   *)
(* to values; a document has the one field "content".  A fingerprint is the *)
(* value it is taken of.  Formats, sizes, identifiers and the layout of the *)
(* YAML are taken to be valid.                                             *)
(***************************************************************************)
EXTENDS SequencesExt, Integers

CONSTANTS
    Targets,            \* [kind, name] of every object and document
    Absent,             \* no state: the target does not exist
    Malformed,          \* contents _validate_overlay_document rejects
    Core(_, _, _),      \* status of a kind of check of selectors in a tree
    Rows(_)             \* rows the query of a case returns

-----------------------------------------------------------------------------
(* Operations.                                                              *)

\* The fields that make an object of each kind (_KIND_DISCRIMINATORS).
Required ==
    [source |-> {"grain"}, dimension |-> {"source", "column", "data_type"},
     fact |-> {"source", "expression", "data_type"},
     measure |-> {"fact", "aggregation"},
     metric |-> {"expression", "measures"},
     relationship |-> {"source", "target", "type"}]

CatalogKinds == DOMAIN Required
InCatalog(t) == t.kind \in CatalogKinds
Creates(op) == op.do \in {"add", "create"}
Field(s, f) == IF f \in DOMAIN s THEN s[f] ELSE Absent

SameFamily(kind, s) ==
    /\ Required[kind] \subseteq DOMAIN s
    /\ kind = "source" => {"type", "schema"} \cap DOMAIN s # {}

Complete(op) ==
    /\ Required[op.target.kind] \subseteq DOMAIN op.after
    /\ op.target.kind = "source" =>
          "type" \in DOMAIN op.after
          /\ {"schema", "schema_ref"} \cap DOMAIN op.after # {}
    /\ ~({"op", "path"} \subseteq DOMAIN op.after)
    /\ op.do = "deprecate" => Field(op.after, "status") = "deprecated"

\* The fields an edit may not change: changing them renames the object.
Identity ==
    [source |-> {"name"}, dimension |-> {"column"}, fact |-> {"source"},
     measure |-> {"fact"}, metric |-> {},
     relationship |-> {"source", "target", "source_column", "target_column"}]

SameObject(op) ==
    /\ SameFamily(op.target.kind, op.before)
    /\ SameFamily(op.target.kind, op.after)
    /\ \A f \in Identity[op.target.kind] :
          Field(op.before, f) = Field(op.after, f)

\* The hash of no state is the genesis hash.
ValidOperation(op) ==
    /\ Creates(op) <=> op.before = Absent
    /\ op.hash = op.before
    /\ InCatalog(op.target) =>
          Complete(op) /\ (op.before # Absent => SameObject(op))
    /\ op.target.kind = "overlay" => op.after.content \notin Malformed

Changed(op) ==
    IF op.before = Absent THEN DOMAIN op.after
    ELSE {f \in DOMAIN op.before \cup DOMAIN op.after :
             Field(op.before, f) # Field(op.after, f)}

FieldImpact ==
    [grain |-> "grain_changed", schema |-> "schema_changed",
     connector |-> "source_changed", type |-> "relationship_changed",
     source |-> "source_changed", column |-> "source_changed",
     source_column |-> "relationship_changed",
     target_column |-> "relationship_changed",
     target |-> "relationship_changed", data_type |-> "type_changed",
     expression |-> "expression_changed",
     aggregation |-> "aggregation_changed", measures |-> "formula_changed"]

KindImpacts(op) ==
    CASE op.do = "add" ->
            {"object_added"}
            \cup (IF op.target.kind = "source"
                    THEN {"source_changed", "schema_changed"} ELSE {})
            \cup (IF op.target.kind = "relationship"
                    THEN {"relationship_changed"} ELSE {})
      [] op.do = "deprecate" -> {"id_deprecated", "object_edited"}
      [] OTHER -> {"object_edited"}

Impacts(op) ==
    IF InCatalog(op.target)
      THEN KindImpacts(op)
           \cup {FieldImpact[f] : f \in Changed(op) \cap DOMAIN FieldImpact}
      ELSE {IF op.target.kind = "reference" THEN "reference_changed"
                                            ELSE "overlay_changed"}

-----------------------------------------------------------------------------
(* Groups and proposals: a proposal is a sequence of groups.                *)

GroupIds(p) == {p[i].id : i \in DOMAIN p}
Ops(g) == ToSet(g.ops)

\* Nothing keeps two groups from having one id: next(...) finds the first of
\* them, and a dictionary by id (by_id) keeps the last.
Named(p, id) == {i \in DOMAIN p : p[i].id = id}
GroupOf(p, id) == p[Min(Named(p, id))]
ById(p, id) == p[Max(Named(p, id))]

\* The operations by their places: group, then operation.
Places(p) == UNION {{i} \X DOMAIN p[i].ops : i \in DOMAIN p}
At(p, u) == p[u[1]].ops[u[2]]

\* No group on a path of dependencies that leads back to it.
Acyclic(p) ==
    \A S \in (SUBSET GroupIds(p)) \ {{}} :
        \E id \in S : ById(p, id).deps \cap S = {}

DependenciesKnown(p) == \A i \in DOMAIN p : p[i].deps \subseteq GroupIds(p)

\* The guard compares kind of operation and target, not the target alone.
NoOverlap(p) ==
    LET places == Places(p) IN
    \A u, v \in places :
        u # v => \/ At(p, u).target # At(p, v).target
                 \/ At(p, u).do # At(p, v).do

ValidProposal(p) ==
    /\ p # <<>>
    /\ \A i \in DOMAIN p : p[i].ops # <<>> /\ \A op \in Ops(p[i]) : ValidOperation(op)
    /\ DependenciesKnown(p)
    /\ Acyclic(p)
    /\ NoOverlap(p)

\* What to_dict keeps of a query case, and so the stored record.
Stored(p) ==
    [i \in DOMAIN p |->
        [p[i] EXCEPT !.cases =
            [j \in DOMAIN @ |-> [@[j] EXCEPT !.metrics = {}, !.dimensions = {},
                                            !.expected = "", !.bound = Absent]]]]

\* The groups asked for, in the order of the proposal.
Select(p, ids) ==
    FlattenSeq([i \in DOMAIN p |-> IF p[i].id \in ids THEN <<p[i]>> ELSE <<>>])

-----------------------------------------------------------------------------
(* The candidate: the operations of all groups, in the order of their ids;   *)
(* those of one id in the order of the text, where the code sorts them by    *)
(* target: operations of different targets commute.                         *)

Sooner(p, u, v) ==
    LET a == At(p, u).id
        b == At(p, v).id
    IN  a < b \/ (a = b /\ (u[1] < v[1] \/ (u[1] = v[1] /\ u[2] < v[2])))
AllOps(p) ==
    LET places == Places(p) IN
    [k \in 1 .. Cardinality(places) |->
        At(p, CHOOSE u \in places :
                 Cardinality({v \in places : Sooner(p, v, u)}) = k - 1)]

\* No candidate: an operation creates what exists or changes what does not.
Failed == <<>>

\* The state an operation leaves of the one it found.
Outcome(op, s) ==
    IF op.do = "deprecate"
      THEN [f \in DOMAIN op.after \cup DOMAIN s |->
               IF f \in DOMAIN op.after THEN op.after[f] ELSE s[f]]
      ELSE op.after

ApplyOp(tree, op) ==
    IF tree = Failed \/ (Creates(op) <=> tree[op.target] # Absent) THEN Failed
    ELSE [tree EXCEPT ![op.target] = Outcome(op, @)]

Patched(base, ops) ==
    LET tree[k \in 0 .. Len(ops)] ==
            IF k = 0 THEN base ELSE ApplyOp(tree[k - 1], ops[k])
    IN  tree[Len(ops)]
Reconstruct(base, p) == Patched(base, AllOps(p))

\* The names an object refers to; SemanticLayer.load wants them all declared.
Needs(t, s) ==
    CASE t.kind \in {"dimension", "fact"} -> {[kind |-> "source", name |-> s.source]}
      [] t.kind = "measure" -> {[kind |-> "fact", name |-> s.fact]}
      [] t.kind = "metric" -> {[kind |-> "measure", name |-> m] : m \in s.measures}
      [] t.kind = "relationship" ->
            {[kind |-> "source", name |-> n] : n \in {s.source, s.target}}
      [] OTHER -> {}

Has(tree, t) == t \in DOMAIN tree /\ tree[t] # Absent

Loads(tree) ==
    \A t \in Targets : Has(tree, t) =>
        \A u \in Needs(t, tree[t]) : Has(tree, u)

-----------------------------------------------------------------------------
(* Mandatory checks.                                                        *)

CheckMatrix ==
    [object_added |-> {"static"}, object_edited |-> {"static"},
     id_deprecated |-> {"static", "compatibility"},
     source_changed |-> {"physical"}, schema_changed |-> {"physical"},
     grain_changed |-> {"physical"}, relationship_changed |-> {"physical"},
     aggregation_changed |-> {"compatibility", "acceptance"},
     formula_changed |-> {"compatibility", "acceptance"},
     reference_changed |-> {"okf"}, overlay_changed |-> {"okf"},
     type_changed |-> {}, expression_changed |-> {}]

GroupImpacts(g) == UNION {Impacts(op) : op \in Ops(g)}

\* w is the session: its claims, evidence, gates and conflicts.
CitesData(g, w) ==
    \/ \E c \in ToSet(g.cases) : c.kind = "execution_assertion"
    \/ \E c \in g.claims \cap DOMAIN w.claims : w.claims[c].class = "observed"

CheckKinds(g, w) ==
    UNION {CheckMatrix[i] : i \in GroupImpacts(g)}
    \cup (IF {"type_changed", "expression_changed"} \cap GroupImpacts(g) # {}
             /\ CitesData(g, w)
            THEN {"physical"} ELSE {})

Selectors(g) ==
    {op.target : op \in {o \in Ops(g) : o.target.kind \in {"metric", "dimension"}}}

\* The planner, as far as a case can tell: QueryPlan has the rest of it.
PlanCode(tree, c) ==
    IF c.metrics = {} \/ \E m \in c.metrics : ~Has(tree, [kind |-> "metric", name |-> m])
      THEN "unknown_metric"
    ELSE IF \E d \in c.dimensions : ~Has(tree, [kind |-> "dimension", name |-> d])
      THEN "unknown_dimension"
    ELSE "planned"

CasePasses(tree, c) ==
    LET code == PlanCode(tree, c) IN
    CASE c.kind = "compatible_plan" -> code = "planned"
      [] c.kind = "planner_rejection" -> code # "planned" /\ code = c.expected
      [] c.kind = "execution_assertion" ->
            code = "planned" /\ (c.bound # Absent => Rows(c) <= c.bound)

Check(kind, g, tree, w) ==
    CASE kind = "acceptance" ->
            IF \A c \in ToSet(g.cases) : CasePasses(tree, c) THEN "passed" ELSE "failed"
      [] kind = "physical" ->
            IF w.reachable THEN Core(kind, {}, tree) ELSE "unavailable"
      [] kind = "compatibility" -> Core(kind, Selectors(g), tree)
      [] OTHER -> Core(kind, {}, tree)

Checks(g, tree, w) == [kind \in CheckKinds(g, w) |-> Check(kind, g, tree, w)]

-----------------------------------------------------------------------------
(* Readiness.                                                               *)

Supporting(g, w) == {w.claims[c] : c \in g.claims \cap DOMAIN w.claims}
ClaimSelectors(g, w) == UNION {c.selectors : c \in Supporting(g, w)}

\* What blocks a group by itself; every claim is current.
OwnBlockers(g, checks, w) ==
    {b \in {"gate_open", "claim_inferred_only", "evidence_selector_stale",
            "evidence_not_reopenable", "conflict_unresolved", "check_failed"} :
        CASE b = "gate_open" -> ~(g.gates \subseteq w.gates)
          [] b = "claim_inferred_only" ->
                \A c \in Supporting(g, w) : c.class = "inferred"
          [] b = "evidence_selector_stale" ->
                \/ \E s \in ClaimSelectors(g, w) : s.revision # w.revision[s.record]
                \/ \E c \in Supporting(g, w) :
                      c.class # "inferred" /\ c.declares /\ c.selectors = {}
          [] b = "evidence_not_reopenable" ->
                /\ "physical" \in DOMAIN checks
                /\ \E s \in ClaimSelectors(g, w) : s.record \in w.lost
          [] b = "conflict_unresolved" -> g.id \in w.disputed
          [] b = "check_failed" -> \E k \in DOMAIN checks : checks[k] # "passed"}

\* The groups in dependency-first order: a group waits for all it depends on.
Ready(p, own) ==
    LET ready[id \in GroupIds(p)] ==
            own[id] = {} /\ \A d \in ById(p, id).deps : ready[d]
    IN  ready

\* The report is one on this proposal.
Verify(p, tree, w) ==
    LET checks == [id \in GroupIds(p) |-> Checks(ById(p, id), tree, w)]
        own == [id \in GroupIds(p) |-> OwnBlockers(ById(p, id), checks[id], w)]
    IN  [proposal |-> p, checks |-> checks, ready |-> Ready(p, own)]
=============================================================================
