------------------------------ MODULE QueryEngine ------------------------------
(***************************************************************************)
(* A semantic layer on its way to answers (query.py): it is written edit by  *)
(* edit, given to QueryEngine, which refuses what the static verification   *)
(* finds wrong, asked, and the rows of the sources are whatever the         *)
(* sources hold then.                                                      *)
(*                                                                         *)
(* EditOf(layer, e) is the layer after the edit e, RequestOf(q) the request *)
(* q and TableOf(t) the rows of the table t.                                *)
(***************************************************************************)
EXTENDS Querying

CONSTANTS Draft, Edits, EditOf(_, _), Queries, RequestOf(_), Tables, TableOf(_),
          MaxEdits      \* bound on the edits
ASSUME MaxEditsAssumption == MaxEdits \in Nat

VARIABLES edits, layer, engine, report, request, plan, data
vars == <<edits, layer, engine, report, request, plan, data>>

Unplanned == [code |-> "none"]

Init ==
    /\ edits = {}
    /\ layer = Draft
    /\ engine = "none"
    /\ report = {}
    /\ request = "none"
    /\ plan = Unplanned
    /\ data = <<>>

Edit(e) ==
    /\ engine = "none"
    /\ e \notin edits
    /\ Cardinality(edits) < MaxEdits
    /\ edits' = edits \cup {e}
    /\ layer' = EditOf(layer, e)
    /\ UNCHANGED <<engine, report, request, plan, data>>

\* SemanticLayer.load: the layer as a document.
Load ==
    /\ engine = "none"
    /\ engine' = IF Loads(layer) THEN "loaded" ELSE "rejected"
    /\ UNCHANGED <<edits, layer, report, request, plan, data>>

\* QueryEngine: the static verification, before anything is opened.  A layer
\* that was not loaded was built by a program, with every field.
Construct ==
    /\ engine \in {"none", "loaded"}
    /\ engine = "none" => Required(layer) \cup ConnectorIssues(layer) = {}
    /\ engine' = IF StaticPasses(layer) THEN "open" ELSE "refused"
    /\ UNCHANGED <<edits, layer, report, request, plan, data>>

\* verify(layer, CompatibilityCheck(...)), with all cases that could be asked.
Report ==
    /\ engine = "open"
    /\ report = {}
    /\ request = "none"
    /\ report' = Compatibility(layer, [metrics |-> {}, dimensions |-> {},
                                      cases |-> {RequestOf(q) : q \in Queries}])
    /\ UNCHANGED <<edits, layer, engine, request, plan, data>>

\* QueryEngine.plan, the first half of a query.
Ask(q) ==
    /\ engine = "open"
    /\ report = {}
    /\ request = "none"
    /\ request' = q
    /\ plan' = Plan(layer, RequestOf(q))
    /\ UNCHANGED <<edits, layer, engine, report, data>>

\* The rows that the sources of the plan hold when the query runs.
Run(tables) ==
    /\ plan.code = "planned"
    /\ data = <<>>
    /\ data' = [s \in DOMAIN layer.sources |->
                   IF s \in plan.sources THEN TableOf(tables[s]) ELSE <<>>]
    /\ UNCHANGED <<edits, layer, engine, report, request, plan>>

Next ==
    \/ \E e \in Edits : Edit(e)
    \/ Load
    \/ Construct
    \/ Report
    \/ \E q \in Queries : Ask(q)
    \/ plan.code = "planned" /\ \E tables \in [plan.sources -> Tables] : Run(tables)

Spec == Init /\ [][Next]_vars

-----------------------------------------------------------------------------
(* Safe paths, by their definition: sequences of steps that start at the     *)
(* anchor, follow each other and visit no source twice.                     *)

IsPath(p, from, to) ==
    LET at == [i \in 0..Len(p) |-> IF i = 0 THEN from ELSE p[i].to] IN
    /\ \A i \in DOMAIN p : p[i].from = at[i - 1]
    /\ at[Len(p)] = to
    /\ IsInjective(at)
SafePaths(from, to) ==
    {p \in SeqOf(SafeSteps(layer), Cardinality(DOMAIN layer.sources) - 1) : IsPath(p, from, to)}
Shortest(paths) == {p \in paths : \A other \in paths : Len(p) <= Len(other)}

\* Every source that a plan joins is reached by the only shortest path from
\* the anchor on which no row is multiplied, a path that is not the only one
\* is refused, and the joins form a tree: none of them is skipped by the
\* compiler (planner.py, _safe_path_index and the join loop of plan_query;
\* compilation/duckdb.py, _join_sql).
PathExact ==
    request # "none" /\ plan.code \in {"planned", "ambiguous_relationship_path", "row_expanding_path"} =>
        LET asked == RequestOf(request)
            measures == MeasuresOf(layer, asked)
            anchor == CHOOSE a \in Anchors(layer, measures) : TRUE
            goals == Range(RequiredSources(layer, asked, measures, anchor)) \ {anchor}
            shortest(g) == Shortest(SafePaths(anchor, g))
        IN  CASE plan.code = "planned" ->
                   /\ \A g \in goals : Cardinality(shortest(g)) = 1
                   /\ Range(plan.joins) =
                         UNION {{s.id : s \in Range(p)} : p \in UNION {shortest(g) : g \in goals}}
                   /\ Cardinality(plan.sources) = Len(plan.joins) + 1
              [] plan.code = "ambiguous_relationship_path" ->
                   \E g \in goals : Cardinality(shortest(g)) > 1
              [] OTHER -> \E g \in goals : SafePaths(anchor, g) = {}

\* No answer counts a row of the anchor twice, whatever its joins, as long as
\* the physical audit passes on the same rows; and it leaves none out unless a
\* join key is null (planner.py, expands_rows; audit.py, verify_physical).
GrainKept ==
    data # <<>> /\ AuditPasses(layer, data, {}) =>
        LET rows == Joined(layer, plan, data)
            of(i) == {row \in rows : row[plan.anchor] = i}
            nulls == \E r \in Range(plan.joins) :
                        LET rel == layer.relationships[r] IN
                        Null \in Range(Keys(data, rel.source, rel.source_column))
                                 \cup Range(Keys(data, rel.target, rel.target_column))
        IN  \A i \in DOMAIN data[plan.anchor] :
               Cardinality(of(i)) \in IF nulls THEN {0, 1} ELSE {1}

\* What the engine accepts it can plan: no name is missing halfway, and a
\* metric on its own is refused only for a path that is not unique (catalog.py,
\* the reachability of facts and the grain of metrics; planner.py, plan_query).
AcceptedPlans ==
    /\ plan.code # "KeyError"
    /\ \A entry \in report :
          LET alone == entry[2].status = "passed"
                       /\ Len(entry[1].metrics) = 1
                       /\ entry[1].dimensions = <<>> /\ entry[1].filters = <<>>
          IN  /\ entry[2].code # "KeyError"
              /\ alone => entry[2].code \in {"planned", "ambiguous_relationship_path"}

\* What a name of an object leads to when its values are computed.
Leads ==
    UNION {{<<<<"metrics", m>>, <<"measures", x>>>> : x \in Range(layer.metrics[m].measures)} :
              m \in DOMAIN layer.metrics}
    \cup {<<<<"measures", m>>, <<"facts", layer.measures[m].fact>>>> : m \in DOMAIN layer.measures}
    \cup {<<<<"facts", f>>, <<"sources", layer.facts[f].source>>>> : f \in DOMAIN layer.facts}
    \cup UNION {{<<<<"facts", f>>, <<"sources", r[1]>>>> : r \in Range(layer.facts[f].expression.refs)} :
                   f \in DOMAIN layer.facts}
    \cup {<<<<"dimensions", d>>, <<"sources", layer.dimensions[d].source>>>> :
            d \in DOMAIN layer.dimensions}

\* A request that is reported compatible comes with every deprecated object
\* that its values are computed from, however deep (compatibility.py,
\* _deprecated_evidence).
EvidenceComplete ==
    \A entry \in {e \in report : e[2].compatible} :
        Deprecated(layer)
          \cap Reach(Leads, ({"metrics"} \X Range(entry[1].metrics))
                            \cup ({"dimensions"} \X Range(entry[1].dimensions)))
          \subseteq entry[2].deprecated

\* Whoever follows the replacements of a deprecated object of an open layer
\* ends at an active object of the same kind (verification/static.py).
ReplacedByActive ==
    engine = "open" =>
        \A id \in Deprecated(layer) :
            \E active \in Objects(layer) \ Deprecated(layer) :
                /\ active[1] = id[1]
                /\ active \in Reach({<<x, Replacement(layer, x)>> : x \in Deprecated(layer)}, {id})

\* An accepted layer keeps its word: what it names is planned, and what it
\* replaces leads to something active (SemanticLayer.load, verify_static).
AcceptedLayer == AcceptedPlans /\ ReplacedByActive
=============================================================================
