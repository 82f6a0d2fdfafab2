-------------------------------- MODULE Querying --------------------------------
(***************************************************************************)
(* A semantic query: what the planner makes of a request (planning), which   *)
(* rows the compiled SQL joins (compilation/duckdb.py), what the physical   *)
(* audit says of the data (verification/audit.py) and what the              *)
(* compatibility report says of a layer (verification/compatibility.py).    *)
(*                                                                         *)
(* data maps each source to a sequence of rows, each of them columns to     *)
(* values.  A joined row maps the sources joined to the places of their     *)
(* rows.  The filters of a request are sorted by their dimension.           *)
(***************************************************************************)
EXTENDS Catalog

CONSTANTS Null

-----------------------------------------------------------------------------
(* Relationship paths.                                                      *)

\* Mutant: the two directions are exchanged.
ExpandsBackward(rel, current) ==
    CASE rel.type = "one_to_one" -> FALSE
      [] rel.type = "one_to_many" -> current = rel.target
      [] rel.type = "many_to_one" -> current = rel.source
      [] OTHER -> TRUE
Expands(rel, current) ==
    CASE rel.type = "one_to_one" -> FALSE
      [] rel.type = "one_to_many" -> current = rel.source
      [] rel.type = "many_to_one" -> current = rel.target
      [] OTHER -> TRUE

Steps(layer) ==
    UNION {LET rel == layer.relationships[r] IN
           {[id |-> r, from |-> rel.source, to |-> rel.target],
            [id |-> r, from |-> rel.target, to |-> rel.source]}
           : r \in DOMAIN layer.relationships}
SafeSteps(layer) == {s \in Steps(layer) : ~Expands(layer.relationships[s.id], s.from)}
Linked(steps) == {<<s.from, s.to>> : s \in steps}

\* The layers of the breadth-first search.
RECURSIVE Levels(_, _)
Levels(steps, levels) ==
    LET next == {s.to : s \in {x \in steps : x.from \in Last(levels)}}
                    \ UNION Range(levels)
    IN  IF next = {} THEN levels ELSE Levels(steps, Append(levels, next))

\* Mutant: two relationships between two sources are counted as one.
StepsBetween(steps, levels, d, n) ==
    LET between == {s \in steps : s.to = n /\ s.from \in levels[d - 1]}
    IN  {CHOOSE s \in between : s.from = f : f \in {s.from : s \in between}}
StepsInto(steps, levels, d, n) == {s \in steps : s.to = n /\ s.from \in levels[d - 1]}

\* How many shortest paths lead to each source of the first d layers: one, or
\* two for more than one.
RECURSIVE Counted(_, _, _)
Counted(steps, levels, d) ==
    IF d = 1 THEN [n \in levels[1] |-> 1]
    ELSE LET before == Counted(steps, levels, d - 1)
         IN  [n \in levels[d] |->
                 Min({2, MapThenSumSet(LAMBDA s : before[s.from],
                                       StepsInto(steps, levels, d, n))})]
             @@ before

RECURSIVE PathTo(_, _, _, _)
PathTo(steps, levels, d, n) ==
    IF d = 1 THEN <<>>
    ELSE LET s == CHOOSE x \in StepsInto(steps, levels, d, n) : TRUE
         IN  Append(PathTo(steps, levels, d - 1, s.from), s)

\* A path is a sequence of steps, or the code of the error.
Found(layer, anchor, goal) ==
    LET steps == SafeSteps(layer)
        levels == Levels(steps, <<{anchor}>>)
        near == {d \in DOMAIN levels : goal \in levels[d]}
    IN  IF near # {}
          THEN LET d == CHOOSE x \in near : TRUE IN
               IF Counted(steps, levels, d)[goal] > 1
                 THEN [code |-> "ambiguous_relationship_path"]
                 ELSE [code |-> "path", path |-> PathTo(steps, levels, d, goal)]
          ELSE IF goal \in Reach(Linked(Steps(layer)), {anchor})
                 THEN [code |-> "row_expanding_path"]
                 ELSE [code |-> "no_relationship_path"]

-----------------------------------------------------------------------------
(* Requests and plans.                                                      *)

\* A tuple of two values is a range, any other sequence a list.
Normalized(input) ==
    CASE input.as = "tuple" /\ Len(input.values) = 2 -> [kind |-> "range", values |-> input.values]
      [] input.as = "scalar" -> [kind |-> "scalar", values |-> input.values]
      [] OTHER -> [kind |-> "list", values |-> input.values]

MatchesType(dataType, value) ==
    CASE dataType = "integer" -> value.type = "int"
      [] dataType \in {"decimal", "double"} -> value.type \in {"int", "float"}
      [] dataType = "string" -> value.type = "str"
      [] OTHER -> FALSE
FilterTyped(dataType, filter) ==
    \A v \in Range(filter.values) \ {Null} : MatchesType(dataType, v)

Once(seq) == FoldLeft(LAMBDA acc, x : IF x \in Range(acc) THEN acc ELSE Append(acc, x),
                      <<>>, seq)
Each(seq, Op(_)) == [i \in DOMAIN seq |-> Op(seq[i])]

MeasuresOf(layer, request) ==
    Once(FlattenSeq(Each(request.metrics, LAMBDA m : layer.metrics[m].measures)))
Anchors(layer, measures) ==
    {layer.facts[layer.measures[m].fact].source : m \in Range(measures)}

\* The sources a request needs beside its anchor, in the order they are asked for.
RequiredSources(layer, request, measures, anchor) ==
    LET home(d) == layer.dimensions[d].source
        refs == FlattenSeq(Each(measures, LAMBDA m :
                    layer.facts[layer.measures[m].fact].expression.refs))
    IN  Once(Each(request.dimensions, home)
             \o Each(request.filters, LAMBDA f : home(f.dimension))
             \o SelectSeq(Each(refs, LAMBDA r : r[1]), LAMBDA s : s # anchor))

Planned(layer, request, measures, anchor) ==
    LET goals == RequiredSources(layer, request, measures, anchor)
        found == [i \in DOMAIN goals |-> Found(layer, anchor, goals[i])]
        failed == {i \in DOMAIN found : found[i].code # "path"}
        joins == Once(FlattenSeq([i \in DOMAIN found |->
                     [k \in DOMAIN found[i].path |-> found[i].path[k].id]]))
        ends(r) == {layer.relationships[r].source, layer.relationships[r].target}
    IN  IF failed # {} THEN [code |-> found[Min(failed)].code]
        ELSE [code |-> "planned", anchor |-> anchor, joins |-> joins,
              dimensions |-> request.dimensions, measures |-> measures,
              metrics |-> request.metrics, filters |-> request.filters,
              sources |-> {anchor} \cup UNION {ends(r) : r \in Range(joins)}]

\* A name that the layer has not checked ends in a KeyError.
Plan(layer, request) ==
    IF request.metrics = <<>> \/ ~(Range(request.metrics) \subseteq DOMAIN layer.metrics)
      THEN [code |-> "unknown_metric"]
    ELSE IF ~(Range(request.dimensions) \subseteq DOMAIN layer.dimensions)
      THEN [code |-> "unknown_dimension"]
    ELSE IF \E f \in Range(request.filters) : f.dimension \notin DOMAIN layer.dimensions
      THEN [code |-> "unknown_filter_dimension"]
    ELSE IF Range(request.dimensions) \cap Range(request.metrics) # {}
      THEN [code |-> "duplicate_output_name"]
    ELSE LET measures == MeasuresOf(layer, request) IN
         IF ~(Range(measures) \subseteq DOMAIN layer.measures)
           THEN [code |-> "unknown_metric"]
         ELSE IF \E m \in Range(measures) : layer.measures[m].fact \notin DOMAIN layer.facts
           THEN [code |-> "KeyError"]
         ELSE IF Cardinality(Anchors(layer, measures)) # 1
           THEN [code |-> "mixed_grain"]
         ELSE IF ~(Anchors(layer, measures) \subseteq DOMAIN layer.sources)
           THEN [code |-> "KeyError"]
         ELSE IF \E f \in Range(request.filters) :
                     ~FilterTyped(layer.dimensions[f.dimension].data_type, f.filter)
           THEN [code |-> "invalid_filter_type"]
         ELSE Planned(layer, request, measures, CHOOSE a \in Anchors(layer, measures) : TRUE)

-----------------------------------------------------------------------------
(* The rows of the compiled query.  DuckDB's joins and comparisons are those *)
(* of SQL: nothing equals NULL.                                             *)

Equal(v, w) == v # Null /\ v = w

\* Each join is turned towards the source that is not yet there.
JoinTo(rows, available, rel, data) ==
    LET known == {rel.source, rel.target} \cap available
        added == {rel.source, rel.target} \ available
    IN  IF known = {} \/ added = {} THEN rows
        ELSE LET s == CHOOSE x \in added : TRUE IN
             {row \in {r @@ (s :> i) : r \in rows, i \in DOMAIN data[s]} :
                 Equal(data[rel.source][row[rel.source]][rel.source_column],
                       data[rel.target][row[rel.target]][rel.target_column])}

Joined(layer, plan, data) ==
    LET rel(r) == layer.relationships[r]
        start == [rows |-> {plan.anchor :> i : i \in DOMAIN data[plan.anchor]},
                  available |-> {plan.anchor}]
    IN  FoldLeft(LAMBDA acc, r :
                    [rows |-> JoinTo(acc.rows, acc.available, rel(r), data),
                     available |-> acc.available \cup {rel(r).source, rel(r).target}],
                 start, plan.joins).rows

-----------------------------------------------------------------------------
(* The physical audit: counts over all rows, never a value.                  *)

Keys(data, s, c) == [i \in DOMAIN data[s] |-> data[s][i][c]]
NullRows(keys) == Cardinality({i \in DOMAIN keys : keys[i] = Null})
\* SQL groups all nulls together.
DuplicateGroups(keys) ==
    Cardinality({k \in Range(keys) : Cardinality({i \in DOMAIN keys : keys[i] = k}) > 1})
Unmatched(keys, others) ==
    Cardinality({i \in DOMAIN keys : keys[i] # Null /\ keys[i] \notin Range(others)})

GrainPasses(layer, data, s) ==
    LET grain == layer.sources[s].grain
        tuples == [i \in DOMAIN data[s] |-> Each(grain, LAMBDA c : data[s][i][c])]
    IN  /\ \A i \in DOMAIN tuples : Null \notin Range(tuples[i])
        /\ IsInjective(tuples)

\* The one side has unique keys and no nulls, and every key of the other is
\* among them; null keys of the many side are allowed.
DirectedPasses(one, many) ==
    NullRows(one) = 0 /\ DuplicateGroups(one) = 0 /\ Unmatched(many, one) = 0

RelationshipPasses(rel, data) ==
    LET source == Keys(data, rel.source, rel.source_column)
        target == Keys(data, rel.target, rel.target_column)
    IN  CASE rel.type = "one_to_many" -> DirectedPasses(source, target)
          [] rel.type = "many_to_one" -> DirectedPasses(target, source)
          [] rel.type = "one_to_one" ->
                DirectedPasses(source, target) /\ DirectedPasses(target, source)
                /\ NullRows(target) + NullRows(source) = 0
          [] rel.type = "many_to_many" ->
                Unmatched(source, target) = 0 /\ Unmatched(target, source) = 0

\* An outcome of each source and relationship; those of a source that cannot
\* be scanned make the report incomplete.
GrainOutcome(layer, data, down, s) ==
    IF s \in down THEN "unavailable"
    ELSE IF GrainPasses(layer, data, s) THEN "passed" ELSE "failed"
RelationshipOutcome(layer, data, down, r) ==
    LET rel == layer.relationships[r] IN
    IF {rel.source, rel.target} \cap down # {} THEN "unavailable"
    ELSE IF RelationshipPasses(rel, data) THEN "passed" ELSE "failed"
AuditPasses(layer, data, down) ==
    /\ \A s \in DOMAIN layer.sources : GrainOutcome(layer, data, down, s) = "passed"
    /\ \A r \in DOMAIN layer.relationships :
          RelationshipOutcome(layer, data, down, r) = "passed"

-----------------------------------------------------------------------------
(* The compatibility report.                                                *)

\* The requests made of the names that are selected.
Requests(metrics, dimensions) ==
    LET ask(ms, ds) == [metrics |-> ms, dimensions |-> ds, filters |-> <<>>] IN
    {ask(<<m>>, <<>>) : m \in metrics}
    \cup {ask(<<m>>, <<d>>) : m \in metrics, d \in dimensions}
    \cup {ask(SetToSeq(pair), <<>>) : pair \in kSubset(2, metrics)}

\* Mutant: only what the request names.
NamedDeprecated(layer, plan) ==
    Deprecated(layer) \cap (({"metrics"} \X Range(plan.metrics))
                            \cup ({"dimensions"} \X Range(plan.dimensions)))
\* The deprecated objects of a plan; a dimension that only filters is no part
\* of what is asked.
DeprecatedIn(layer, plan) ==
    LET facts == {layer.measures[m].fact : m \in Range(plan.measures)}
        used == ({"metrics"} \X Range(plan.metrics))
                \cup ({"dimensions"} \X Range(plan.dimensions))
                \cup ({"measures"} \X Range(plan.measures))
                \cup ({"facts"} \X facts)
                \cup ({"sources"} \X plan.sources)
                \cup ({"relationships"} \X Range(plan.joins))
    IN  used \cap Deprecated(layer)

Refused(status, code) ==
    [status |-> status, code |-> code, compatible |-> FALSE, sources |-> {}, deprecated |-> {}]
Outcome(layer, request) ==
    LET plan == Plan(layer, request) IN
    IF plan.code = "planned"
      THEN [status |-> "passed", code |-> plan.code, compatible |-> TRUE,
            sources |-> plan.sources, deprecated |-> DeprecatedIn(layer, plan)]
      ELSE Refused("passed", plan.code)

\* A case that the user wrote, filters and all, fails when it names an
\* unknown metric or dimension.
CaseOutcome(layer, request) ==
    IF ~(Range(request.metrics) \subseteq DOMAIN layer.metrics)
      THEN Refused("failed", "unknown_metric")
    ELSE IF ~(Range(request.dimensions) \subseteq DOMAIN layer.dimensions)
      THEN Refused("failed", "unknown_dimension")
    ELSE Outcome(layer, request)

\* Nothing selected selects all; a name that is not known fails.
Compatibility(layer, check) ==
    LET selected(names, all) == IF names = {} THEN all ELSE names
        metrics == selected(check.metrics, DOMAIN layer.metrics)
        dimensions == selected(check.dimensions, DOMAIN layer.dimensions)
        unknown == ({"unknown_metric"} \X (metrics \ DOMAIN layer.metrics))
                   \cup ({"unknown_dimension"} \X (dimensions \ DOMAIN layer.dimensions))
    IN  {<<name, Refused("failed", name[1])>> : name \in unknown}
        \cup {<<r, Outcome(layer, r)>> :
                r \in Requests(metrics \cap DOMAIN layer.metrics,
                               dimensions \cap DOMAIN layer.dimensions)}
        \cup {<<r, CaseOutcome(layer, r)>> : r \in check.cases}
=============================================================================
