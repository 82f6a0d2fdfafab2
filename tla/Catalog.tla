-------------------------------- MODULE Catalog --------------------------------
(***************************************************************************)
(* The semantic layer (model.py), the rules a catalog must satisfy           *)
(* (catalog.py) and the static verification (verification/static.py).       *)
(*                                                                         *)
(* A document has a function for each section, from identifiers to           *)
(* declarations; a field that is not given is Absent.  An expression is the *)
(* sequence of its references, each a sequence of names, and the set of its *)
(* calls; an expression that does not parse is Absent too.  The code    *)
(* writes most rules twice, for the raw document and for the typed layer;    *)
(* both are the same operators here.  An issue is its path and the rule.    *)
(***************************************************************************)
EXTENDS SequencesExt, Integers

CONSTANTS Absent

Sections == {"sources", "dimensions", "facts", "measures", "metrics", "relationships"}

Accepts(dataType, columnType) ==
    CASE dataType = "integer" -> columnType \in {"int32", "int64"}
      [] dataType = "decimal" -> columnType \in {"decimal", "float64"}
      [] dataType = "double" -> columnType = "float64"
      [] dataType = "string" -> columnType = "utf8"
      [] OTHER -> FALSE
Numeric == {"integer", "decimal", "double"}
Orderable == Numeric \cup {"string"}
Aggregations == {"sum", "avg", "min", "max", "count", "count_distinct"}
Cardinalities == {"one_to_one", "one_to_many", "many_to_one", "many_to_many"}
Arity == [abs |-> 1, coalesce |-> 2, lower |-> 1]
RowFunctions == {"abs", "coalesce", "lower"}
MetricFunctions == {"abs", "coalesce"}

JoinGroup(columnType) ==
    CASE columnType \in {"int32", "int64"} -> "integer"
      [] columnType \in {"decimal", "float64"} -> "float"
      [] OTHER -> columnType

-----------------------------------------------------------------------------
(* Rules that the two validators share.  schemas maps the sources whose      *)
(* declarations are sound to their columns.                                 *)

HasColumn(schemas, s, c) == s \in DOMAIN schemas /\ c \in DOMAIN schemas[s]

When(condition, path, rule) == IF condition THEN {<<path, rule>>} ELSE {}

Undeclared(schemas, s, c, path) ==
    When(s \in DOMAIN schemas /\ ~HasColumn(schemas, s, c), path, "column_undeclared")

Mistyped(schemas, s, c, dataType, path) ==
    When(HasColumn(schemas, s, c) /\ ~Accepts(dataType, schemas[s][c].type),
         path, "type_incompatible")

Unknown(name, known, path) == When(name # Absent /\ name \notin known, path, "unknown")

GrainIssues(s, grain, schema) ==
    LET path == <<"sources", s, "grain">> IN
    When(~IsInjective(grain), path, "duplicate_column")
    \cup When(Range(grain) \ DOMAIN schema # {}, path, "column_undeclared")
    \cup When(\E c \in Range(grain) \cap DOMAIN schema : schema[c].nullable,
               path, "nullable_column")

CallIssues(expr, functions, path) ==
    When(\E c \in expr.calls : c.name \notin functions, path, "function_not_allowed")
    \cup When(\E c \in expr.calls : c.name \in DOMAIN Arity /\ c.args # Arity[c.name],
               path, "arity")

RowIssues(expr, known, path) ==
    When(\E r \in Range(expr.refs) : Len(r) # 2, path, "reference_shape")
    \cup When(\E r \in Range(expr.refs) : Len(r) = 2 /\ r[1] \notin known,
               path, "unknown_source")
    \cup CallIssues(expr, RowFunctions, path)

MetricIssues(expr, declared, path) ==
    LET single == {r[1] : r \in {x \in Range(expr.refs) : Len(x) = 1}} IN
    When(\E r \in Range(expr.refs) : Len(r) # 1, path, "reference_shape")
    \cup When(~(single \subseteq declared), path, "measure_undeclared")
    \cup When(~(declared \subseteq single), path, "measure_unused")
    \cup CallIssues(expr, MetricFunctions, path)

\* The columns a fact refers to exist, and the only one has its type.
ReferenceIssues(schemas, f, fact) ==
    LET qualified == SelectSeq(fact.expression.refs, LAMBDA r : Len(r) = 2)
    IN  UNION {Undeclared(schemas, r[1], r[2], <<"facts", f, "expression">>) :
                  r \in Range(qualified)}
        \cup IF Len(qualified) = 1
               THEN Mistyped(schemas, qualified[1][1], qualified[1][2], fact.data_type,
                             <<"facts", f, "data_type">>)
               ELSE {}

AggregationIssues(m, measure, facts) ==
    LET path == <<"measures", m, "aggregation">> IN
    When(/\ measure.fact \in DOMAIN facts
         /\ facts[measure.fact].data_type # Absent
         /\ facts[measure.fact].data_type \notin
              CASE measure.aggregation \in {"sum", "avg"} -> Numeric
                [] measure.aggregation \in {"min", "max"} -> Orderable
                [] OTHER -> {facts[measure.fact].data_type},
         path, "invalid_aggregation_type")

JoinIssues(r, rel, schemas) ==
    When(/\ HasColumn(schemas, rel.source, rel.source_column)
         /\ HasColumn(schemas, rel.target, rel.target_column)
         /\ JoinGroup(schemas[rel.source][rel.source_column].type)
              # JoinGroup(schemas[rel.target][rel.target_column].type),
         <<"relationships", r>>, "join_type_mismatch")

\* The steps between known sources that no row is multiplied by.
SafeEdges(rels, known) ==
    (known \X known) \cap
    ({<<rels[r].source, rels[r].target>> :
        r \in {x \in DOMAIN rels : rels[x].type \in {"one_to_one", "many_to_one"}}}
     \cup {<<rels[r].target, rels[r].source>> :
        r \in {x \in DOMAIN rels : rels[x].type \in {"one_to_one", "one_to_many"}}})

RECURSIVE Reach(_, _)
Reach(edges, S) ==
    LET more == S \cup {e[2] : e \in {x \in edges : x[1] \in S}}
    IN  IF more = S THEN S ELSE Reach(edges, more)
HasSafePath(edges, s, t) == t \in Reach(edges, {s})

ReachIssues(facts, rels, known) ==
    UNION {LET fact == facts[f] IN
           IF fact.expression = Absent \/ fact.source \notin known THEN {}
           ELSE {<<<<"facts", f, "expression">>, "unreachable">> :
                    r \in {x \in Range(fact.expression.refs) :
                             /\ Len(x) = 2 /\ x[1] \in known
                             /\ ~HasSafePath(SafeEdges(rels, known), fact.source, x[1])}}
           : f \in DOMAIN facts}

\* The anchor and grain of each measure of a metric that has them.
Resolved(doc, metric) ==
    LET found == SelectSeq(metric.measures, LAMBDA m :
                    /\ m \in DOMAIN doc.measures
                    /\ doc.measures[m].fact \in DOMAIN doc.facts
                    /\ doc.facts[doc.measures[m].fact].source \in DOMAIN doc.sources)
        anchor(m) == doc.facts[doc.measures[m].fact].source
    IN  {<<anchor(m), doc.sources[anchor(m)].grain>> : m \in Range(found)}
MixedGrains(doc) ==
    {<<<<"metrics", m, "measures">>, "mixed_grain">> :
        m \in {x \in DOMAIN doc.metrics :
                 doc.metrics[x].measures # Absent
                 /\ Cardinality(Resolved(doc, doc.metrics[x])) > 1}}

-----------------------------------------------------------------------------
(* The objects of a layer, and the layer as a whole.                        *)

DimensionIssues(schemas, known, d, dim) ==
    Unknown(dim.source, known, <<"dimensions", d, "source">>)
    \cup Undeclared(schemas, dim.source, dim.column, <<"dimensions", d, "column">>)
    \cup Mistyped(schemas, dim.source, dim.column, dim.data_type,
                   <<"dimensions", d, "data_type">>)

FactIssues(schemas, known, f, fact) ==
    Unknown(fact.source, known, <<"facts", f, "source">>)
    \cup IF fact.expression = Absent THEN {}
         ELSE RowIssues(fact.expression, known, <<"facts", f, "expression">>)
              \cup ReferenceIssues(schemas, f, fact)

MeasureIssues(m, measure, facts) ==
    Unknown(measure.fact, DOMAIN facts, <<"measures", m, "fact">>)
    \cup Unknown(measure.aggregation, Aggregations, <<"measures", m, "aggregation">>)
    \cup AggregationIssues(m, measure, facts)

MetricRules(m, metric, measures) ==
    LET declared == IF metric.measures = Absent THEN {} ELSE Range(metric.measures) IN
    When(~(declared \subseteq DOMAIN measures), <<"metrics", m, "measures">>, "unknown")
    \cup IF metric.expression = Absent THEN {}
         ELSE MetricIssues(metric.expression, declared, <<"metrics", m, "expression">>)

RelationshipIssues(schemas, known, r, rel) ==
    Unknown(rel.source, known, <<"relationships", r, "source">>)
    \cup Unknown(rel.target, known, <<"relationships", r, "target">>)
    \cup Unknown(rel.type, Cardinalities, <<"relationships", r, "type">>)
    \cup Undeclared(schemas, rel.source, rel.source_column, <<"relationships", r, "source_column">>)
    \cup Undeclared(schemas, rel.target, rel.target_column, <<"relationships", r, "target_column">>)
    \cup JoinIssues(r, rel, schemas)

ObjectIssues(doc, known, schemas) ==
    UNION {GrainIssues(s, doc.sources[s].grain, schemas[s]) : s \in DOMAIN schemas}
    \cup UNION {DimensionIssues(schemas, known, d, doc.dimensions[d]) : d \in DOMAIN doc.dimensions}
    \cup UNION {FactIssues(schemas, known, f, doc.facts[f]) : f \in DOMAIN doc.facts}
    \cup UNION {MeasureIssues(m, doc.measures[m], doc.facts) : m \in DOMAIN doc.measures}
    \cup UNION {MetricRules(m, doc.metrics[m], doc.measures) : m \in DOMAIN doc.metrics}
    \cup UNION {RelationshipIssues(schemas, known, r, doc.relationships[r]) :
                   r \in DOMAIN doc.relationships}

TopLevel(doc) == When(doc.version # 1, <<"version">>, "unsupported")

-----------------------------------------------------------------------------
(* The loader.                                                              *)

MetadataIssues(section, id, raw) ==
    LET at(field) == <<section, id, field>> IN
    When(raw.status \notin {"active", "deprecated"}, at("status"), "unsupported")
    \cup When(raw.status = "active" /\ raw.replaced_by # Absent,
               at("replaced_by"), "only_deprecated")

AllMetadata(doc) ==
    UNION {UNION {MetadataIssues(s, id, doc[s][id]) : id \in DOMAIN doc[s]} : s \in Sections}

Needed == [dimensions |-> {"source", "column", "data_type"},
           facts |-> {"source", "data_type", "expression"},
           measures |-> {"fact", "aggregation"},
           metrics |-> {"expression", "measures"},
           relationships |-> {"source", "target", "type", "source_column", "target_column"}]
Required(doc) ==
    UNION {UNION {{<<<<s, id, field>>, "required">> :
                      field \in {f \in Needed[s] : doc[s][id][f] = Absent}}
                  : id \in DOMAIN doc[s]}
           : s \in DOMAIN Needed}

\* One invalid declaration hides the schemas of all.
ConnectorIssues(doc) ==
    {<<<<"sources", s>>, "connector">> : s \in {x \in DOMAIN doc.sources : ~doc.sources[x].sound}}
ParsedSchemas(doc) ==
    IF ConnectorIssues(doc) # {} THEN <<>>
    ELSE [s \in DOMAIN doc.sources |-> doc.sources[s].schema]

LoadIssues(doc) ==
    LET known == DOMAIN doc.sources IN
    TopLevel(doc) \cup AllMetadata(doc) \cup Required(doc) \cup ConnectorIssues(doc)
    \cup ObjectIssues(doc, known, ParsedSchemas(doc))
    \cup MixedGrains(doc) \cup ReachIssues(doc.facts, doc.relationships, known)

Loads(doc) == LoadIssues(doc) = {}

-----------------------------------------------------------------------------
(* The typed layer: one that a program has built has no document, and what   *)
(* only documents are asked for - the metadata - is not looked at.          *)

TypedIssues(layer) ==
    ObjectIssues(layer, DOMAIN layer.sources,
                 [s \in DOMAIN layer.sources |-> layer.sources[s].schema])

ModelIssues(layer) ==
    TopLevel(layer) \cup TypedIssues(layer) \cup MixedGrains(layer)
    \cup ReachIssues(layer.facts, layer.relationships, DOMAIN layer.sources)

-----------------------------------------------------------------------------
(* Deprecation.  An object is named by its section and identifier.          *)

Objects(layer) == UNION {{s} \X DOMAIN layer[s] : s \in Sections}
Object(layer, id) == layer[id[1]][id[2]]
Deprecated(layer) == {id \in Objects(layer) : Object(layer, id).status = "deprecated"}
Replacement(layer, id) == Object(layer, id).replaced_by

\* The walk from start: whether it comes back before anything else ends it.
RECURSIVE Walk(_, _, _, _)
Walk(layer, start, id, visited) ==
    LET next == Replacement(layer, id) IN
    /\ next \in Objects(layer)
    /\ next[1] = id[1]
    /\ \/ next = start
       \/ next \notin visited \cup {id} /\ Walk(layer, start, next, visited \cup {next})

\* Mutant: a chain is followed for one step only.
OneStepError(layer, id) ==
    LET next == Replacement(layer, id) IN
    CASE next \notin Objects(layer) -> "replacement_missing"
      [] next \in Objects(layer) /\ next[1] # id[1] -> "replacement_kind"
      [] OTHER -> IF next = id THEN "self_replacement" ELSE "none"
DeprecationError(layer, id) ==
    LET next == Replacement(layer, id) IN
    CASE next \notin Objects(layer) -> "replacement_missing"
      [] next \in Objects(layer) /\ next[1] # id[1] -> "replacement_kind"
      [] next = id -> "self_replacement"
      [] next \in Objects(layer) \ {id} /\ next[1] = id[1] ->
            IF Walk(layer, id, id, {}) THEN "cycle" ELSE "none"

\* The static report: what it finds wrong with the layer.
StaticErrors(layer) ==
    ModelIssues(layer)
    \cup {<<id, DeprecationError(layer, id)>> :
             id \in {x \in Deprecated(layer) : DeprecationError(layer, x) # "none"}}
StaticPasses(layer) == StaticErrors(layer) = {}
=============================================================================
