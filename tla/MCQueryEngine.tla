---------------------------- MODULE MCQueryEngine ----------------------------
(* Three sources, each with a grain and a nullable column, a metric on the   *)
(* first, one on the second, and a dimension on the others.                 *)
EXTENDS QueryEngine

CONSTANT none

Column(nullable) == [type |-> "int64", nullable |-> nullable]
Active == [status |-> "active", replaced_by |-> none]
Source == [schema |-> [id |-> Column(FALSE), ref |-> Column(TRUE)], grain |-> <<"id">>,
           sound |-> TRUE] @@ Active
Reference(s, c) == [refs |-> <<<<s, c>>>>, calls |-> {}]
Fact(s, c) == [source |-> s, data_type |-> "integer", expression |-> Reference(s, c)] @@ Active
Dimension(s) == [source |-> s, column |-> "ref", data_type |-> "integer"] @@ Active
Measure(f) == [fact |-> f, aggregation |-> "sum"] @@ Active
Metric(m) == [measures |-> <<m>>, expression |-> [refs |-> <<<<m>>>>, calls |-> {}]] @@ Active

Related(s, sc, type, t, tc) ==
    [source |-> s, source_column |-> sc, type |-> type, target |-> t, target_column |-> tc] @@ Active

MCDraft ==
    [version |-> 1,
     sources |-> [s \in {"a", "b", "c"} |-> Source],
     dimensions |-> [of_b |-> Dimension("b"), of_c |-> Dimension("c")],
     facts |-> [fa |-> Fact("a", "ref"), fb |-> Fact("b", "ref")],
     measures |-> [ma |-> Measure("fa"), mb |-> Measure("fb")],
     metrics |-> [one |-> Metric("ma"), two |-> Metric("mb")],
     relationships |-> <<>>]

Relate(layer_, r, rel) == [layer_ EXCEPT !.relationships = (r :> rel) @@ @]
Retire(layer_, section, id, by) ==
    [layer_ EXCEPT ![section][id].status = "deprecated", ![section][id].replaced_by = by]

MCEditOf(l, e) ==
    CASE e = "a-b" -> Relate(l, e, Related("a", "ref", "many_to_one", "b", "id"))
      [] e = "a=b" -> Relate(l, e, Related("a", "id", "one_to_one", "b", "id"))
      [] e = "b<a" -> Relate(l, e, Related("b", "ref", "one_to_many", "a", "ref"))
      [] e = "b-c" -> Relate(l, e, Related("b", "ref", "many_to_one", "c", "id"))
      [] e = "c<b" -> Relate(l, e, Related("c", "id", "one_to_many", "b", "id"))
      [] e = "b<c" -> Relate(l, e, Related("b", "id", "one_to_many", "c", "ref"))
      [] e = "a-c" -> Relate(l, e, Related("a", "ref", "many_to_one", "c", "ref"))
      [] e = "c*a" -> Relate(l, e, Related("c", "ref", "many_to_many", "a", "ref"))
      [] e = "a-a" -> Relate(l, e, Related("a", "ref", "many_to_one", "a", "id"))
      [] e = "a-x" -> Relate(l, e, Related("a", "ref", "many_to_one", "x", "id"))
      [] e = "far fact" -> [l EXCEPT !.facts["fa"].expression = Reference("c", "ref")]
      [] e = "wide fact" -> [l EXCEPT !.facts["fa"].expression.refs = <<<<"a", "ref">>, <<"b", "ref">>>>]
      [] e = "lost fact" -> [l EXCEPT !.facts["fa"].source = "x"]
      [] e = "lost measure" -> [l EXCEPT !.measures["ma"].fact = "x"]
      [] e = "lost metric" -> [l EXCEPT !.metrics["one"] = Metric("x") ]
      [] e = "mixed metric" -> [l EXCEPT !.metrics["one"].measures = <<"ma", "mb">>,
                                         !.metrics["one"].expression.refs = <<<<"ma">>, <<"mb">>>>]
      [] e = "null grain" -> [l EXCEPT !.sources["b"].grain = <<"ref">>]
      [] e = "moved fact" -> [l EXCEPT !.facts["fb"].source = "a"]
      [] e = "one>two" -> Retire(l, "metrics", "one", <<"metrics", "two">>)
      [] e = "two>one" -> Retire(l, "metrics", "two", <<"metrics", "one">>)
      [] e = "one>one" -> Retire(l, "metrics", "one", <<"metrics", "one">>)
      [] e = "fa>one" -> Retire(l, "facts", "fa", <<"metrics", "one">>)
      [] e = "two>lost" -> Retire(l, "metrics", "two", <<"metrics", "x">>)
      [] e = "fb>fa" -> Retire(l, "facts", "fb", <<"facts", "fa">>)
      [] e = "b>c" -> Retire(l, "sources", "b", <<"sources", "c">>)
      [] e = "unsound" -> [l EXCEPT !.sources["c"].sound = FALSE]
      [] e = "untyped" -> [l EXCEPT !.dimensions["of_c"].data_type = none]
      [] e = "early end" -> [l EXCEPT !.metrics["one"].replaced_by = <<"metrics", "two">>]
      [] e = "one call" -> [l EXCEPT !.metrics["one"].expression.calls = {[name |-> "coalesce", args |-> 1]}]
      [] e = "text" -> [l EXCEPT !.sources["c"].schema["ref"].type = "utf8"]

Plain(metrics, dimensions) == [metrics |-> metrics, dimensions |-> dimensions, filters |-> <<>>]
Between(d, type) ==
    [dimension |-> d, filter |-> Normalized([as |-> "tuple", values |-> <<[type |-> type], none>>])]
MCRequestOf(q) ==
    CASE q = "one" -> Plain(<<"one">>, <<>>)
      [] q = "two" -> Plain(<<"two">>, <<>>)
      [] q = "both" -> Plain(<<"one", "two">>, <<>>)
      [] q = "one by b" -> Plain(<<"one">>, <<"of_b">>)
      [] q = "one by c" -> Plain(<<"one">>, <<"of_c">>)
      [] q = "one by b c" -> Plain(<<"one">>, <<"of_b", "of_c">>)
      [] q = "lost" -> Plain(<<"x">>, <<>>)
      [] q = "one for c" -> [Plain(<<"one">>, <<>>) EXCEPT !.filters = <<Between("of_c", "int")>>]
      [] q = "one for b" -> [Plain(<<"one">>, <<>>) EXCEPT !.filters = <<Between("of_b", "str")>>]

Row(id, ref) == [id |-> id, ref |-> ref]
MCTableOf(t) ==
    CASE t = "empty" -> <<>>
      [] t = "plain" -> <<Row(1, 1), Row(2, 2)>>
      [] t = "fan" -> <<Row(1, 1), Row(2, 1)>>
      [] t = "null" -> <<Row(1, none), Row(2, 1)>>
      [] t = "twice" -> <<Row(1, 1), Row(1, 2)>>
=============================================================================
