------------------------------- MODULE MCBundle -------------------------------
(* A metric and a fact, a guide that people write, an overlay of the metric  *)
(* and one that is bound to nothing.                                        *)
EXTENDS Bundle

CONSTANTS none, bad

Metric == <<"metric", "m">>
Fact == <<"fact", "f">>
Guide == <<"references", "guide">>
MCPlaces == {concept_path(Metric), concept_path(Fact), Guide}
MCRank(path) == CASE path[1] = "facts" -> 1 [] path[1] = "metrics" -> 2 [] OTHER -> 3

Object(definition, description) ==
    [definition |-> definition, description |-> description, status |-> "active", replaced_by |-> none]
MCFirst == (Metric :> Object("sum f", "money")) @@ (Fact :> Object("f", none))
MCCatalogs ==
    {MCFirst, Restrict(MCFirst, {Metric}), [MCFirst EXCEPT ![Metric].definition = "avg f"],
     [MCFirst EXCEPT ![Metric].description = "profit"],
     [MCFirst EXCEPT ![Metric].status = "deprecated", ![Metric].replaced_by = Metric]}

Own == [Blank EXCEPT !.type = "Guide", !.title = "guide", !.links = {concept_path(Metric)}]
MCPages == {[Own EXCEPT !.curated = "notes"]}
MCEdits ==
    {[curated |-> "notes"], [definitions |-> <<"hand">>], [title |-> "mine"], [generated |-> none],
     [parses |-> FALSE], [links |-> {concept_path(Fact), Guide}]}

Overlay(id) == [Blank EXCEPT !.selayer_id = id, !.curated = "notes", !.links = {Guide}]
MCInputOf(i) ==
    CASE i = "plain" -> [references |-> <<>>, overlays |-> <<>>]
      [] i = "guided" -> [references |-> Guide :> Own,
                          overlays |-> concept_path(Metric) :> Overlay(Metric)]
      [] i = "dangling" -> [references |-> <<>>, overlays |-> concept_path(Fact) :> Overlay(Fact)]
      [] i = "lost" -> [references |-> Guide :> Own, overlays |-> concept_path(Fact) :> Overlay(Metric)]

MCRequestOf(r) ==
    CASE r = "one" -> [ids |-> <<Metric>>, depth |-> 0, budget |-> 9]
      [] r = "near" -> [ids |-> <<Metric>>, depth |-> 1, budget |-> 9]
      [] r = "far" -> [ids |-> <<Fact>>, depth |-> 2, budget |-> 9]
      [] r = "tight" -> [ids |-> <<Metric>>, depth |-> 2, budget |-> 2]
      [] r = "both" -> [ids |-> <<Metric, Fact>>, depth |-> 1, budget |-> 3]
=============================================================================
