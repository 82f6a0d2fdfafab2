------------------------------ MODULE MCApproval ------------------------------
(* One source and one dimension, a reference and an overlay of the same     *)
(* path; proposals that overlap and replace one another.                    *)
EXTENDS Approval

CONSTANTS none, ann, bob, p1, p2

T(k, n) == [kind |-> k, name |-> n]
MCTargets == {T("source", "sales"), T("dimension", "city"), T("reference", "notes"),
              T("overlay", "notes")}
MCAbsent == none
MCMalformed == {}
\* No data has the grain that an edit declares.
MCCore(kind, selectors, files) ==
    IF kind \in {"physical", "compatibility"} /\ files[T("source", "sales")].grain = "row"
      THEN "failed" ELSE "passed"
MCRows(c) == 1

Sales == [grain |-> "id", type |-> "csv", schema |-> "id,city"]
City(type) == [source |-> "sales", column |-> "city", data_type |-> type]
Text(s) == [content |-> s]
MCFirstTree ==
    (T("source", "sales") :> Sales) @@ (T("dimension", "city") :> City("string"))
    @@ (T("reference", "notes") :> Text("old")) @@ (T("overlay", "notes") :> none)

Op(id, do, t, before, after) ==
    [id |-> id, do |-> do, target |-> t, before |-> before, hash |-> before,
     after |-> after]
Retype(id, to) == Op(id, "edit", T("dimension", "city"), City("string"), City(to))
Retire(id) == Op(id, "deprecate", T("dimension", "city"), City("string"),
                 City("string") @@ [status |-> "deprecated"])

Rewrite(id) == Op(id, "update", T("reference", "notes"), Text("old"), Text("new"))

Group(id, ops) ==
    [id |-> id, deps |-> {}, ops |-> ops, claims |-> {"c"}, gates |-> {"owner"},
     cases |-> <<>>]
\* A catalog and a document operation in one group; two groups that change
\* the same dimension; a group that waits for one that is not there.
MCProposal(file) ==
    CASE file = "plain" -> <<Group(1, <<Retype(1, "integer"), Rewrite(2)>>)>>
      [] file = "overlap" -> <<Group(1, <<Retype(1, "date")>>),
                               Group(2, <<Retire(2)>>)>>
      [] file = "dangling" ->
            <<[Group(1, <<Retype(1, "date")>>) EXCEPT !.deps = {9}]>>

\* The edits of a developer: another type for the dimension, another grain.
MCEdits == {[target |-> T("dimension", "city"), state |-> City("float")],
            [target |-> T("source", "sales"), state |-> [Sales EXCEPT !.grain = "row"]]}
MCSession ==
    [approver |-> ann, policy |-> "none", gates |-> {"owner"}, disputed |-> {},
     claims |-> [c \in {"c"} |->
        [class |-> "observed", declares |-> TRUE,
         selectors |-> {[record |-> "doc", revision |-> 1]}]],
     revision |-> [d \in {"doc"} |-> 1], lost |-> {}, reachable |-> TRUE,
     open |-> TRUE, recorded |-> none]
MCMoved(w, s) ==
    CASE w = "approver" -> [s EXCEPT !.approver = bob]
      [] w = "closed" -> [s EXCEPT !.open = FALSE, !.policy = "active"]
      [] w = "evidence" -> [s EXCEPT !.revision = [d \in {"doc"} |-> 2], !.gates = {}]

\* One process works through a batch, another interferes once.
MCCommands == (p1 :> 4) @@ (p2 :> 1)
=============================================================================
