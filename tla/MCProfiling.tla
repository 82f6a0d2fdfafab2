------------------------------ MODULE MCProfiling ------------------------------
(* A key column, a measured one that an export may show, and one that is     *)
(* denied by its name; a token that tells two versions apart and one that    *)
(* lies.                                                                    *)
EXTENDS Profiling

CONSTANTS none, p1, p2

MCGrain == <<"id">>
MCTypes == [c \in Columns |-> "int"]
MCCaps == [rows |-> 2, fields |-> 2, source |-> 4, session |-> 5, revealed |-> 2]
MCRank(s, key) == IF key[1] = Null THEN 0 ELSE (key[1] * 7) % 5

Row(k, v) == [id |-> k, amount |-> v, token |-> k]
Early == <<Row(1, 5), Row(2, Null)>>
Late == <<Row(3, 7)>>
Other == <<Row(1, 9)>>
MCContent(v) ==
    CASE v = "old" -> <<Early, Late>>
      [] v = "new" -> <<Other, Late, Early>>
      [] v = "lie" -> <<Other, Late>>
MCToken(v) == IF v = "new" THEN 2 ELSE 1

Show(how) == [c \in Columns |-> IF c = "amount" THEN how ELSE "omit"]
MCPolicies(profile) ==
    {Show("reveal"), [Show("bucket") EXCEPT !["token"] = "reveal"]}
MCFirst == [data |-> "old", approver |-> "ann"]
=============================================================================
