---------------------------- MODULE MCSessionStore ----------------------------
(* The instances of SessionStore that TLC checks.                            *)
EXTENDS SessionStore

CONSTANTS p1, p2

ClaimNodes == {"approver", "claim"}
GraphNodes == {"approver", "claim", "group"}

Rec(n, h, d) == [node |-> n, hash |-> h, deps |-> d]
Artifact(n, h, d) == [type |-> "artifact_recorded", target |-> "initialized",
                      records |-> <<Rec(n, h, d)>>]
Revise(h) == [type |-> "charter_revised", target |-> "initialized",
              records |-> <<Rec("approver", h, {})>>]
Move(s) == [type |-> IF s = "closed" THEN "closed" ELSE "transition",
            target |-> s, records |-> <<>>]

OneApprover == <<Rec("approver", 1, {})>>

\* A transition, an artifact and the end of the session.
FewRequests == {Move("intake"), Move("closed"), Artifact("claim", 1, {})}

\* A cycle of two nodes, one of which depends on the approver, the revision of
\* the approver, and the end of the session.
CycleRequests ==
    {Artifact("claim", 1, {"approver", "group"}),
     Artifact("group", 1, {"claim"}), Revise(2), Move("closed")}

\* A claim about the approver, recorded before and after the approver is revised.
RebuildRequests ==
    {Artifact("claim", h, {"approver"}) : h \in {1, 2}} \cup {Revise(2)}
=============================================================================
