----------------------------- MODULE SessionIndex -----------------------------
(***************************************************************************)
(* What a session journal means: session.py of selayer-discovery.  An      *)
(* index is the state, hashes, dependencies and stale nodes that replaying *)
(* the events of a journal one after the other leads to.                   *)
(***************************************************************************)
EXTENDS Integers, Sequences, FiniteSets

CONSTANTS
    Nodes,      \* artifact nodes, the charter and the approver among them
    Hashes,     \* content hashes
    NoHash      \* the hash of a node nobody has recorded

ASSUME SessionHashes == NoHash \notin Hashes
ASSUME SessionNodes == IsFiniteSet(Nodes)

States == {"initialized", "intake", "sample_policy_pending", "interviewing",
           "drafting", "review_ready", "approved", "applied", "closed"}

\* Before the genesis event there is no charter and no state.
Absent == "absent"

\* _ALLOWED_TRANSITIONS.
Allowed ==
    [s \in States |->
        CASE s = "initialized" -> {"intake", "closed"}
          [] s = "intake" -> {"sample_policy_pending", "closed"}
          [] s = "sample_policy_pending" -> {"interviewing", "closed"}
          [] s = "interviewing" -> {"drafting", "closed"}
          [] s = "drafting" -> {"review_ready", "interviewing", "closed"}
          [] s = "review_ready" -> {"approved", "interviewing", "closed"}
          [] s = "approved" -> {"applied", "closed"}
          [] s = "applied" -> {"closed"}
          [] s = "closed" -> {}]

\* One node that an event records, with what it depends on.
Record == [node : Nodes, hash : Hashes, deps : SUBSET Nodes]

\* A charter event records the charter and the approver, an artifact event
\* one node, a transition none.
Types == {"charter_recorded", "charter_revised", "transition", "closed",
          "artifact_recorded"}

Index == [state : States \cup {Absent}, hash : [Nodes -> Hashes \cup {NoHash}],
          deps : [Nodes -> SUBSET Nodes], stale : SUBSET Nodes]

\* _Reconstructed.empty.
Empty == [state |-> Absent, hash |-> [n \in Nodes |-> NoHash],
          deps |-> [n \in Nodes |-> {}], stale |-> {}]

-----------------------------------------------------------------------------
Direct(r, S) == {n \in Nodes : r.deps[n] \cap S # {}}

\* Mutant of Dependents: only those that name a changed node themselves.
DirectDependents(r, S) == Direct(r, S)

\* _transitive_dependents: the loop pops a node and pushes its dependents.
Dependents(r, S) ==
    LET upTo[k \in 0..Cardinality(Nodes)] ==
            IF k = 0 THEN {} ELSE Direct(r, S \cup upTo[k - 1])
    IN  upTo[Cardinality(Nodes)]

\* _register_artifact, and the propagation of its callers when a hash that was
\* recorded before has changed.
Register(r, record) ==
    LET next == [r EXCEPT !.hash[record.node] = record.hash,
                          !.deps[record.node] = record.deps]
        changed == r.hash[record.node] \notin {NoHash, record.hash}
    IN  IF changed
        THEN [next EXCEPT !.stale = @ \cup Dependents(next, {record.node})]
        ELSE next

RegisterAll(r, records) ==
    LET after[k \in 0..Len(records)] ==
            IF k = 0 THEN r ELSE Register(after[k - 1], records[k])
    IN  after[Len(records)]

\* What _apply_event accepts when a journal is replayed ...
Replays(r, e) ==
    \/ e.type = "charter_recorded" /\ r.state = Absent
    \/ /\ e.type = "transition"
       /\ r.state \in States /\ e.target \in Allowed[r.state]
    \/ /\ e.type = "closed"
       /\ r.state \in States /\ "closed" \in Allowed[r.state]
    \/ /\ e.type \in {"charter_revised", "artifact_recorded"}
       /\ r.state \in States \ {"closed"}

\* ... and what it does.  A genesis has nothing to propagate to.
Apply(r, e) ==
    [RegisterAll(r, e.records) EXCEPT
        !.state = CASE e.type = "charter_recorded" -> "initialized"
                    [] e.type = "transition" -> e.target
                    [] e.type = "closed" -> "closed"
                    [] OTHER -> @]

\* _reconstruct without the head check.
Replay(journal) ==
    LET upTo[k \in 0..Len(journal)] ==
            IF k = 0 THEN Empty ELSE Apply(upTo[k - 1], journal[k])
    IN  upTo[Len(journal)]

Replayable(journal) ==
    \A k \in 1..Len(journal) : Replays(Replay(SubSeq(journal, 1, k - 1)),
                                       journal[k])

-----------------------------------------------------------------------------
\* The guards of the live mutations: transition and close; revise_charter and
\* record_artifact (_assert_open).
Permits(r, e) ==
    \/ /\ e.type \in {"transition", "closed"}
       /\ r.state # "closed"
       /\ e.target \in Allowed[r.state]
       /\ (e.target = "closed") <=> (e.type = "closed")
    \/ /\ e.type \in {"charter_revised", "artifact_recorded"}
       /\ r.state # "closed"
=============================================================================
