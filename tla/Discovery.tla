------------------------------ MODULE Discovery -------------------------------
(***************************************************************************)
(* The interview store, the claim store and the attestation of groups over *)
(* one session (interview.py, ClaimStore of evidence.py, group readiness   *)
(* of proposal.py, "proposal attest").                                     *)
(*                                                                         *)
(* A command of either store takes the lock of its store, replays the      *)
(* journal, appends a line, and binds what it wrote as an artifact of the  *)
(* session, whose dependency index makes the transitive dependents of a    *)
(* revised artifact stale.  Line and binding are in two journals with two  *)
(* locks: between them a process may be killed, the session may be closed  *)
(* and the other store may go on.  "attest" reads both stores one after    *)
(* the other, under no lock of its own.                                    *)
(*                                                                         *)
(* A line is synced before the next step and journals only grow: kept is   *)
(* what replaying the interview journal yields, and the claim journals are *)
(* the claims and conflicts they yield.  One call of the session store is  *)
(* one step here; SessionStore has its inside.  Texts, reasons, selectors  *)
(* and scopes are taken to be valid.                                       *)
(***************************************************************************)
EXTENDS InterviewIndex, FiniteSets

CONSTANTS
    Procs,          \* command processes
    NoProc,         \* nobody holds a lock
    Claims, Conflicts, Groups,
    Semantic,       \* the conflicts only the approver may resolve
    Affecting,      \* the gates that affect each group
    Support,        \* the claims each group cites
    Approvers, FirstApprover,
    NoOne,          \* no approver, no gate
    NoHash,         \* the hash of an artifact nobody has recorded
    MaxLines,       \* bound: commands that write
    MaxFaults       \* bound: processes killed, changes of the approver, closed session

ASSUME DiscoveryBounds == MaxLines \in Nat /\ MaxFaults \in Nat
ASSUME DiscoveryGroups ==
    /\ Affecting \in [Groups -> SUBSET Gates]
    /\ Support \in [Groups -> SUBSET Claims]
    /\ Semantic \subseteq Conflicts
    /\ FirstApprover \in Approvers
    /\ NoOne \notin Approvers \cup Gates /\ NoProc \notin Procs

VARIABLES
    kept,       \* the interview journal, replayed
    claims,     \* the gate whose answer each claim names as its creator
    conflicts,  \* the latest state of each conflict
    session,    \* the session's index: hashes, dependencies, stale artifacts
    attested,   \* the approver of each group's attestation
    lock,       \* the locks of the two stores
    todo,       \* what is left of each process's command
    view,       \* the interview index in each process's memory
    seen,       \* the approver in the charter each process has opened
    lines,      \* commands that have written
    faults,     \* kills and approver changes so far
    overtaken   \* the approver changed while a process had the older charter open

stores == <<kept, claims, conflicts, attested>>
local  == <<todo, view, seen>>
vars   == <<stores, session, lock, local, lines, faults, overtaken>>

-----------------------------------------------------------------------------
(* Artifacts of the session.                                                *)

Approver == <<"approver">>
QuestionNode(i) == <<"question", i>>
AnswerNode(g) == <<"answer", g>>
GateNode(g) == <<"gate", g>>
ClaimNode(c) == <<"claim", c>>
ConflictNode(k) == <<"conflict", k>>

ArtifactNodes ==
    {Approver} \cup {QuestionNode(i) : i \in 1..MaxLines}
    \cup {AnswerNode(g) : g \in Gates} \cup {GateNode(g) : g \in Gates}
    \cup {ClaimNode(c) : c \in Claims}
    \cup {ConflictNode(k) : k \in Conflicts}

\* The hash of an answer is its text and author; the payloads of the others
\* have a timestamp in them: no two commands give the same hash.
ArtifactHashes == Texts \cup Approvers \cup (1..MaxLines)

ASSUME DiscoveryNodes == IsFiniteSet(ArtifactNodes) /\ NoHash \notin ArtifactHashes

Session == INSTANCE SessionIndex WITH
              Nodes <- ArtifactNodes, Hashes <- ArtifactHashes

Artifact(n, h, d) == [node |-> n, hash |-> h, deps |-> d]

-----------------------------------------------------------------------------
Unresolved == "unresolved"
ASSUME DiscoveryStates == Unresolved \notin Approvers \cup {NoOne}

\* A conflict names its claims and groups; its state is who resolved it.
Conflict == [claims : SUBSET Claims, groups : SUBSET Groups,
             state : Approvers \cup {Unresolved}]
NoConflict == [claims |-> {}, groups |-> {}, state |-> NoOne]

\* A step of a command: a further line, a binding, or a step of "attest".
Line(e) == [do |-> "line", event |-> e]
Bind(n, h, d) == [do |-> "bind", artifact |-> Artifact(n, h, d)]
ReadGates(group) == [do |-> "gates", group |-> group]
Sign(group) == [do |-> "attest", group |-> group]

Next1(p) == Head(todo[p])
Does(p, what) == todo[p] # <<>> /\ Next1(p).do = what
Idle(p) == todo[p] = <<>>

TypeOK ==
    /\ kept \in InterviewIndex
    /\ claims \in [Claims -> Gates \cup {NoOne}]
    /\ conflicts \in [Conflicts -> Conflict \cup {NoConflict}]
    /\ session \in Session!Index
    /\ attested \in [Groups -> Approvers \cup {NoOne}]
    /\ lock \in [{"interview", "claims"} -> Procs \cup {NoProc}]
    /\ \A p \in Procs : \A i \in 1..Len(todo[p]) :
          todo[p][i].do \in {"line", "bind", "gates", "attest"}
    /\ view \in [Procs -> InterviewIndex]
    /\ seen \in [Procs -> Approvers \cup {NoOne}]
    /\ lines \in 0..MaxLines
    /\ faults \in [kills : 0..MaxFaults, revisions : 0..MaxFaults]
    /\ overtaken \in BOOLEAN

Init ==
    /\ kept = Empty
    /\ claims = [c \in Claims |-> NoOne]
    /\ conflicts = [k \in Conflicts |-> NoConflict]
    /\ session = [Session!Register(Session!Empty,
                                   Artifact(Approver, FirstApprover, {}))
                     EXCEPT !.state = "interviewing"]
    /\ attested = [group \in Groups |-> NoOne]
    /\ lock = [store \in {"interview", "claims"} |-> NoProc]
    /\ todo = [p \in Procs |-> <<>>]
    /\ view = [p \in Procs |-> Empty]
    /\ seen = [p \in Procs |-> NoOne]
    /\ lines = 0
    /\ faults = [kills |-> 0, revisions |-> 0]
    /\ overtaken = FALSE

-----------------------------------------------------------------------------
(* Interview commands.                                                      *)

\* _locked and the first _append: the lock is free, the journal is replayed,
\* and the line is written.
Writes(p, store, rest) ==
    /\ Idle(p)
    /\ lock[store] = NoProc
    /\ lines < MaxLines
    /\ lock' = [lock EXCEPT ![store] = p]
    /\ todo' = [todo EXCEPT ![p] = rest]
    /\ lines' = lines + 1
    /\ UNCHANGED <<session, attested, faults>>

Interviews(p, e, rest) ==
    /\ seen[p] = NoOne
    /\ Writes(p, "interview", rest)
    /\ kept' = Applied(kept, e)
    /\ view' = [view EXCEPT ![p] = Live(Prepared(kept, e), e)]
    /\ UNCHANGED <<claims, conflicts, seen, overtaken>>

Disposition(g, d) == [type |-> "gate_disposition", gate |-> g,
                      disposition |-> d]

\* The fingerprint of a payload written now.
Stamp == lines + 1

\* ask.
Ask(p) ==
    LET id == Len(kept.questions) + 1
    IN  /\ kept.open = None
        /\ \E g \in Gates :
              Interviews(p, [type |-> "question_asked", id |-> id, gate |-> g],
                         <<Bind(QuestionNode(id), Stamp, {})>>)

\* answer: the open question, if there is one, is of this gate.  The gate is
\* disposed as answered and bound before the answer is bound.
AnswerGate(p) ==
    LET id == Len(kept.answers) + 1
        asked == IF kept.open = None THEN {} ELSE {QuestionNode(kept.open)}
    IN  \E g \in Gates, text \in Texts :
            /\ kept.open # None => kept.questions[kept.open].gate = g
            /\ Interviews(p,
                  [type |-> "answer_recorded", id |-> id, gate |-> g,
                   text |-> text, question |-> kept.open],
                  <<Line(Disposition(g, "answered")),
                    Bind(GateNode(g), Stamp, {AnswerNode(g)}),
                    Bind(AnswerNode(g), text, asked)>>)

\* Mutant of Correct: an answer that has been superseded is cited again.
CorrectAny(p) ==
    LET id == Len(kept.answers) + 1
    IN  \E old \in 1..Len(kept.answers), text \in Texts :
            LET g == kept.answers[old].gate
            IN  Interviews(p,
                   [type |-> "correction_recorded", id |-> id, gate |-> g,
                    text |-> text, old |-> old],
                   <<Bind(AnswerNode(g), text, {})>>)

\* correct: a current answer is superseded by a new one of its gate.
Correct(p) ==
    LET id == Len(kept.answers) + 1
    IN  \E old \in 1..Len(kept.answers), text \in Texts :
            LET g == kept.answers[old].gate
            IN  /\ IsCurrent(kept, old)
                /\ Interviews(p,
                      [type |-> "correction_recorded", id |-> id, gate |-> g,
                       text |-> text, old |-> old],
                      <<Bind(AnswerNode(g), text, {})>>)

\* set_gate.
SetGate(p) ==
    \E g \in Gates, d \in Dispositions :
        Interviews(p, Disposition(g, d),
                   <<Bind(GateNode(g), Stamp, {AnswerNode(g)})>>)

-----------------------------------------------------------------------------
(* Claim commands.                                                          *)

Recorded == {c \in Claims : claims[c] # NoOne}

\* add_claim, of a claim that cites an answer.
AddClaim(p) ==
    /\ seen[p] = NoOne
    /\ \E c \in Claims \ Recorded, g \in Gates :
          /\ claims' = [claims EXCEPT ![c] = g]
          /\ Writes(p, "claims", <<Bind(ClaimNode(c), Stamp, {AnswerNode(g)})>>)
    /\ UNCHANGED <<kept, conflicts, view, seen, overtaken>>

\* add_conflict.
AddConflict(p) ==
    /\ seen[p] = NoOne
    /\ \E k \in Conflicts, involved \in (SUBSET Recorded) \ {{}},
          groups \in (SUBSET Groups) \ {{}} :
          /\ conflicts[k] = NoConflict
          /\ conflicts' = [conflicts EXCEPT ![k] =
                [claims |-> involved, groups |-> groups,
                 state |-> Unresolved]]
          /\ Writes(p, "claims", <<Bind(ConflictNode(k), Stamp,
                                       {ClaimNode(c) : c \in involved})>>)
    /\ UNCHANGED <<kept, claims, view, seen, overtaken>>

\* SessionStore.open by resolve-conflict: the charter it will check its actor
\* against.
OpenSession(p) ==
    /\ Idle(p) /\ seen[p] = NoOne
    /\ lines < MaxLines
    /\ \E k \in Conflicts : conflicts[k].state = Unresolved
    /\ seen' = [seen EXCEPT ![p] = session.hash[Approver]]
    /\ UNCHANGED <<stores, session, lock, todo, view, lines, faults, overtaken>>

\* Mutant of ResolveDeps: a semantic resolution does not depend on the approver.
ResolveClaimDeps(k) == {ClaimNode(c) : c \in conflicts[k].claims}

ResolveDeps(k) ==
    {ClaimNode(c) : c \in conflicts[k].claims}
    \cup IF k \in Semantic THEN {Approver} ELSE {}

\* resolve_conflict, by the approver of the charter the process has opened.
ResolveConflict(p) ==
    /\ seen[p] # NoOne
    /\ \E k \in Conflicts :
          /\ conflicts[k].state = Unresolved
          /\ conflicts' = [conflicts EXCEPT ![k].state = seen[p]]
          /\ Writes(p, "claims", <<Bind(ConflictNode(k), Stamp,
                                       ResolveDeps(k))>>)
    /\ UNCHANGED <<kept, claims, view, seen, overtaken>>

-----------------------------------------------------------------------------
(* The rest of a command.                                                   *)

\* The process is gone, or its call has returned or raised.
Ends(p) ==
    /\ todo' = [todo EXCEPT ![p] = <<>>]
    /\ view' = [view EXCEPT ![p] = Empty]
    /\ seen' = [seen EXCEPT ![p] = NoOne]
    /\ lock' = [store \in DOMAIN lock |->
                   IF lock[store] = p THEN NoProc ELSE lock[store]]

Continues(p) ==
    IF Len(todo[p]) = 1 THEN Ends(p)
    ELSE todo' = [todo EXCEPT ![p] = Tail(@)] /\ UNCHANGED <<view, seen, lock>>

\* The disposition that answer writes after the answer.
WriteLine(p) ==
    /\ Does(p, "line")
    /\ LET e == Next1(p).event
       IN  /\ kept' = Applied(kept, e)
           /\ view' = [view EXCEPT ![p] = Live(@, e)]
    /\ todo' = [todo EXCEPT ![p] = Tail(@)]
    /\ UNCHANGED <<claims, conflicts, attested, session, lock, seen, lines,
                   faults, overtaken>>

\* record_artifact.
RecordArtifact(p) ==
    /\ Does(p, "bind")
    /\ session.state # "closed"
    /\ session' = Session!Register(session, Next1(p).artifact)
    /\ Continues(p)
    /\ UNCHANGED <<stores, lines, faults, overtaken>>

\* The session was closed after the line was written: the command raises.
RecordRefused(p) ==
    /\ Does(p, "bind")
    /\ session.state = "closed"
    /\ Ends(p)
    /\ UNCHANGED <<stores, session, lines, faults, overtaken>>

-----------------------------------------------------------------------------
(* proposal attest.                                                         *)

\* The part of _group_readiness that reads the claims and conflicts.
ClaimsReady(group) ==
    /\ Support[group] \cap Recorded # {}
    /\ \A k \in Conflicts :
          group \in conflicts[k].groups => conflicts[k].state # Unresolved

\* ClaimStore.create, before InterviewStore.create.
VerifyClaims(p) ==
    /\ Idle(p) /\ seen[p] = NoOne
    /\ lock["claims"] = NoProc
    /\ \E group \in Groups :
          /\ ClaimsReady(group)
          /\ todo' = [todo EXCEPT ![p] = <<ReadGates(group), Sign(group)>>]
    /\ UNCHANGED <<stores, session, lock, view, seen, lines, faults, overtaken>>

\* InterviewStore.create, and the verdict: a group that is not ready raises.
VerifyGates(p) ==
    /\ Does(p, "gates")
    /\ lock["interview"] = NoProc
    /\ todo' = [todo EXCEPT ![p] =
                  IF GatesReady(kept, Affecting[Next1(p).group])
                  THEN Tail(@) ELSE <<>>]
    /\ UNCHANGED <<stores, session, lock, view, seen, lines, faults, overtaken>>

\* attest_group by the approver of a charter that has just been refreshed, with
\* group_stale=False, and the attestation file.
Attest(p) ==
    /\ Does(p, "attest")
    /\ attested' = [attested EXCEPT ![Next1(p).group] = session.hash[Approver]]
    /\ Ends(p)
    /\ UNCHANGED <<kept, claims, conflicts, session, lines, faults, overtaken>>

-----------------------------------------------------------------------------
(* The session's other users, and crashes.                                  *)

Faults == faults.kills + faults.revisions
             + IF session.state = "closed" THEN 1 ELSE 0

ReviseApprover ==
    /\ session.state # "closed"
    /\ Faults < MaxFaults
    /\ faults' = [faults EXCEPT !.revisions = @ + 1]
    /\ \E a \in Approvers \ {session.hash[Approver]} :
          session' = Session!Register(session, Artifact(Approver, a, {}))
    /\ overtaken' = (overtaken \/ \E p \in Procs : seen[p] # NoOne)
    /\ UNCHANGED <<stores, lock, local, lines>>

CloseSession ==
    /\ session.state # "closed"
    /\ Faults < MaxFaults
    /\ session' = [session EXCEPT !.state = "closed"]
    /\ UNCHANGED <<stores, lock, local, lines, faults, overtaken>>

\* A process is killed between its line and its binding.
Kill(p) ==
    /\ \E store \in DOMAIN lock : lock[store] = p
    /\ Faults < MaxFaults
    /\ faults' = [faults EXCEPT !.kills = @ + 1]
    /\ Ends(p)
    /\ UNCHANGED <<stores, session, lines, overtaken>>

-----------------------------------------------------------------------------
Interview(p) == Ask(p) \/ AnswerGate(p) \/ Correct(p) \/ SetGate(p)
Claim(p) == AddClaim(p) \/ AddConflict(p) \/ OpenSession(p) \/ ResolveConflict(p)
Rest(p) == WriteLine(p) \/ RecordArtifact(p) \/ RecordRefused(p)
Approve(p) == VerifyClaims(p) \/ VerifyGates(p) \/ Attest(p)

Next ==
    \/ \E p \in Procs : Interview(p) \/ Claim(p) \/ Rest(p) \/ Approve(p) \/ Kill(p)
    \/ ReviseApprover \/ CloseSession

Spec == Init /\ [][Next]_vars

-----------------------------------------------------------------------------
(* The transcript.                                                          *)

\* "At most one question may be open at a time", whoever asks, and the current
\* answer of a gate is one that no correction has superseded.
OneOpenQuestion ==
    /\ \A i \in 1..Len(kept.questions) : IsOpen(kept, i) <=> kept.open = i
    /\ \A g \in Gates : kept.current[g] # None =>
          /\ kept.answers[kept.current[g]].gate = g
          /\ IsCurrent(kept, kept.current[g])

\* "The old answer remains in history.  A correction never rewrites the
\* transcript": an answer or a question, once recorded, only ever gets the one
\* that supersedes or closes it, and that one later.
HistoryKept ==
    [][/\ \A i \in 1..Len(kept.answers) :
             LET was == kept.answers[i] IN LET is == kept'.answers[i]
             IN  \/ is = was
                 \/ /\ was.superseded_by = None
                    /\ is = [was EXCEPT !.superseded_by = Len(kept'.answers)]
                    /\ is.superseded_by > i
       /\ \A i \in 1..Len(kept.questions) :
             LET was == kept.questions[i] IN LET is == kept'.questions[i]
             IN  \/ is = was
                 \/ /\ was.answered_by = None
                    /\ is = [was EXCEPT !.answered_by = Len(kept'.answers)]]_vars

\* What a command holds in memory is what the next one will replay.
LiveIsReplay ==
    \A p \in Procs : lock["interview"] = p => view[p] = kept

\* The journal of the interview has one meaning, in memory and on replay, and it
\* is a transcript with one open question (InterviewStore.ask, _apply_event).
TranscriptSound == TypeOK /\ OneOpenQuestion /\ LiveIsReplay

-----------------------------------------------------------------------------
(* The interview and the session.                                           *)

\* Nothing has come between a line and its binding.
Undisturbed == faults.kills = 0 /\ session.state # "closed"

\* Whoever finds the interview unlocked finds every current answer bound in the
\* session with its content, and every disposed gate bound after its answers.
JournalsAgree ==
    Undisturbed /\ lock["interview"] = NoProc =>
        \A g \in Gates :
            /\ session.hash[AnswerNode(g)] =
                  IF kept.current[g] = None THEN NoHash
                  ELSE kept.answers[kept.current[g]].text
            /\ (session.hash[GateNode(g)] = NoHash)
                  <=> (kept.disposition[g] = Open)

\* The artifacts that rest on the answer of a gate.
RestsOn(g) ==
    LET citing == {c \in Claims : claims[c] = g
                                     /\ session.hash[ClaimNode(c)] # NoHash}
    IN  {ClaimNode(c) : c \in citing}
        \cup {ConflictNode(k) : k \in
                {k \in Conflicts : conflicts[k].claims \cap citing # {}
                                     /\ session.hash[ConflictNode(k)] # NoHash}}

\* The text of the answer that the current one of gate g replaced.
Replaced(g) ==
    LET earlier == {i \in 1..(kept.current[g] - 1) : kept.answers[i].gate = g}
    IN  IF earlier = {} THEN NoHash
        ELSE kept.answers[CHOOSE i \in earlier : \A j \in earlier : j <= i].text

\* The command that has replaced the answer of gate g returns.
Corrects(g) == \E p \in Procs :
    /\ Does(p, "bind")
    /\ Next1(p).artifact.node = AnswerNode(g)
    /\ Replaced(g) \notin {NoHash, Next1(p).artifact.hash}
    /\ Idle(p)'

\* "A correction stales claims and conflicts derived from the old answer": all
\* those bound before it returns, whatever else is under way.
CorrectionStales ==
    [][\A g \in Gates : Undisturbed' /\ Corrects(g)
          => RestsOn(g) \subseteq session'.stale]_vars

-----------------------------------------------------------------------------
(* The approver and the attestations.                                       *)

\* The conflict is not being resolved at this moment.
Settled(k) == \A p \in Procs :
    Does(p, "bind") => Next1(p).artifact.node # ConflictNode(k)

\* "Changing the approver stales every conflict resolution": one that stands was
\* made by the current approver, unless the charter its actor was checked against
\* was revised before the resolution was bound.
ResolverCurrent ==
    \A k \in Semantic :
        /\ Undisturbed /\ ~overtaken /\ Settled(k)
        /\ conflicts[k].state \in Approvers
        => \/ conflicts[k].state = session.hash[Approver]
           \/ ConflictNode(k) \in session.stale

\* What the session has bound is what the stores say and by whom: no command
\* returns and leaves the two apart (InterviewStore.answer, resolve_conflict).
BindingsAgree == JournalsAgree /\ ResolverCurrent
=============================================================================
