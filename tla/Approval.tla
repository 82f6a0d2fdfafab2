------------------------------- MODULE Approval -------------------------------
(***************************************************************************)
(* The proposal commands over one session and one working tree: import,    *)
(* attest, prepare-apply, attest-apply, export-preview, apply and recover  *)
(* (approval.py and the handlers of cli.py).                               *)
(*                                                                         *)
(* A command opens a context - the stored proposal, the working tree, the  *)
(* session - decides on it, opens a further context for every group, and   *)
(* writes; only the transaction at the end takes a lock.  Between any two  *)
(* of its steps other commands run, a developer edits the tree, the        *)
(* session moves on, and the process may be killed.                        *)
(*                                                                         *)
(* A transaction changes its files in one step, unless one of them is in    *)
(* the way or the process is killed: then some have changed and it is       *)
(* pending, until recover or the next one takes it back (ApplyJournal has   *)
(* the steps).  One record per session is enough: a proposal that is        *)
(* imported again replaces it.                                              *)
(***************************************************************************)
EXTENDS Proposal

CONSTANTS
    Procs,          \* command processes
    Files,          \* the proposal files
    ProposalIn(_),  \* what each of them says
    FirstTree,      \* the working tree at first
    Edits,          \* edits of a developer: [target, state]
    Session,        \* the session at first
    Moves,          \* changes of the session
    Moved(_, _),    \* the session a change makes of a session
    MaxCommands,    \* bound: commands each process begins
    MaxDecisions,   \* bound: decisions written
    MaxImports,     \* bound: proposals imported over the first one
    MaxChanges      \* bound: edits, session changes and processes killed

Operations == UNION {UNION {Ops(ProposalIn(f)[i]) : i \in DOMAIN ProposalIn(f)} : f \in Files}
Ids == UNION {GroupIds(ProposalIn(f)) : f \in Files}
Importable == {f \in Files : ValidProposal(ProposalIn(f))}

ASSUME ApprovalAssumption ==
    /\ Targets # {}
    /\ FirstTree = [t \in Targets |-> FirstTree[t]]
    /\ \A e \in Edits : e.target \in Targets
    /\ \A f \in Files :
          /\ ProposalIn(f) \in Seq(ToSet(ProposalIn(f)))
          /\ \A g \in ToSet(ProposalIn(f)) :
                /\ g = [id |-> g.id, deps |-> g.deps, ops |-> g.ops, claims |-> g.claims,
                         gates |-> g.gates, cases |-> g.cases]
                /\ g.ops \in Seq(Ops(g))
    /\ \A op \in Operations : op.target \in Targets /\ op.id \in Nat
    /\ MaxCommands \in [Procs -> Nat] /\ MaxChanges \in Nat

VARIABLES
    tree,       \* the working tree: authored catalog, references, overlays
    world,      \* the session: charter, policy, gates, claims, evidence
    record,     \* proposal.json
    attested,   \* attestations/<group>.json
    batch,      \* prepared-batch.json
    approval,   \* apply-attestation.json
    txns,       \* the transactions on disk
    job,        \* what each process is doing
    signed,     \* history: every decision ever written
    exports,    \* history: the batches whose previews were written
    applied,    \* history: the batches whose transactions are completed
    count       \* commands, changes and kills so far

repository == <<tree, txns>>
papers == <<record, attested, batch, approval>>
history == <<signed, exports, applied>>
vars == <<repository, world, papers, job, history, count>>

\* No file of that name yet.
None == Absent
Idle == [at |-> "idle"]

TypeOK ==
    /\ DOMAIN tree = Targets
    /\ record = None \/ \A i \in DOMAIN record : record[i].deps \subseteq GroupIds(record)
    /\ DOMAIN attested \subseteq Ids
    /\ batch = None \/ batch.groups # <<>>
    /\ approval = None \/ approval.batch.groups # <<>>
    /\ \A t \in txns : t.state \in {"pending", "completed", "rolled_back"}
    /\ \A p \in Procs : job[p].at \in
          {"idle", "attest", "prepare", "validate", "create", "commit", "record"}
    /\ \A p \in Procs : count.commands[p] <= MaxCommands[p]
    /\ count.changes + count.kills <= MaxChanges

Init ==
    /\ tree = FirstTree
    /\ world = Session
    /\ \E f \in Importable : record = Stored(ProposalIn(f))
    /\ attested = <<>>
    /\ batch = None
    /\ approval = None
    /\ txns = {}
    /\ job = [p \in Procs |-> Idle]
    /\ signed = {}
    /\ exports = {}
    /\ applied = {}
    /\ count = [commands |-> [p \in Procs |-> 0], imports |-> 0, changes |-> 0, kills |-> 0]

-----------------------------------------------------------------------------
(* The context of a command.                                                *)

Catalog(files) == [t \in {u \in Targets : InCatalog(u)} |-> files[t]]

EvidenceLock(w) ==
    {[claim |-> c, class |-> w.claims[c].class, selectors |-> w.claims[c].selectors] :
        c \in {d \in DOMAIN w.claims : w.claims[d].selectors # {}}}

SessionHashes(files, w) ==
    [charter |-> w.approver, catalog |-> Catalog(files),
     policy |-> w.policy, evidence |-> EvidenceLock(w)]

\* The groups asked for are made a proposal of their own.
Opens(ids) ==
    /\ record # None
    /\ ids \subseteq GroupIds(record)
    /\ ValidProposal(Select(record, ids))
    /\ LET c == Reconstruct(tree, Select(record, ids)) IN c # Failed /\ Loads(c)

Context(ids) ==
    LET p == Select(record, ids)
        c == Reconstruct(tree, p)
    IN  [proposal |-> p, base |-> tree, candidate |-> c,
         verification |-> Verify(p, c, world),
         session |-> SessionHashes(tree, world), approver |-> world.approver]

\* What a context says of one group, opened alone.
GroupOpens(ids) == \A id \in ids : Opens({id})
Alone(id) ==
    LET c == Context({id}) IN <<c.candidate, c.verification>>

Free(p) == job[p] = Idle /\ count.commands[p] < MaxCommands[p]

Begins(p, j) ==
    /\ Free(p)
    /\ job' = [job EXCEPT ![p] = j]
    /\ count' = [count EXCEPT !.commands[p] = @ + 1]

Ends(p) == job' = [job EXCEPT ![p] = Idle]

-----------------------------------------------------------------------------
(* import, attest.                                                          *)

Import(p, file) ==
    /\ job[p] = Idle
    /\ count.imports < MaxImports
    /\ file \in Importable
    /\ LET proposal == ProposalIn(file) IN
          /\ Reconstruct(tree, proposal) # Failed
          /\ Stored(proposal) # record
          /\ record' = Stored(proposal)
    /\ count' = [count EXCEPT !.imports = @ + 1]
    /\ UNCHANGED <<repository, world, attested, batch, approval, job, history>>

Attestation(j) ==
    [id |-> j.id, approver |-> j.context.approver, decision |-> j.decision,
     session |-> j.context.session, group |-> GroupOf(j.context.proposal, j.id),
     candidate |-> j.context.candidate, verification |-> j.context.verification]

\* The decision rests on the context alone: the approver of the charter, and
\* a group that is ready.  A refusal changes nothing, and neither does a
\* decision repeated.
BeginAttest(p, id, decision) ==
    /\ Free(p)
    /\ Cardinality(signed) < MaxDecisions
    /\ Opens({id})
    /\ LET c == Context({id})
           j == [at |-> "attest", id |-> id, decision |-> decision, context |-> c]
       IN /\ c.verification.ready[id]
          /\ id \in DOMAIN attested => attested[id] # Attestation(j)
          /\ Begins(p, j)
    /\ UNCHANGED <<repository, world, papers, history>>

Attest(p) ==
    /\ job[p].at = "attest"
    /\ attested' = [id \in DOMAIN attested \cup {job[p].id} |->
                       IF id = job[p].id THEN Attestation(job[p]) ELSE attested[id]]
    /\ signed' = signed \cup {Attestation(job[p])}
    /\ Ends(p)
    /\ UNCHANGED <<repository, world, record, batch, approval, exports, applied, count>>

-----------------------------------------------------------------------------
(* prepare-apply.                                                           *)

\* _reject_batch_overlap compares the text of the target: a catalog object by
\* kind and name, a document by its path alone.
TargetId(t) == IF InCatalog(t) THEN t ELSE [t EXCEPT !.kind = "document"]
\* Mutant: as build_proposal compares, by kind of operation and target.
BatchDisjointByKind(ids, p) == NoOverlap(p)
BatchDisjoint(ids, p) ==
    \A id, jd \in ids : \A k \in DOMAIN ById(p, id).ops, l \in DOMAIN ById(p, jd).ops :
        <<id, k>> # <<jd, l>> =>
            TargetId(ById(p, id).ops[k].target) # TargetId(ById(p, jd).ops[l].target)

DependencyClosed(ids, p) == \A id \in ids : ById(p, id).deps \subseteq ids

\* validate_group_attestation, with the group opened alone again.
Current(a, group, c, alone) ==
    /\ a.session = c.session
    /\ a.group = group
    /\ a.candidate = alone[1]
    /\ a.verification = alone[2]

\* prepare_apply_batch: what it asks of the context, and of the attestations
\* on disk.
Coherent(ids, c) ==
    /\ DependencyClosed(ToSet(ids), c.proposal)
    /\ BatchDisjoint(ToSet(ids), c.proposal)
    /\ \A id \in ToSet(ids) : c.verification.ready[id]

\* Mutant: the decision of the attestation is not looked at.
AttestedEither(ids, c, papersOf) ==
    \A id \in ToSet(ids) :
        /\ id \in DOMAIN papersOf
        /\ Current(papersOf[id], ById(c.proposal, id), c, Alone(id))
Attested(ids, c, papersOf) ==
    \A id \in ToSet(ids) :
        /\ id \in DOMAIN papersOf
        /\ papersOf[id].decision = "accepted"
        /\ Current(papersOf[id], ById(c.proposal, id), c, Alone(id))

\* compute_approved_summary_hash: what it commits to beside the base, the
\* candidate and the verification that the batch names itself.
Summary(c, lock) == [groups |-> c.proposal, evidence |-> lock]

BatchOf(ids, c, papersOf, lock) ==
    [groups |-> ids, attestations |-> [i \in DOMAIN ids |-> papersOf[ids[i]]],
     base |-> c.base, candidate |-> c.candidate,
     verification |-> c.verification, session |-> c.session,
     summary |-> Summary(c, lock)]

\* The groups of the proposal with a decision: other ones are refused.
Decided == IF record = None THEN {} ELSE GroupIds(record) \cap DOMAIN attested

\* The groups in the order they are given, none of them twice.
Selections(S) ==
    {ids \in [1 .. Cardinality(S) -> S] : \A i, j \in DOMAIN ids : i # j => ids[i] # ids[j]}

BeginPrepare(p, ids) ==
    /\ Free(p)
    /\ Opens(ToSet(ids))
    /\ LET c == Context(ToSet(ids)) IN
          /\ Coherent(ids, c)
          /\ Begins(p, [at |-> "prepare", ids |-> ids, context |-> c])
    /\ UNCHANGED <<repository, world, papers, history>>

\* The attestations, the groups alone and the evidence lock are read after
\* the context.
Prepare(p) ==
    LET j == job[p] IN
    /\ j.at = "prepare"
    /\ Ends(p)
    /\ batch' = IF GroupOpens(ToSet(j.ids)) /\ Attested(j.ids, j.context, attested)
                  THEN BatchOf(j.ids, j.context, attested, EvidenceLock(world))
                  ELSE batch
    /\ UNCHANGED <<repository, world, record, attested, approval, history,
                   count>>

\* attest-apply: the approver of the charter signs the batch on disk, whatever it says.
AttestApply(p) ==
    /\ Free(p)
    /\ batch # None
    /\ approval = None \/ approval # [batch |-> batch, approver |-> world.approver]
    /\ Begins(p, Idle)
    /\ approval' = [batch |-> batch, approver |-> world.approver]
    /\ UNCHANGED <<repository, world, record, attested, batch, history>>

-----------------------------------------------------------------------------
(* apply.                                                                   *)

Pending == {t \in txns : t.state = "pending"}

\* Everything export-preview and apply compare before they look at a group.
Matches(b, a, c) ==
    /\ a.batch = b
    /\ a.approver = c.approver
    /\ c.candidate = b.candidate
    /\ c.verification = b.verification
    /\ c.base = b.base
    /\ c.session = b.session

BeginApply(p) ==
    /\ Free(p)
    /\ Pending = {}
    /\ batch # None /\ approval # None
    /\ Opens(ToSet(batch.groups))
    /\ LET c == Context(ToSet(batch.groups)) IN
          /\ Matches(batch, approval, c)
          /\ Begins(p, [at |-> "validate", batch |-> batch, approval |-> approval,
                        context |-> c])
    /\ UNCHANGED <<repository, world, papers, history>>

\* The attestations on disk are those of the batch and current.
Unchanged(b, c) ==
    \A i \in DOMAIN b.groups :
        LET id == b.groups[i] IN
        /\ id \in DOMAIN attested
        /\ attested[id] = b.attestations[i]
        /\ Current(attested[id], GroupOf(c.proposal, id), c, Alone(id))

\* The groups, the attestations and the evidence lock are read again; the
\* batch they would prepare has to be the batch on disk.
Validates(j) ==
    LET ids == j.batch.groups IN
    /\ GroupOpens(ToSet(ids))
    /\ Unchanged(j.batch, j.context)
    /\ Coherent(ids, j.context)
    /\ Attested(ids, j.context, attested)
    /\ BatchOf(ids, j.context, attested, EvidenceLock(world)) = j.batch

Validate(p) ==
    /\ job[p].at = "validate"
    /\ job' = [job EXCEPT ![p] = IF Validates(@) THEN [@ EXCEPT !.at = "create"]
                                                 ELSE Idle]
    /\ UNCHANGED <<repository, world, papers, history, count>>

\* export-preview compares the attestations and the groups too, but not the
\* batch it would prepare now, and writes nothing but previews.
Exportable(b, c) ==
    /\ Matches(b, approval, c)
    /\ GroupOpens(ToSet(b.groups))
    /\ Unchanged(b, c)
    /\ \A id \in ToSet(b.groups) : attested[id].decision = "accepted"

ExportPreview(p) ==
    /\ Free(p)
    /\ batch # None /\ approval # None
    /\ Opens(ToSet(batch.groups))
    /\ Exportable(batch, Context(ToSet(batch.groups)))
    /\ Begins(p, Idle)
    /\ exports' = exports \cup {batch}
    /\ UNCHANGED <<repository, world, papers, signed, applied>>

\* The catalog is written whole, and every document an operation names.
Written(c) ==
    {t \in Targets : InCatalog(t)}
    \cup {op.target : op \in UNION {Ops(c.proposal[i]) : i \in DOMAIN c.proposal}}

\* The targets in the file of u: all objects are in one.
FileOf(u) == IF InCatalog(u) THEN {v \in Targets : InCatalog(v)} ELSE {u}
Holds(files, values, f) == \A u \in f \cap DOMAIN values : files[u] = values[u]
\* The targets whose files have the old or the new bytes of a transaction.
Fitting(t, files) ==
    {u \in DOMAIN t.new : Holds(files, t.old, FileOf(u)) \/ Holds(files, t.new, FileOf(u))}
Fits(t, files) == DOMAIN t.new \subseteq Fitting(t, files)
Overlaid(files, values, S) ==
    [u \in DOMAIN files |-> IF u \in DOMAIN values \cap S THEN values[u] ELSE files[u]]
Whole(files, values) == Overlaid(files, values, DOMAIN values)
StateOf(ts, t, s) == (ts \ {u \in ts : u.batch = t.batch}) \cup {[t EXCEPT !.state = s]}

\* _recover_unlocked: a transaction that is not completed, or whose new bytes
\* are no longer there, is taken back, in the order of the transactions'
\* names; the first one in whose way a file is ends it.
Settled(t, files) ==
    \/ t.state = "rolled_back"
    \/ t.state = "completed" /\ \A u \in DOMAIN t.new : files[u] = t.new[u]
TakenBack(r, t) ==
    IF ~r.ok \/ Settled(t, r.tree) THEN r
    ELSE IF Fits(t, r.tree)
      THEN [ok |-> TRUE, tree |-> Whole(r.tree, t.old),
            txns |-> StateOf(r.txns, t, "rolled_back")]
    ELSE [ok |-> FALSE, tree |-> r.tree, txns |-> r.txns]
Recovery(order) ==
    LET r[k \in 0 .. Len(order)] ==
            IF k = 0 THEN [ok |-> TRUE, tree |-> tree, txns |-> txns]
                     ELSE TakenBack(r[k - 1], order[k])
    IN  r[Len(order)]
Kept(ts) == {a \in applied : \E t \in ts : t.state = "completed" /\ t.batch = a.batch}

\* ApplyJournal.create: what is not settled is taken back, and the bytes of the
\* targets are taken as the old ones.
Create(p) ==
    LET j == job[p]
        w == Written(j.context)
    IN  /\ j.at = "create"
        /\ \E order \in Selections(txns) :
              LET r == Recovery(order)
                  t == [batch |-> j.batch, state |-> "pending",
                        old |-> [u \in w |-> r.tree[u]],
                        new |-> [u \in w |-> j.context.candidate[u]]]
                  fresh == r.ok /\ \A u \in txns : u.batch # j.batch
              IN /\ tree' = r.tree
                 /\ txns' = r.txns \cup (IF fresh THEN {t} ELSE {})
                 /\ applied' = Kept(r.txns)
                 /\ job' = [job EXCEPT ![p] = IF fresh
                               THEN [at |-> "commit", txn |-> t, approval |-> j.approval,
                                     candidate |-> j.context.candidate]
                               ELSE Idle]
        /\ UNCHANGED <<world, papers, signed, exports, count>>

\* Some of the files have their new bytes, and the journal says "applying".
Partly(t) ==
    \E S \in SUBSET {FileOf(u) : u \in Fitting(t, tree)} :
        /\ tree' = Overlaid(tree, t.new, UNION S)
        /\ txns' = StateOf(txns, t, "pending")
        /\ applied' = Kept(txns')

\* apply: a file that holds neither its old nor its new bytes is a conflict,
\* and those before it have changed.
Commit(p) ==
    LET j == job[p] IN
    /\ j.at = "commit"
    /\ IF Fits(j.txn, tree)
         THEN /\ tree' = Whole(tree, j.txn.new)
              /\ txns' = StateOf(txns, j.txn, "completed")
              /\ applied' = applied \cup {[batch |-> j.txn.batch, new |-> j.txn.new,
                                           approval |-> j.approval, fate |-> "open"]}
              /\ job' = [job EXCEPT ![p].at = "record"]
         ELSE Partly(j.txn) /\ Ends(p)
    /\ UNCHANGED <<world, papers, signed, exports, count>>

Meets(b, fate) == {IF a.batch = b THEN [a EXCEPT !.fate = fate] ELSE a : a \in applied}

\* The new catalog becomes the session's base; a session that refuses takes
\* the transaction back.
\* Mutant: a session that refuses leaves the batch applied.
RecordOrLeave(p) ==
    LET j == job[p] IN
    /\ j.at = "record"
    /\ Ends(p)
    /\ IF world.open
         THEN /\ world' = [world EXCEPT !.recorded = Catalog(j.candidate)]
              /\ applied' = Meets(j.txn.batch, "recorded")
         ELSE UNCHANGED <<world, applied>>
    /\ UNCHANGED <<repository, papers, signed, exports, count>>
Record(p) ==
    LET j == job[p] IN
    /\ j.at = "record"
    /\ Ends(p)
    /\ IF world.open
         THEN /\ world' = [world EXCEPT !.recorded = Catalog(j.candidate)]
              /\ applied' = Meets(j.txn.batch, "recorded")
              /\ UNCHANGED <<tree, txns>>
         ELSE /\ UNCHANGED world
              /\ IF Fits(j.txn, tree)
                   THEN /\ tree' = Whole(tree, j.txn.old)
                        /\ txns' = StateOf(txns, j.txn, "rolled_back")
                        /\ applied' = Kept(txns')
                   ELSE /\ applied' = Meets(j.txn.batch, "conflict")
                        /\ UNCHANGED <<tree, txns>>
    /\ UNCHANGED <<papers, signed, exports, count>>

Recover(p) ==
    /\ \E t \in txns : ~Settled(t, tree)
    /\ Begins(p, Idle)
    /\ \E order \in Selections(txns) :
          /\ tree' = Recovery(order).tree
          /\ txns' = Recovery(order).txns
          /\ applied' = Kept(Recovery(order).txns)
    /\ UNCHANGED <<world, papers, signed, exports>>

-----------------------------------------------------------------------------
(* The environment.                                                         *)

\* Before the first decision a change only makes another first state.
Bounded == signed # {} /\ count.changes + count.kills < MaxChanges
Changes == Bounded /\ count' = [count EXCEPT !.changes = @ + 1]

Edit(e) ==
    /\ Changes
    /\ tree' = [tree EXCEPT ![e.target] = e.state]
    /\ tree' # tree
    /\ UNCHANGED <<txns, world, papers, job, history>>

MoveOn(w) ==
    /\ Changes
    /\ world' = Moved(w, world)
    /\ world' # world
    /\ UNCHANGED <<repository, papers, job, history>>

\* A process killed before its transaction exists has changed nothing.
Kill(p) ==
    /\ job[p].at \in {"commit", "record"}
    /\ Bounded
    /\ count' = [count EXCEPT !.kills = @ + 1]
    /\ Ends(p)
    /\ \/ UNCHANGED <<repository, applied>>
       \/ job[p].at = "commit" /\ Partly(job[p].txn)
    /\ UNCHANGED <<world, papers, signed, exports>>

Step(p) ==
    \/ \E f \in Files : Import(p, f)
    \/ record # None /\ \E id \in GroupIds(record), d \in {"accepted", "rejected"} :
          BeginAttest(p, id, d)
    \/ Attest(p) \/ AttestApply(p)
    \/ Free(p) /\ \E S \in (SUBSET Decided) \ {{}} : \E ids \in Selections(S) :
          BeginPrepare(p, ids)
    \/ Prepare(p) \/ ExportPreview(p)
    \/ BeginApply(p) \/ Validate(p) \/ Create(p) \/ Commit(p) \/ Record(p)
    \/ Recover(p)

Next ==
    \/ \E p \in Procs : Step(p) \/ Kill(p)
    \/ \E e \in Edits : Edit(e)
    \/ \E w \in Moves : MoveOn(w)

Spec == Init /\ [][Next]_vars /\ \A p \in Procs : WF_vars(Step(p))

-----------------------------------------------------------------------------
(* What is applied.                                                         *)

\* b changes nothing but what an operation of an accepted group says, and one
\* approver took every decision on the tree and session b was made of.
Traced(b, decisions) ==
    /\ \A i \in DOMAIN b.groups : \E s \in decisions :
          /\ s.id = b.groups[i] /\ s.decision = "accepted"
          /\ s.session = b.session /\ s.approver = b.session.charter
    /\ \A t \in {u \in Targets : b.candidate[u] # b.base[u]} :
          \E s \in {x \in decisions : x.decision = "accepted" /\ x.id \in ToSet(b.groups)} :
              \E op \in Ops(s.group) :
                  op.target = t /\ b.candidate[t] = Outcome(op, b.base[t])

\* Whatever a preview shows and whatever apply writes goes back to decisions
\* of the one approver the session named: every group was accepted for this
\* catalog, policy and evidence, every changed object is what an operation of
\* such a group says, and the approver signed that very batch.  Proposals are
\* imported again, decisions revised, files edited and the session moved on
\* between any two steps.
AppliedWasAttested ==
    /\ \A b \in exports : Traced(b, signed)
    /\ \A a \in applied :
          /\ Traced(a.batch, signed)
          /\ a.approval.batch = a.batch
          /\ a.approval.approver = a.batch.session.charter
          /\ a.new = [t \in DOMAIN a.new |-> a.batch.candidate[t]]

\* What is applied or shown does not depend on the order of its operations:
\* proposals may edit and deprecate one object in two groups (build_proposal
\* compares kind and target), and only prepare-apply sees it.
OrderFree ==
    \A b \in exports \cup {a.batch : a \in applied} :
        LET ops == AllOps(b.summary.groups) IN
        b.candidate = Patched(b.base, Reverse(ops))

\* The completed transactions are those of the batches that are applied, and
\* each of these is in the session's record of its base, or a conflict kept it
\* from being taken back, or a command is about to do one or the other: a
\* session closed meanwhile does not leave a batch behind, only a kill does.
AppliedIsRecorded ==
    /\ {t.batch : t \in {u \in txns : u.state = "completed"}} = {a.batch : a \in applied}
    /\ count.kills = 0 =>
          \A a \in {x \in applied : x.fate = "open"} :
              \E p \in Procs : job[p].at = "record" /\ job[p].txn.batch = a.batch

\* What the commands leave behind is well formed, and what they have applied is
\* in the session's record or taken back (_handle_proposal_apply).
RecordSound == TypeOK /\ AppliedIsRecorded
=============================================================================
