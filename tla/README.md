# Selayer: models, checks and proofs

Selayer is a semantic layer over files, tables and databases: a YAML catalog of
facts, dimensions and metrics, a planner, a DuckDB compiler, and a registry that
holds the physical sources (`src/selayer`). Beside it stands the discovery
companion (`packages/selayer-discovery`), which interviews an owner, collects
evidence, proposes changes to the catalog, has them approved and writes them to
the project.

This directory models the parts of both that keep state which others share, and
checks and proves what they promise. Paths below are relative to the
repository; `sd/` stands for
`packages/selayer-discovery/src/selayer_discovery/` and `design` for
`docs/superpowers/specs/2026-07-31-agent-assisted-semantic-discovery-design.md`.

## 1. Inventory

### Parts that keep state

| Part | State | Operations | What is hard |
|---|---|---|---|
| apply transaction (`sd/transaction.py`) | target files, one directory per transaction (`journal.json`, `staged/`, `backups/`, `success.json`, `applied.json`), `.project.lock` | `create`, `apply`, `rollback`, `recover` | a crash between any two file operations; the lock released between `create` and `apply`; editors who take no lock; rollback that fails half way |
| session store (`sd/session.py`) | `events.jsonl`, the committed-head sidecar, `state.json`, a file lock, one replayed view per store object | `create`, `open`, `transition`, `close`, `revise_charter`, `record_artifact` | torn and unsynced lines, a sidecar that lags, a cache written outside the lock, two processes with stale views, staleness through a dependency graph |
| source registry (`src/selayer/sources/registry.py`) with the query path (`src/selayer/query.py`) | a shared DuckDB connection, an `RLock`, handle and generation per source, readers bound to queries | `create`, `reload_source`, `reload_all`, `bind`, `execute`, `open_scan_session`, `close` | threads that reload, query and close; adapters that fail before or after they changed the connection; cleanup outside the lock |
| interview (`sd/interview.py`) | its own journal and lock, questions, answers, corrections and gates, an index in memory | `ask`, `answer`, `correct`, `set_gate`; each line is bound as an artifact of the session afterwards | two journals with two locks, written one after the other; an index that is replayed and mutated live |
| evidence and claims (`sd/evidence.py`) | snapshots, manifest, claims, conflicts, a lock | `add_document`, `add_snapshot`, `add_claim`, `add_conflict`, `resolve_conflict`; claims and conflicts are bound in the session afterwards | approver and snapshot may have been revised meanwhile |
| approval (`sd/approval.py`) with the proposal commands (`sd/cli.py`) | the stored proposal, one attestation per group, a batch and its approval | import, attest, prepare-apply, attest-apply, export-preview, apply, recover | every command reads several files and writes one, without a lock; the tree, the session and the proposal move on between them |
| profiling (`sd/profiling.py`) with the profile commands | the spill of a scan and its checkpoint, salt, policy, activation, exports | scan and resume, propose, activate, export | a watchdog closes the stream of the thread that reads it; what a killed scan left in the spill; an approver or a policy replaced between activation and export; the byte budget of a session |
| OKF bundles (`src/selayer/okf/`) | documents and indexes people edit too | generate, build, sync, load, `context_for` | a merge that keeps what is curated; a kill between two documents; trust that must not outlive what was verified |

### Parts that compute

Proposal (`sd/proposal.py`: groups, reconstruction, impacts, mandatory checks,
readiness), the catalog and its static checks (`src/selayer/catalog.py`,
`verification/static.py`), query planning (`src/selayer/planning/`: join paths,
fan-out), SQL compilation, the physical audit and the compatibility report
(`src/selayer/verification/`), schemas, expressions, source declarations and
profiles, knowledge providers, canonical values. They keep nothing between calls;
what can go wrong in them is an input nobody tried.

### How they interact

* A command of the companion opens the session store, works on one artifact, and
  records its hash and dependencies as a session event. The session marks every
  transitive dependent of a revised artifact stale.
* Approval binds the fingerprints of a proposal; apply writes its files through
  the transaction and then records the new catalog in the session.
* Every process of the companion may be killed; the next one calls `recover`.
* The query engine plans, asks the registry to bind what the plan needs, executes
  on the shared connection and fetches. Any other thread may reload meanwhile.

### What makes each part correct

* Apply transaction: a batch is all or nothing for whoever recovers first; nothing
  committed is taken back behind the caller; nobody's edit is overwritten; every
  lock comes back; an interrupted batch can be settled.
* Session store: one log that only grows by legal moves; a call that returned is
  never forgotten silently; a crash leaves a session that opens; what depended on a
  revised node is stale at least until it is recorded again, and nothing else is.
* Source registry: a reload is all or nothing for readers; nothing that is served
  is closed and nothing that was opened is lost; a query sees one set of sources
  and its own result; the lock comes back.
* Interview and claims: one open question and a history that is never rewritten; the
  session holds what the interview says; a correction stales all that rests on the
  old answer, and a change of the approver all that the former one resolved.
* Approval: nothing is applied but what one approver accepted, on the tree and session
  it was made of; a batch does not depend on the order of its operations; what is
  applied is on record.
* Profiling: a completed profile counts every row of its snapshot once, or says that it
  counted none; an export shows what the approver's activation reveals and fits the budget; a scan ends.
* OKF bundles: the next sync puts right what a kill left; what people wrote stays; a
  verification falls with its definition; a build is whole or absent; a context is the
  breadth-first prefix that fits.
* Catalog, planner, compiler, audit: a layer that is accepted can be planned and its
  replacements lead somewhere; a query is answered over the one safe path or refused; no
  fact is counted twice; a report says what is deprecated.

## 2. Modules

| Module | What it is | Source |
|---|---|---|
| `ApplyJournal` | create, apply, rollback, recover, one action per file operation | `sd/transaction.py`, the record after apply in `sd/cli.py` |
| `AtomicBatch` | what `ApplyJournal` implements: batches that change in one step | |
| `ApplyJournal_proofs` | its inductive invariants and theorems; recovery and atomicity of a single transaction | |
| `SourceRegistry` | threads over one registry and connection | `src/selayer/sources/registry.py`, `src/selayer/query.py`, the effects of register and close in `src/selayer/sources/adapters/database.py` |
| `AtomicSources` | what its reload implements: versions and generations that advance in one step | |
| `SourceRegistry_proofs` | its inductive invariant and theorems | |
| `SessionIndex` | replay of a journal: state, hashes, dependencies, stale set | `sd/session.py` |
| `SessionStore` | processes, lock, journal, sidecar, cache and their crashes | `sd/session.py` |
| `SessionLog` | what it implements: a log that grows and keeps what is sure | |
| `SessionStore_proofs` | its inductive invariants and theorems: types, lock, acknowledged events; the journal as a history: sidecar, refinement of `SessionLog`, and what the loops and the replay of `SessionIndex` compute | |
| `InterviewIndex` | what an interview journal means: replay and live mutation | `sd/interview.py` |
| `Discovery` | interview, claims and attestations over one session | `sd/interview.py`, `ClaimStore` of `sd/evidence.py`, readiness in `sd/proposal.py`, `sd/cli.py` |
| `Discovery_proofs` | its inductive invariant and theorems | |
| `Proposal` | operations, groups, candidate, impacts, checks, readiness: functions of their arguments | `sd/proposal.py` |
| `Approval` | the proposal commands over one tree and session | `sd/approval.py`, `sd/cli.py`, the outcomes of `sd/transaction.py` |
| `Approval_proofs` | its inductive invariant and theorems | |
| `Sampling` | profiles, policies, activations, redacted samples: functions of their arguments | `sd/profiling.py` |
| `Profiling` | scans and exports of one session | `sd/profiling.py`, `sd/cli.py` |
| `Profiling_proofs` | its inductive invariants and theorems | |
| `Recursion_proofs` | induction and recursive functions over an initial part of the numbers, which the other proof modules rest on | |
| `Catalog` | the layer, the rules of a catalog, the static verification | `src/selayer/catalog.py`, `model.py`, `expressions/validation.py`, `verification/static.py` |
| `Querying` | planning, joins, physical audit, compatibility | `planning/`, `compilation/duckdb.py`, `verification/audit.py`, `verification/compatibility.py` |
| `QueryEngine` | a layer that is edited, loaded, opened, reported on and asked | `query.py`, `catalog.py` |
| `Concepts` | documents, merge, validation, composition, contexts: functions of their arguments | `okf/document.py`, `okf/generation.py`, `okf/validation.py`, `okf/composition.py`, `okf/bundle.py` |
| `Bundle` | generate, build and sync on disk, with people and kills in between | `okf/bundle.py`, `okf/composition.py`, `okf/cli.py` |
| `Bundle_proofs` | its inductive invariant and theorems | |
| `MC…` | for each of them, the values TLC gives the constants | |

`Approval` extends `Proposal`, `Profiling` extends `Sampling`, `QueryEngine` extends
`Querying` and that `Catalog`, `Bundle` extends `Concepts`: a module of operators, which
computes, and one of actions, which keeps state. `Discovery` instantiates `SessionIndex`
and extends `InterviewIndex`. In `Approval` a transaction changes its files in one step,
unless a file is in the way or the process is killed; then some have changed and it is
pending, until the next `apply` or `recover` takes back what is not settled. These are the
outcomes `AtomicBatch` allows, the abstraction `ApplyJournal` is shown to implement, and
the conflicts it excepts.

### ApplyJournal

`pc[self]` is the next file operation of a process; `cmd`, `own`, `tx`, `todo` and
`left` are the call it is in, the transaction it is to create, the journal object
in its hands, and the rest of the two loops. `file` is what any process reads;
`old`, `new`, `staged`, `backup`, `journal`, `next`, `success` and `applied` are
the files of a transaction directory. Bytes and their SHA-256 are one value, so a
hash comparison is an equality. A transaction identifier and a target path are
numbers, in the sorted order in which the code walks them.

* `BeginCreate` … `WriteInitialJournal`: `create`, which first recovers, then
  hashes each target (`HashTarget`) and reads it AGAIN for the backup
  (`BackupTarget`), and releases the lock before it returns.
* `BeginApply`, `MarkTarget`, `Check…`, `SwapTarget`, `MarkSuccess` …
  `JournalCompleted`: the loop of `apply` with its write-ahead `next_target`, the
  drift check, `os.replace`, and the four writes of the commit.
* `RestoreSkip` … `RollbackWritten`: `_rollback_unlocked`, backwards, with the
  in-place `write_bytes` as two steps (`RestoreTruncate`, `RestoreRewrite`), since
  a crash between them leaves `Torn` bytes.
* `Recover…`: one directory of `recover`; preflight, forward, backward or skip.
* `Fail`: an exception, a kill or a crash of the process at any step. Its locks
  fall, its files stay.
* `Edit`: someone changes a target without the lock. `dirty` remembers which
  targets were edited since the lock was last taken.

### SourceRegistry

A handle is `<<s, n>>`, the n-th resource prepared for source `s`. `conn` is what
a stable name of the connection resolves to, `reg` and `gen` the registrations,
`live` the handles opened and not closed, `attached` those whose database alias is
attached, `result` whose query the current result of the connection answers.
`owner` and `depth` are the `RLock`. `reload_source` and `reload_all` take the same
steps over one source or all: prepare in order, swap in order, restore backwards,
publish, and close what was replaced after the release (`CloseReplaced`). `ctx` is
the stack of contexts a thread has open. Four kinds of source differ: `dataset`,
`database` (its register and close run statements on the connection), `reader`
(one-shot, kept as a provider, rebound per query) and `iceberg` (bound per query
from a registered handle). A scan session is a context too: its `stream` is the reader it
iterates, `BeginScan` takes lock and binding, `ReadBatch` and `CancelScan` use and close
the reader, `Recheck` opens the source a second time and closes it, and `EndBind` leaves.

### SessionStore and SessionIndex

An event has an id, which stands for its hash; the hash chain is the order of the
journal. `journal` is the complete lines of `events.jsonl`, `tail` the end of the
file: a clean end, a `torn` fragment, or `open`, a whole line without its newline.
`synced` is how many lines are on stable storage. `head` is the sidecar, `tmp` and
`cache` are `state.tmp` and `state.json`. `AppendLine`, `Sync`,
`WriteCommittedHead`, `WriteTmp`, `ReplaceCache` are the steps of `_append`; `Open`
does its locked part in one step (the lock is held throughout and only the atomic
replacement of the sidecar is visible) and its cache afterwards, without the lock.
`Kill` ends one process at any step and may cut the line it was writing;
`LosePower` ends all of them and takes any unsynced lines; `LoseLine` and
`LoseHead` are what an outsider removes. `Joined` is a write behind a line without its
newline, seen from the log: it takes the last event. `Room` is the bound `MaxTotal`, in which a
fault counts as two lines. `SessionIndex` is the replay:
`Register` with the transitive closure `Dependents`, `Replays` (what a replay
accepts) and `Permits` (what a live mutation lets through) kept apart, as in the
code.

### Discovery and InterviewIndex

`Discovery` is what the companion builds on the session: it instantiates
`SessionIndex` over the artifacts of one discovery (the approver, questions, answers,
gates, claims, conflicts) and takes a call of the session store as one step, since
`SessionStore` has its inside. A command is a first step, which takes the lock of its
store, replays its journal and writes its line (`Ask`, `AnswerGate`, `Correct`,
`SetGate`, `AddClaim`, `AddConflict`, `ResolveConflict`), and a rest in `todo`: a
further line (`WriteLine`: `answer` disposes its gate after the answer) and the
bindings (`RecordArtifact`, `RecordRefused`). Between two of them other commands run,
`Kill` ends the process, `ReviseApprover` and `CloseSession` change the session. The
answer node of a gate is bound after the gate node that depends on it, as in the
code. `kept` is the replayed interview journal; `view` is the index in the memory of
the process that holds the lock. `OpenSession` is the charter `resolve-conflict` has
in memory when it checks its actor. `VerifyClaims`, `VerifyGates` and `Attest` are
the reads of `proposal attest`, under one lock after the other and then none.

`InterviewIndex` has the journal's meaning twice, as the code has: `Applied` replays
an event, `Prepared` and `Live` are what a command does to its index before and after
it writes the event.

### Proposal and Approval

A tree maps targets, `[kind, name]`, to states; an operation has a target, what it does
and the state after it. `Context` is what a command has read: the stored proposal, the
tree, the session. `job[p]` is a command between its reading and its writing:
`BeginAttest` and `Attest`, `BeginPrepare` and `Prepare`, and for apply `BeginApply`,
`Validate`, `Create`, `Commit`, `Record`. `record`, `attested`, `batch` and `approval` are
the files of the proposal; `txns` is the transaction directory; `signed`, `exports` and
`applied` are history: every decision, every batch that was shown, and the batches whose
transactions are completed, each with its fate: `open`, `recorded` in the session, or left
where a `conflict` kept it from being taken back. `Edit` is a developer in the tree,
`MoveOn` the session (approver, evidence, close), `Kill` the end of a command at any step.
`Recovery` is `_recover_unlocked`, which `Create` and `Recover` run: the transactions in the
order of their names, which is any order here, each of them left if it is settled, taken
back if its files hold its old or new bytes, and otherwise the end of the pass. All catalog
objects are in one file (`FileOf`). A commit in whose way a file is, and a kill during one,
leave some files changed (`Partly`). `OwnBlockers` and `Ready` are the readiness of a group,
`Checks` what `verify_proposal` runs for its impacts.

### Sampling and Profiling

A row maps columns to values, a batch is a sequence of rows and its own digest. A fresh
scan empties the spill it finds (`Clear`), file by file. `Read` takes a batch from the
stream and compares it with the checkpoint; for a batch beyond that it creates the file,
under the final name, and `Spill` writes into it. A scan that is killed or fails in between
leaves a file that is not `whole`, and a later run that compares names (`Named`,
`Resumable`) takes it for the batch. The watchdog flags (`Deadline`) and cancels (`Cancel`).
`Aggregate` counts what lies in the spill: it fails if the first file is torn
(`Unreadable`), and is `Uncounted` if another one is, since each query then raises and the
code takes the error for no value. `Drop` empties the spill and prints the profile.
`BeginPropose`, `WriteSalt`, `Activate`, `RecordPolicy`, `BeginExport`, `Build`, `Name` and
`Write` are the steps of the commands, each of which reads what is on disk at that moment.
`NewData` changes the source, `Revise` the approver.

### Catalog, Querying and QueryEngine

A document maps each section to its objects. The code writes most rules twice, for the raw
document and for typed objects; both are one operator here and both issue sets are
evaluated. `Plan` is the planner as it is written: level by level from the anchor, with
multiplicities; the property compares it with the set of all paths. `Joined` is what the
SQL of a plan keeps of `data`, `AuditPasses` what the audit counts in it. `QueryEngine`
edits a layer up to three times, then loads and opens it or not (`Load`, `Construct`),
reports on it (`Report`), plans (`Ask`) and runs (`Run`) over data that may change.

### Concepts and Bundle

A document has its controlled fields, its definition, its curated text and its links, each
a value. `merge_generated_concept_text`, `Synced` and `Orphaned` are sync;
`validate_concept`, `validate_links`, `validate_generated_integrity` are validation,
`Composed` the merge of references and overlays, `context_for` the breadth-first walk.
`command` is the one command at work: `GenerateNext`; `Stage` and `Publish` of a build;
`SyncParse`, `SyncBytes`, `SyncReplace` for each document, `SyncOrphans`, `WriteIndex`. In
between `Save` is a person, who writes a page where there is none, or deletes, verifies or
edits the document at a path (`Drafts`), `Change` the author of the catalog, and `Kill` ends
the command. `verified` carries the definition that was verified, which no document of the code
does: it is what `TrustFollows` compares.

## 3. Runs

Twelve configurations; each is checked with two workers in less than three minutes
on an idle machine.

| Run | Instance | Shows |
|---|---|---|
| `ApplyCrash` | 2 processes, 1 transaction, 3 paths, every tree and every batch over them (the last target may be given the bytes it has), 2 failures, fairness | `AtomicSpec` (refinement of `AtomicBatch`), `CrashConsistent`, `CommittedStays`, `Progress`, types |
| `ApplyDrift` | 2 processes, 2 transactions over the same 2 paths, 1 edit, 1 failure | `RecoverySettles`, `MarkersTrue`, `DriftPreserved` |
| `RegistryReload` | 2 threads, a dataset and a database, 2 reloads of each, queries and scans, 2 faults | `AtomicReload` (refinement of `AtomicSources`), `TablesSound`, `HeldStill` |
| `RegistryQuery` | 2 threads, a reader, an Iceberg table and a dataset, queries, scans, cancels and rechecks, 1 fault, 1 swallowed restore failure, fairness | `NoLeak`, `QueriesServed`, `AnswersOwn`, `LockReturns` |
| `SessionFaults` | 2 processes, 3 nodes with a dependency cycle, 4 events, a kill, a power loss, a removed line or sidecar, torn and open lines, fairness | `LogSpec` (refinement of `SessionLog`), `SidecarSound`, `StaleSound`, `AckKept`, `LockReturns` |
| `SessionMerge` | 2 processes, a kill, open lines | violated: `LineReadsBack` |
| `SessionRebuild` | 2 processes, a claim about the approver, recorded before and after the approver is revised, no fault | violated: `RebuiltCurrent` |
| `DiscoveryAnswers` | 2 processes, 2 gates, 2 texts, a claim, a semantic conflict, a group, 4 commands, a kill, a change of the approver or a closed session | `TranscriptSound`, `HistoryKept`, `BindingsAgree`, `CorrectionStales` |
| `ApprovalApply` | 2 processes, three proposals (plain, two groups over one object, one with a dangling reference), 2 decisions, 1 import, an edit or a kill or a step of the session | `AppliedWasAttested`, `OrderFree`, `RecordSound` |
| `ProfileExport` | a scanner and a second process, three versions of the data, one of them under a token that lies, 3 scans that may stop after 1 or 2 batches, 5 commands with the scans, a change of the data or the approver or a kill, fairness | `ScanExact`, `ExportApproved`, `ExportsSound`, `ScanEnds` |
| `QueryPlans` | three sources, two metrics, up to 3 of 30 edits, 9 requests, every choice of 5 tables per source | `PathExact`, `GrainKept`, `AcceptedLayer`, `EvidenceComplete` |
| `BundleSync` | a metric, a fact and a guide, 3 commands, a save (a page, a deletion, a verification or one of six edits), a change to one of 5 catalogs, a kill | `SyncConverges`, `CuratedKept`, `TrustFollows`, `BuildWhole`, `ContextExact` |

Properties of one question are one named conjunction, whose parts are definitions of
their own: `CrashConsistent` is `BackupsMatch`, `ReplacedPrefix`, `PendingRecoverable` and
`ConflictExplained`; `Progress` is `LockReturns` and `EventuallySettled`; `MarkersTrue` is
`CommitPoint` and `RollbackRestores`; `SidecarSound` is `CrashReadable` and `HeadDurable`;
`TranscriptSound` is the types, `OneOpenQuestion` and `LiveIsReplay`; `BindingsAgree` is
`JournalsAgree` and `ResolverCurrent`; `TablesSound` is the types and `ServedLive`;
`QueriesServed` is `ServedLive` and `BoundServed`; `RecordSound` is the types and
`AppliedIsRecorded`; `ExportsSound` is the types and `BudgetKept`; `AcceptedLayer` is
`AcceptedPlans` and `ReplacedByActive`.

### The bounds, and why they are enough

* Two processes or threads: every lock here has one holder, and what one actor can
  disturb of another is disturbed by the second one. The theorems of section 5
  hold for any number.
* `MaxFails = 2` lets a recovery be interrupted itself; three paths let a batch stop
  before, inside and behind the middle. Two transactions over the same two paths are
  the least that lets one batch own the bytes of another; one edit is enough to fall
  between any two steps. Two transactions and two
  failures at once are beyond a run of minutes, hence the split in two runs.
* `MaxMade = 3` lets the cleanup of one reload overlap the next; `MaxFaults = 2` lets
  one reload fail in preparation and the next in its swap. `MaxNest = 1`: a thread
  opens no context inside another over the same sources (section 6).
* `MaxEvents = 4` covers a genesis, two artifacts of a cycle and a revision, which is
  what it takes for a node to become stale through another and through itself, in
  any order with the end of the session. `MaxTotal = 5` lets one fault
  hit the fourth event, or an earlier one with an event after it, and two faults the first two
  events: a power loss that follows a kill which left an unsynced line that another process
  has read, or a write behind a line without its newline. The transitions other than `closed` are in
  `SessionMerge`, and in the theorems, which bound nothing. `SessionRebuild` needs a claim, a
  revision and the claim again.
* `MaxLines = 4` covers an answer, a claim on it, a conflict over the claim and a
  correction, or a question, two answers and a correction, and lets the commands of
  two processes overlap at each of them. `MaxFaults = 1` is shared by kills,
  approver changes and the close of the session: what one of them disturbs, the
  properties that need it undisturbed except.
* `ApprovalApply`: two decisions, one import and four commands of one process are what it
  takes to attest two groups, or to revise a decision, and bring a batch to its end; the
  second process may begin one command between any two of its steps; `MaxChanges = 1` is
  one edit of the tree, one step of the session or one kill, anywhere. The three proposals
  are one group over a dimension and a reference, two groups over one object, and a group
  with a dependency that is not there.
* `ProfileExport`: three scans are one that stops with a checkpoint, one that resumes it or
  another and is killed or fails while it writes a file, and one that resumes what is then
  there; stops after one and after two batches let the torn file be the first or the second
  of the checkpoint. With a single scan the other four commands propose, activate and
  export twice; caps of two rows and five bytes are met by data of two
  and three rows. The token of one version lies, so that a resumption over other data under
  the same token is reached, and excepted (`honest`).
* `QueryPlans`: three sources are the least with two ways between two of them; each edit
  of thirty aims at one rule, and three together build a diamond, a cycle, a chain of
  replacements or a metric over two grains. Tables of up to two rows hold nulls, duplicates
  and unmatched keys.
* `BundleSync`: three commands are a generation, a sync that is killed and the sync that
  puts it right; one save and one change of the catalog fall anywhere between their steps.
  What an edit may be is a constant, `Edits`; the six change curated text, a definition,
  a controlled field, the mark of generation, the links, or break the document.
* Symmetry is declared over processes or threads in some runs (in `MCDiscovery` also over texts and
  gates, none of which is named by an assumption), and only in runs without liveness.
* `CHECK_DEADLOCK FALSE` in the runs of `MCSessionStore`, `MCDiscovery`, `MCApproval`,
  `MCProfiling`, `MCQueryEngine` and `MCBundle`: when the events, lines, commands or edits
  of the bound are used up nobody can do more and the model stops; the other runs check
  for deadlock.

### Fairness

* `ApplyJournal!FairSpec`: a process inside the lock takes its next step (weak
  fairness of `LockedStep`): the code does nothing there but file operations, and a
  crash (`Fail`) is a step that is always possible. Nobody is obliged to call
  `apply` after `create`, or to call anything. `OperatorSpec` adds what the answer
  `recovery_required` asks of the operator: run `recover` again and again (strong
  fairness, since the lock may be busy each time one looks).
* `SourceRegistry!FairSpec`: a method that was called runs to its end, and a context
  is left after finitely many queries (strong fairness of `EndBind`, as a thread may
  start another query instead). Nobody is obliged to call a method.
* `SessionStore!FairSpec`: a call that has begun runs on. Nobody is obliged to begin
  one, and taking the lock is never assumed to succeed.
* `Profiling!Spec`: the deadline passes and the watchdog thread runs on, a read of a
  stream that was closed returns, a file is written or its write fails, files are removed,
  and a scan that has its rows is aggregated. A read of an
  open stream is never assumed to return: that is what the watchdog is for.
* `Approval!Spec`: a command that has begun takes its steps. `Discovery`, `QueryEngine` and
  `Bundle` state no liveness; the locks of `Discovery` are taken and released as those of
  the session store are.

### What was found

Two runs state what the repository says and find it violated by what the code does.

* `SessionMerge`: a crash may leave a whole line without its newline; a replay accepts it, and
  the next append writes directly behind it, so that both become one line that never parses
  again (`sd/session.py:1155`, against the comment at `:1293`).
* `SessionRebuild`: nothing ever leaves the stale set (`sd/session.py:1109`). A claim is
  recorded, the approver it depends on revised and the claim recorded again: it is reported
  stale, with no input that is stale or newer, where design line 308 asks that what is stale
  be made current by rerunning it from current inputs. `StaleSound` is what does hold.

The other divergences of section 6 were read in the code or met while modelling and have no
run of their own.

## 4. Properties worth a second look

* `AtomicSpec` is stated over what a reader who recovers first would find: the old
  bytes for every target of a batch in flight. A batch is committed once its marker
  is valid, not once `journal.json` says so.
* `RecoverySettles` says of every directory a pass has left behind, not only of the
  one it looks at, that no later step of the pass unsettles it.
* `DriftPreserved` and `CommitPoint` except targets edited since the lock was taken
  (`dirty`): the window between the hash check and `os.replace` is real and the code
  cannot close it.
* `HeldStill` compares registrations, generations and the connection as long as any
  context is open. It says nothing of the thread that opened it (section 6).
* `CrashReadable`, in `SidecarSound`, holds if lines were lost by kills alone or by power losses alone.
  It takes both to lose a line another process has read, and then a sidecar may
  count it.
* `StaleSound` puts the stale set that replay accumulates between two that are defined
  from the records alone. A node that depended, through any chain, on some node at the
  moment that node's content was revised is stale at least until it is recorded again
  (`Outdated`), and no other node ever is (`StaleOf`). It holds in a cycle too, where the
  revised node may depend on itself. What happens to a node that is recorded again is the
  question of `RebuiltCurrent`, which is violated.
* `LogSpec` allows a synced event to be lost in two ways only: an outsider removes it
  (`Remove`, which counts), or a write makes one line of it and the next (`Joined`).
* `CorrectionStales` is about the step in which a correction returns, and says of all
  that is bound by then, by whomever, that it is stale after it. With `JournalsAgree`
  it is stated while nothing has been killed and the session is open (`Undisturbed`);
  section 6 says what a kill leaves.
* `ResolverCurrent` excepts a resolution under way and a charter revised while a
  process had the older one open (`overtaken`), a window the code has.
* `AppliedWasAttested` compares what was applied with what was signed, not with the files
  the commands compare: every changed object is what an operation of an accepted group
  says, and one approver signed groups and batch on one state of the session.
* `OrderFree` applies the operations of a batch that is shown or applied in the reverse
  order. The guard of a proposal compares the kind of operation and the target (`sd/proposal.py:1594`), so
  two groups may change one object; only the guard of a batch stops them.
* `AppliedIsRecorded`, in `RecordSound`, relates three things no lock covers together: the
  completed transactions are those of the batches taken for applied, and unless something
  was killed each of these is in the session's record, or kept from being taken back by a
  conflict, or some process is about to do one or the other.
* `ScanExact` defines a profile from the batches of the snapshot alone, by the operators of
  `Sampling`, and compares it with what the spill, the checkpoint and the resumption made.
  A scan resumed over a file that another left half written (`intact` is false) is not
  excepted: its profile is `Uncounted`, and neither the snapshot's nor a part of it. That is
  less than the code's docstring promises (section 6).
* `PathExact` compares the planner with the set of all simple safe paths: planned over the
  one shortest, refused as ambiguous if there are several, refused as unsafe if none.
  `GrainKept` says of the rows that the compiled joins keep each anchor row at most once
  whatever the declared cardinalities, as long as the audit passes.
* `SyncConverges` says of a sync that was not disturbed that what it did not report as a
  conflict is what the catalog says, whatever an earlier command, killed anywhere, left.
* `AckKept` is about silence: an acknowledged event may be lost to an outsider, but
  then no load accepts the journal.

## 5. Proofs

Everything here holds for any processes or threads, any sets of transactions, targets,
sources, nodes and requests, and any number of edits, events and faults, except where a
hypothesis is named. TLC has checked each inductive invariant on the instances of section 3
or on smaller ones of the same modules before it was proved.

| Module | Theorem | Property | Hypothesis |
|---|---|---|---|
| `ApplyJournal_proofs` | `TypeCorrect` | `TypeOK` | |
| | `BackupsCorrect` | `BackupsMatch`, in `CrashConsistent` | |
| | `RecoveryCorrect` | `RecoverySettles` | |
| | `CommitCorrect`, `RollbackCorrect`, `MarkersCorrect` | `CommitPoint`, `RollbackRestores`, `MarkersTrue` | |
| | `DriftCorrect` | `DriftPreserved` | |
| | `CrashRecoverable` | `CrashConsistent` | one transaction, no edit so far |
| | `CommitHolds` | `CommittedStays` | one transaction, no edits |
| | `BatchIsAtomic` | `AtomicSpec`: the refinement of `AtomicBatch` | one transaction, no edits |
| `SourceRegistry_proofs` | `TypeCorrect`, `LockHeld` | `TypeOK`, `LockInv` | |
| | `NothingLeaks` | `NoLeak` | |
| | `TablesAreSound` | `TablesSound` | |
| | `QueriesUndisturbed` | `HeldStill` | |
| | `QueriesAreServed` | `QueriesServed` | no context inside another |
| | `AnswersAreOwn` | `AnswersOwn` | no attached database |
| | `ReloadsAreAtomic` | `AtomicReload`: the refinement of `AtomicSources` | no swallowed restore failure |
| `SessionStore_proofs` | `TypeCorrect`, `LockCorrect` | `TypeOK`, `LockInv` | |
| | `DependentsCorrect` | `Dependents` is the least closed set | |
| | `AckCorrect` | `AckKept` | |
| | `HistoryLegal` | the journal replays to its last line | |
| | `CrashCorrect` | `CrashReadable` | |
| | `DurableUnlessMerged` | as `HeadDurable`, with a broken end too | no line without its newline |
| | `SidecarCorrect` | `SidecarSound` | |
| | `LinesReadBack` | `LineReadsBack` | no line without its newline |
| | `StoreIsLog` | `LogSpec`: the refinement of `SessionLog` | in the property: but for what is removed or joined |
| | `StaleCorrect` | `StaleSound` | |
| | `StaleForGood` | the stale set is `StaleOf`: nothing leaves it | |
| `Discovery_proofs` | `TranscriptCorrect` | `TranscriptSound` | |
| | `HistoryIsKept` | `HistoryKept` | |
| | `BindingsCorrect` | `BindingsAgree` | in the property: nothing killed or closed, no charter overtaken |
| | `CorrectionsStale` | `CorrectionStales` | in the property: nothing killed or closed |
| `Approval_proofs` | `Attestations` | `AppliedWasAttested` | |
| | `Commutes` | `OrderFree` | |
| | `Recorded` | `RecordSound` | in the property: nothing killed, for what is on record |
| `Profiling_proofs` | `Exact` | `ScanExact` | in the property: one scan at a time, an honest token; nothing counted over a torn file |
| | `OnlyApproved` | `ExportApproved` | |
| | `Sound` | `ExportsSound` | in the property: one export at a time |
| `Bundle_proofs` | `Trust` | `TrustFollows` | |
| | `Builds` | `BuildWhole` | |
| | `Curation` | `CuratedKept` | in the property: not saved between its reading and its replacement |
| | `Convergence` | `SyncConverges` | in the property: nobody saved meanwhile, no conflict, no orphan |
| | `Contexts` | `ContextExact` | |

*Assumptions.* Those the modules declare of their constants: bounds are natural numbers,
sentinels differ from the values they stand beside (and a handle, which is a pair, from a
sentinel), a batch has a target, every source is of one of the four kinds, requests and the
genesis have the shape of an event, the nodes and the artifacts of a discovery are finitely
many, a proposal is a sequence of group records whose operations are numbered and aim at
known targets (`ApprovalAssumption`), columns are finitely many, caps are numbers, and data
are sequences of batches of rows (`SamplingAssumption`, `ProfilingAssumption`); concepts are named by a kind that has a
directory and a name, and there are finitely many paths, which `Rank` orders as sorting
orders them (`CatalogAssumption`). `AuthorsAssumption` says what people do not write by hand:
the mark of generation, the id of the concept, and a verification of anything but the
definition it stands beside. It is needed: a copy of a generated document under another name
refutes `SyncConverges` (section 6). `BoundsAssumption` says that a request is a sequence of
ids without repetition, none of them the sentinel of a missing id. Nothing is
assumed of `Core` and `Rows`, the checks of the core library. TLC evaluates the assumptions
in every run. The bounds may have any value.

### The journal

`IInv` of `ApplyJournal_proofs`: the lock makes its
holder the only writer (`LockInv`), so what the holder has established about the
targets it passed (`ApplyInv`, `RestoreInv`, `CreateInv`) and about the directories
it passed (`SettleInv`) can be disturbed by edits only, which `dirty` and `edits`
record. The properties alone are not inductive: `CommitPoint` needs the loop
invariant of `apply`, `RollbackRestores` that of the restore, `BackupsMatch` that of
`create`, and all of them need `JobInv` and `DirInv`, which say that a process at a
given step has a transaction that exists.

A second invariant adds what the disk says whoever was stopped where (`DiskInv`): a target
of a transaction holds its old bytes, its new ones or `Torn`, and those replaced are a
prefix, at most `next_target`. To keep it through every step it takes what each process
still owes (`ProcsInv`): nothing is replaced ahead of an apply, all of it from the success
marker on, and a restore goes backward over bytes that are not committed; who made a
transaction works on it alone until it lets go of the lock for good (`OwnInv`); a conflict
is reported over a torn target only, which no process touches any more (`StuckInv`). The
refinement maps a directory to `open`, `committed` or `closed` by its marker and its
record, and each step to a step of `AtomicBatch` or a stutter.

The hypothesis of a single transaction is needed, not a convenience: with two, an apply that
looks at the state in its memory, or a rollback somebody asked for, may take the
bytes of the other one (section 6), and what holds then is what `RecoverySettles` and
`DriftPreserved` say. Edits are excluded for the same reason. The attempt at the refinement
also found that it was too strong: a batch in which every target is given the bytes it has can
be closed although its marker is valid, since a recovery compares bytes. `AtomicBatch` now
says so (`Withdraw`), and the run has such batches.

### The registry

`IInv` of `SourceRegistry_proofs` gives every open handle one place: registered, a candidate
of a reload, on a cleanup list, or bound to a context (`NoLeak`, with `ApartInv`: never in two
of them). Candidates are newer than what they replace (`CandInv`), so that a swap never brings a
closed handle back; the connection is the registry or, while a reload is at it, its candidates
(`ConnInv`); a query-scoped name resolves to a reader of its own or to nothing
(`ScopedConnInv`). The lock is counted (`LockInv`): once for each open context and once for a
reload, and a thread without it is at the start of a method or closing what its own reload has
replaced. That last clause is all `HeldStill` needs of other threads. `BoundInv` and
`ResultInv` are what `QueriesServed` and `AnswersOwn` need in addition.

The hypotheses are the divergences of section 6: a context nested over the same query-scoped
source unregisters the outer name (`MaxNest <= 1`); the `DETACH` of a replaced database runs
on the shared connection without the lock (no source of kind `database`); a restore whose
failure is dropped leaves the connection on a handle that was never published (`lost = 0`;
`ReloadsAreAtomicUnlost` is the same theorem with `MaxLostRestores = 0`, as in
`RegistryReload`).

### The session store

An acknowledged event is among the first
`head.count` lines whenever the journal is at least that long (`CoverInv`). To keep
it, the one who publishes a sidecar must have replayed the file it has synced
(`CallInv`), nobody else may write meanwhile (`LockInv`), ids must be fresh
(`IdInv`), and no fault may cut an acknowledged line: power takes only unsynced ones
(`SyncInv`), and a merge of two lines destroys only a line without its newline,
which nobody acknowledged (`TailInv`). The last point is the delicate one: the merge
may shorten the journal below what was synced, and is harmless only because the
caller has replayed it first, so that every acknowledged event is on an earlier
line.

`SInv` of `SessionStore_proofs` adds that the journal replays from its first line to its
last and that the line being written continues it (`JournalInv`), that the sidecar names the
line it counts up to (`HeadInv`), that it counts what is stable (`StableInv`) and no more than
a load finds (`BehindInv`). `StoreIsLog` maps the store to a log of the complete lines,
without the one that is being synced (`Committed`); each step adds one legal event, takes
unsynced ones, is an outsider's, joins two lines, or stutters. An event joins the log when
its line is synced, or when the process is killed before that and the whole line stays, or
when the machine loses power and does not lose it. That it is legal then is what the line
knew when it was written, which `AppendInv` carries to that moment.

`"open" \notin Cuts` says that no crash leaves a whole line without its newline.
`SessionMerge` is what happens otherwise, and `LinesReadBack` shows that it is the only way a
line does not read back. The proof met a second consequence of the same merge: it takes a
line the sidecar has counted off stable storage, and a synced event out of the log, which is
the step `Joined` of `LogSpec`. From then on no load accepts the journal, so `HeadDurable`
speaks of files whose end is not torn; `DurableUnlessMerged` says that with no such line it
holds of a torn end too. What an outsider removes (`Remove` of `SessionLog`) no crash takes,
and the log counts it.

### The stale set

`StaleSound` and `StaleForGood` are about what a replay computes for every journal, over every graph, cycles
included. The prover has no induction over an operator. The proofs get it from the
order of the natural numbers: were a statement false for some length, there would be a least
such length (`LeastOf` of `Recursion_proofs`, from the well-foundedness of `<`), and its
predecessor refutes it.
`DependentsCorrect` follows that way: the loop grows a subset of the finite `Nodes` until it
stops growing, so it stops within `Cardinality(Nodes)` rounds, and each round stays inside
every closed set: `LeastClosed` of `Recursion_proofs`, for any such loop. `ReplayFacts` does the
same for the fold over a journal, and `ReplayTells` carries through the journal that hashes, dependencies and
stale nodes are those of the records seen so far.

### The interview and the claims

`IInv` of `Discovery_proofs` has five parts, and the later ones rest on the earlier.
`TranscriptInv` is about one journal: a process has the lock of a store exactly while its
command has work left there, and that work is one of a few plans (`WorkInv`: a line that
disposes of a gate, the binding of the gate, the binding of the answer, and so on); what the
interview says is sound (`KeptInv`: `Sound` adds to `OneOpenQuestion` that the current answer
of a gate is the last one recorded for it, without which a correction could leave an earlier
one current); and the copy in the memory of the one who has the lock is what a replay yields
(`LiveIsReplay`). A command writes its lines and changes its copy by different code, so each
event is shown to mean the same in both (`OneMeaning`).

`AgreeInv` is about two journals. `JournalsAgree` holds of an unlocked interview only; to
carry it from one command to the next, `AgreeOn` says what is bound while a command is
between its lines and its bindings: the text of the answer that is about to be replaced
(`Replaced`), and, for a gate still to be bound, only that it is disposed. It holds until a process is killed or
the session closed, which neither a later command nor a restart undoes.

`DerivedInv` and `ResolvedInv` do the same for the claims: what is bound depends on what it
was derived from, and so does what is still to be bound; a resolution is by the approver of
the charter its command has opened, which is the current one unless it was overtaken
(`SeenInv`). What a binding makes stale is not assumed: `RegisterStales` takes it from
`LeastClosed`, for the artifacts of a discovery. A claim
rests on one answer and a conflict on its claims, so `CorrectionsStale` is two steps through
that closed set; `ReviseResolved` is one step from the approver.

The proof showed which of the assumptions the properties need: a fingerprint never equals the
sentinel of an artifact nobody has recorded (`DiscoveryNodes`), and the name of a state is not
the name of an approver (`DiscoveryStates`). A claim added while a correction is under way needs no assumption about its own lock: if it
is bound by then, it depends on the answer and is stale; if not, it is bound later, of the new
answer.

### Proposals and batches

`Patched` applies the operations of a proposal one after the other. That the order does not
matter is a fact about it, not about the steps: when no two operations share a target, the
tree it makes is the one in which each target has the outcome of its one operation, or what
it had (`PatchedIsResult`, by induction over the operations), and a set of operations has no
order. `ChangedByOperation` is the same fact read backwards: what differs between base and
candidate is some operation's outcome.

The rest is the chain from a file on disk to a decision. `Prepared` says of a batch that its
candidate is its groups' reconstruction over its base, that no two operations of them share
a target, and that each attestation it carries is an acceptance of the group the batch
reconstructs. To get there one has to know that the two ways in which the code finds a group
by its id agree (`OneOfId`): attest takes the first of that id and prepare the last, and a
proposal may have both (section 6). They agree wherever an attestation passed, since it is
compared with the other one. `AttestedInv` and `SignedInv` say that a decision on disk was
signed by the approver its session names; decisions are never taken back, so a batch once
`Accounted` for stays so (`AccountedKept`). `Vouched` is the signature under the batch.

`JobOK` says what each command still holds of what it read. The properties alone are not
inductive: between `Validate` and `Commit` a batch is neither shown nor applied, the files
it was read from may be another batch's by then, and only the job remembers that it was
compared. `Accounted` is added in `Validate`, where the attestations on disk are those of
the batch; everything after it carries it along. `TxnsInv` keeps transactions apart by their
batch, and recovery completes nothing (`RecoveryKeeps`: its completed transactions are among
those there were), so what is `applied` after it was applied before. For `AppliedIsRecorded`
the process of an `open` entry is still at `record` (`RecordJob`), as the same batch cannot
be created twice.

### Profiling

`ScanInv` relates a scan to the spill: what it read is a first part of its stream, agrees
with the checkpoint it resumes, and, if the scan is alone, the spill holds these batches and
those of the checkpoint and no other (`ReadsOn`), by name: a file in it may be torn if it is
the one being written, or if it was torn when the scan resumed it, which the scan remembers
(`intact`); a stream that is closed before its end is
flagged as late first, without which a cancelled scan would pass for a complete one; a
checkpoint on disk has batches of its token (`Recorded`). When the stream ends, the files of
the spill in the order of their names are then the stream itself (`FilesOfSpill`: a set of
files numbered from zero without a gap has one order). If all of them are whole the profile
is that of the snapshot, and if one is torn it counts nothing or the run fails. The property says nothing of a scan under way, hence the invariant.

`ExportInv` is about the commands: an activation was signed and fits its policy and profile
(`Activated`), an export in the hands of a command rests on one and shows what it allows
(`Exporter`, `Approved`), wherever the activation file went meanwhile. For the budget, a
command that is alone knows the bytes that are on disk (`Spends`), and the sum over the
exports grows by what it writes (`TotalGrows`, `BytesGrow`): sums are recursive functions,
so both are inductions. `Trimmed` drops rows until the caps fit; `TrimmedIsPart` and
`FirstPartSamples` say that what is left is a first part of the sample, so that trimming
shows nothing that was not shown before.

### Bundles

`FilesOK` says of every document on disk, whoever wrote it last: it is shown as verified only
with what was verified (`Trusted`), and it says it was generated only at the path of the
concept it names (`Placed`). `TrustFollows` alone is not inductive: sync writes what it makes
of the bytes it has read, and between the reading and the replacement the file may have
become another one, so the invariant says the same of the bytes in the hands of the command
(`Reading`). The merge keeps it: it drops a verification unless the definitions it leaves are
those it found (`MergeFacts`).

`Reading` also says that what was parsed, what was read and what is on disk are one document
as long as nobody has saved it. That is all `CuratedKept` needs: with it, `Synced` compares the
document it replaces with itself (`SyncedFacts`).

`SyncConverges` speaks of the end of a loop over the documents. `Synchronised` is its
invariant: each document the loop has left behind is what the catalog says or is in the list
of conflicts, as long as nobody saved anything (`quiet`): the merge takes every controlled
part from the catalog, and keeps the definition only where it is the catalog's already. From
the last report to what strict loading expects there are two more
steps (`ReportSound`). Loading guesses from the documents whether they were generated with or
without descriptions, and the guess must be the mode of the sync, also for an empty catalog
and beside unrelated pages. And a document of a concept that is gone says it was
generated: it is at the path of its concept (`Placed`), hence is no concept of this catalog
and would have been reported as an orphan.

`BuildWhole` holds by `Building`, of what is staged: a build is renamed in one step, so all
there is to show is that the composition of references and overlays never brings in a
document that the invariant of the files forbids (`ComposedFacts`).

`Ordered` and the loops of `context_for` are recursive functions; `OrderedFacts` shows that
there is an order to walk in, from `RankExists` of `Recursion_proofs`.

`ContextExact` is about a function, not about steps: that the breadth-first walk of
`context_for` gives the nearest part of the graph of links, whatever its cycles and diamonds.
The definition it is compared with (`Near`) knows neither queue nor order. `Walked` is the
invariant of the loop: there is a distance for each item, it never decreases along the items,
and an item is within `m` links of what was asked for exactly when its distance is at most
`m`; the queue holds the items that have not left it yet. `Closed` says that all that is linked
from those that have left is among the items, and `Searched` that the level of the next one
is complete. So what is added next is one link farther and no nearer, however it is reached
later (`TakeKeeps`), and an empty queue has reached everything that is near enough. Both hold
until something did not fit. The model takes as many turns as there are concepts: as no
concept is taken twice (`NoMore`), this empties the queue (`WidenKeeps`, `SearchEnds`).

### What is only checked

* Liveness under fairness (`Progress`, `LockReturns`, `ScanEnds`): no prover for it here.
* The properties of `QueryEngine`: `Catalog` and `Querying` walk graphs and expressions with
  recursive operators, which are out of the prover's reach.
* `CrashConsistent`, `CommittedStays` and `AtomicSpec` with two transactions: the first
  two are not true of them in general; see above.

## 6. Known divergences without a run

Read in the code, most of them reached by the models, and left without a run of their own:
where a property above touches one, it is stated for what does hold.

*Apply, session, registry, interview*

* `recover` takes an older completed batch back when a later one has put one of its targets
  back to the old bytes (`sd/transaction.py:775`, `:804`), and so changes another target;
  design line 741 says that repeated recovery is idempotent.
* The genesis append creates the journal before it writes the first sidecar: a crash in
  between leaves a session that neither `open` nor `create` accepts (`sd/session.py:1287`),
  against the comment at `:1293-1297`. `CrashReadable` is stated for `head # NoFile`.
* Closing a replaced database handle runs `DETACH` on the shared connection after the lock
  was released (`registry.py:472`). Between another thread's execute and fetch this replaces
  its result; the docstring of `execute` (`:885`) says that execution can never bypass
  locking. `AnswersOwn` is checked over sources that are not attached.
* A scan session released from another thread raises, the error is swallowed and the lock
  stays taken (`registry.py:1023`). `recheck_snapshot` is called by no product code.
* `proposal attest` passes `group_stale=False` (`sd/cli.py:1493`), and readiness looks at a
  state that is `current` for every claim ever recorded (`sd/proposal.py:2675`): a group
  whose claim a correction has just made stale is attested, against the docstring of
  `sd/approval.py` (line 11) and design line 701.
* A crash inside the in-place restore (`sd/transaction.py:697`) leaves torn bytes
  that the record does not name; every later `recover` reports a conflict
  (`InTheWay` in `ConflictExplained` and `EventuallySettled`).
* Two ordinary batches over one target: the next recovery pass judges the older,
  completed one by bytes that belong to the newer one (`:775`, `:804`) and refuses
  with a conflict, and so does `create`, which recovers first.
* `apply` looks at the state in memory (`:584`): a batch another process has rolled
  back on disk is applied after all (`Reopen` in `AtomicBatch`).
* `restore_quietly` (`registry.py:1265`) drops the failure of a restore: the
  connection then serves a handle that was never published and is about to be closed,
  against lines 6-8 of the module docstring. `RestoreLost` is that step, and
  `ServedLive` is stated for `lost = 0`.
* The registry's lock is re-entrant: a thread can reload inside its own query,
  against lines 24-27. `HeldStill` is about other threads. In the same way a context
  nested over the same query-scoped source unregisters the outer one's name.
* `open` writes the cache outside the lock (`sd/session.py:728`) through a temporary
  name all processes share. A mutation whose file it took raises after its event was
  committed (`ReplaceFails`); design line 871 says that failures do not advance state.
* After a kill between write and sync, `open` publishes a sidecar for a line nobody
  has synced (`:727`), against the docstring at `:1214`. `HeadDurable` is stated for
  `kills = 0`.
* A kill, or a session closed by another process, between the line of an answer and
  its binding loses the binding for good: no command binds it again, and the
  correction of such an answer is the first binding of its node, which stales nothing
  (`sd/interview.py:763`, `:846`, against design line 50).
* A claim names the answer node of a gate, not the answer: one bound after a
  correction its author did not see is fresh (`sd/evidence.py:1816`).
* `resolve_conflict` checks its actor against the charter in memory
  (`sd/evidence.py:1952`): a resolution by an approver replaced meanwhile stands and
  is not stale (`overtaken`).
* `answer` twice for one gate leaves the first answer `current` beside the second, open
  to a correction that supersedes it (`sd/interview.py:795`); it binds the gate before
  the answer, so the gate that was just disposed is at once stale. `set_gate` disposes
  a gate as `answered` that has no answer.
* Nothing ever leaves the stale set (`sd/session.py:1109`): the run `SessionRebuild`.
* The payload of a transition is merged over its event after the target was validated
  (`sd/session.py:839-842`): a payload with a key `target` writes another target than the one
  checked, and a replay may reject the line. No product code passes such a payload; the model
  always writes the validated target.

*Proposals*

* Apply compares base and batch with one reading of the tree and takes the bytes it finds
  later as the old ones (`sd/cli.py:1966`, `:1984`): an edit in between is overwritten, where
  design line 721 asks for the comparison under the lock.
* Two groups of one id pass `build_proposal` (`sd/proposal.py:1567` keeps the last of them).
  Attest signs the first (`sd/cli.py:1468`), prepare compares the last: the group can be
  attested and its batch never prepared.
* A group with a dependency can never be opened on its own (`sd/cli.py:1355`), and every
  attestation opens it so (`:1424`): such a group is never attested, against design line 703.
* `DependencyGroup.to_dict` drops the query cases (`sd/proposal.py:1402`), so that the
  acceptance check of a stored proposal never has any, against the docstring at `:2341`.
* The overlap guard of a proposal compares kind and target (`sd/proposal.py:1594`), where its
  docstring says the same object. `before` is not compared with the base on reconstruction.
* A batch that was rolled back cannot be applied again: its transaction exists. A kill after
  apply and before `record_artifact` (`sd/cli.py:1992`) is never put right.

*Profiling*

* A spill file is opened under its final name, which carries the digest of its batch, and
  written afterwards (`sd/profiling.py:828-835`); a resumption compares names only (`:630-661`).
  A scan resumed over a file that was killed, or whose write failed, half way completes with
  `row_count` 0 and no other counts, since the error of each query is taken for no value
  (`:950-957`, `:889-891`), or fails if the torn file is the first. The docstring at `:633`
  says of a corrupt spill that it fails so that the scan restarts. `ScanExact` states the
  outcome (`Uncounted`); the `profile scan` command never resumes.
* Every scan of a session uses one spill directory without a lock (`sd/cli.py:728`), so the
  batches of another scan may end in the aggregate, against the comment at
  `sd/profiling.py:578`. A resumption over a stream that became shorter completes with
  the surplus of the spill.
* Two exports at once read the same used bytes and take the same name (`sd/cli.py:2241`),
  against its docstring. The salt file is created and then written (`:2159`): a reader in
  between takes an empty salt, against the docstring at `:2149`; `salt_id` is not compared
  at export, nor are the snapshot and schema of the export's own scan with the profile's.
* A crash between the activation file and its session record leaves an activation the
  session does not know (`:2410`).

*Semantic layer*

* `_deprecated_evidence` leaves out a deprecated dimension that is only filtered by. A range
  filter with a bound that is None compiles to `BETWEEN NULL`. A metric that is accepted may
  still be refused as ambiguous; inner joins drop anchor rows whose key is null (the
  audit reports both kinds of row, the planner neither). `verify_static` does not look at
  `replaced_by` of an active object.

*OKF*

* `status` and `replaced_by` are not controlled keys (`okf/document.py:26`): after a
  deprecation a sync leaves `stable` in the document.
* sync reads a document twice and replaces it without a lock (`okf/bundle.py:394-459`): a save
  in between is lost. `generate` looks at an empty destination only when it begins.
* A copy of a generated document under another name is neither a conflict nor an orphan, but
  makes the bundle fail to load. A changed title or description keeps `verified`.

## 7. Not modelled, and why

* *Apply transaction:* path containment, symlink checks and malformed journals (they
  refuse before anything changes); directory entries that were never synced (taken to be durable).
* *Session store:* tampering with the hash chain (the chain is the order here);
  the owner file; batches under `lock()`, which nest the same steps; the partial
  content of the cache, which is never read as authority; a fragment that vanishes
  with the power.
* *Registry:* drivers, schemas and drift beyond "inspection may fail"; the columns a plan
  needs of each source; batch sizes.
* *Discovery:* snapshots, the manifest and selectors of the evidence store; text,
  reason and scope checks, which refuse before anything is written; a line torn by a
  kill (the journals of the two stores are written like the session's, without its
  sidecar).
* *Proposals:* the layout of YAML and of the rendered summary, formats and sizes of fields,
  the scope of paths; what a check of the core library finds (`Core`, a constant here; the
  checks themselves are in `Catalog`, `Querying` and `Concepts`).
* *Profiling:* floating point, histograms and the SQL of DuckDB; the operating system's
  file permissions.
* *Semantic layer:* YAML, positions and wording of issues; the expression parser and
  printer; the text of compiled SQL, null-safe ratios and parameter order; freshness and
  accepted values in the audit. Text in and text out, without state: unit tests reach it well.
* *OKF:* attested computations and compatibility reports, the walk over input files and its
  limits, dry runs, which write nothing; the YAML of a document.
* *Schemas, declarations, source profiles, adapters, knowledge providers, the core command
  line:* parsing, comparison of one value with another, drivers and printing, without state
  that outlives a call. Canonical values and fingerprints are the identity of what is
  fingerprinted.

## 8. What would come next

1. The evidence store in `Discovery`: snapshots written before their manifest line,
   selectors that turn stale between their check and the claim.
2. Durability of the transaction directory: entries that were not synced.
3. Columns and schemas: `requirements_for_plan` and the widening of a declared schema.
4. The recursive operators of `Catalog` and `Querying` as recursive functions, so that the
   properties of `QueryEngine` can be proved; `PathExact` first.

The number of runs stays at a dozen so that all of them can be repeated with every
change: a new component shares a run with the one it composes with.

## 9. Running

    tlc -workers 2 -config ApplyCrash.cfg MCApplyJournal.tla
    for m in *_proofs.tla; do tlapm $m; done

`PROJECT.json` lists for every definition the lines it models, for every property a
mutant of the code's model that violates it, and the hazards each property is for.
