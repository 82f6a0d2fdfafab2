---------------------------- MODULE ApplyJournal ----------------------------
(***************************************************************************)
(* The journalled multi-file transaction of the discovery companion:       *)
(* selayer_discovery/transaction.py.                                       *)
(*                                                                         *)
(* ApplyJournal.create stages the new bytes of every target, backs the old *)
(* bytes up and writes a "prepared" journal, all under the project lock,   *)
(* which it then RELEASES; apply takes the lock again and replaces the     *)
(* targets one by one; rollback and recover undo, or finalize, from the    *)
(* journal.  Every step between two system calls that change the disk is   *)
(* an action of its own, so that a process may be stopped, or another one  *)
(* or an editor may run, between any two of them.                          *)
(*                                                                         *)
(* Bytes are abstracted to members of Contents, and a SHA-256 digest to    *)
(* the bytes it identifies.  A transaction identifier and a target path    *)
(* are numbers: sorted(directories) and sorted(files.items()) are their    *)
(* orders.  next_target is the path it indexes.                            *)
(***************************************************************************)
EXTENDS Integers, FiniteSets

CONSTANTS
    Procs,     \* processes that run the library (a CLI invocation each)
    Txs,       \* transaction identifiers, the names of journal directories
    Paths,     \* target files of the project
    Contents,  \* the byte strings a target may hold
    Batches,   \* the `files` arguments create may be called with
    InitFiles, \* the target trees the program may start from
    NoProc,    \* nobody holds the project lock
    Keep,      \* a path the batch does not target
    Absent,    \* the file does not exist
    Torn,      \* what an interrupted write_bytes leaves behind
    MaxEdits,  \* bound: edits made outside the library
    MaxFails   \* bound: exceptions, kills and crashes of processes

Value == Contents \cup {Absent, Torn}

ASSUME NumberAssumption ==
    /\ Txs \subseteq Nat \ {0}
    /\ Paths \subseteq Nat \ {0}
    /\ MaxEdits \in Nat
    /\ MaxFails \in Nat

ASSUME SentinelAssumption ==
    /\ NoProc \notin Procs
    /\ Keep \notin Value
    /\ Absent \notin Contents
    /\ Torn \notin Contents
    /\ Absent # Torn

\* A batch has at least one target: the command always writes the catalog.
ASSUME BatchAssumption ==
    /\ Batches \subseteq [Paths -> Contents \cup {Keep}]
    /\ \A b \in Batches : \E p \in Paths : b[p] # Keep
    /\ InitFiles \subseteq [Paths -> Contents \cup {Absent}]

VARIABLES
    file,     \* the targets, as any process reads them
    dir,      \* transaction directories that exist
    new,      \* per transaction: the bytes each target is to hold
    old,      \* per transaction: TargetRecord.old_hash, Absent for old_absent
    staged,   \* per transaction: the staged files not yet moved onto a target
    backup,   \* per transaction: the backup files, Absent where there is none
    journal,  \* per transaction: journal.json's state, "none" before it exists
    next,     \* per transaction: journal.json's next_target
    success,  \* transactions with a success.json
    applied,  \* transactions with an applied.json
    lock,     \* the holder of .project.lock
    pc,       \* where each process stands
    cmd,      \* the library call it is in
    own,      \* the transaction it was asked to create
    tx,       \* the journal object it works on, 0 for none
    todo,     \* recover: the directories still to be examined
    left,     \* the targets the current loop has still to visit
    outcome,  \* how its last call ended
    dirty,    \* targets edited since the lock was last taken
    edits,    \* edits so far
    fails     \* failures so far

targets == file
store   == <<dir, new, old, staged, backup>>
log     == <<journal, next, success, applied>>
call    == <<cmd, own, tx, todo, left, outcome>>
outside == <<edits, fails>>
vars == <<targets, store, log, lock, pc, call, dirty, outside>>

JournalStates == {"none", "prepared", "applying", "success_marked",
                  "completed", "rolled_back"}

\* The program points of a process; those of Locked are inside `with ProjectLock`.
Unlocked == {"idle", "created", "applied", "undo"}
Locked == {"recover", "finalize", "restore", "unlink", "truncate", "rewrite",
           "mkdir", "hash", "stage", "mark", "check", "swap", "success",
           "event", "complete"}

Targets(t) == {p \in Paths : new[t][p] # Keep}

\* Records are visited in sorted order, those of a rollback in reverse.
IsFirst(p, S) == p \in S /\ \A q \in S : p <= q
IsLast(p, S)  == p \in S /\ \A q \in S : q <= p

TypeOK ==
    /\ file \in [Paths -> Value]
    /\ dir \subseteq Txs
    /\ new \in [Txs -> [Paths -> Contents \cup {Keep}]]
    /\ old \in [Txs -> [Paths -> Value]]
    /\ staged \in [Txs -> SUBSET Paths]
    /\ backup \in [Txs -> [Paths -> Value]]
    /\ journal \in [Txs -> JournalStates]
    /\ next \in [Txs -> Paths \cup {0}]
    /\ success \subseteq Txs
    /\ applied \subseteq Txs
    /\ lock \in Procs \cup {NoProc}
    /\ pc \in [Procs -> Unlocked \cup Locked]
    /\ cmd \in [Procs -> {"none", "create", "recover", "rollback"}]
    /\ own \in [Procs -> Txs \cup {0}]
    /\ tx \in [Procs -> Txs \cup {0}]
    /\ todo \in [Procs -> SUBSET Txs]
    /\ left \in [Procs -> SUBSET Paths]
    /\ outcome \in [Procs -> {"none", "done", "conflict", "error"}]
    /\ dirty \subseteq Paths
    /\ edits \in Nat
    /\ fails \in Nat

Init ==
    /\ file \in InitFiles
    /\ dir = {}
    /\ new = [t \in Txs |-> [p \in Paths |-> Keep]]
    /\ old = [t \in Txs |-> [p \in Paths |-> Absent]]
    /\ staged = [t \in Txs |-> {}]
    /\ backup = [t \in Txs |-> [p \in Paths |-> Absent]]
    /\ journal = [t \in Txs |-> "none"]
    /\ next = [t \in Txs |-> 0]
    /\ success = {}
    /\ applied = {}
    /\ lock = NoProc
    /\ pc = [self \in Procs |-> "idle"]
    /\ cmd = [self \in Procs |-> "none"]
    /\ own = [self \in Procs |-> 0]
    /\ tx = [self \in Procs |-> 0]
    /\ todo = [self \in Procs |-> {}]
    /\ left = [self \in Procs |-> {}]
    /\ outcome = [self \in Procs |-> "none"]
    /\ dirty = {}
    /\ edits = 0
    /\ fails = 0

-----------------------------------------------------------------------------
(* Control: the lock, the end of a call.                                    *)

At(self, label) == pc[self] = label
Goto(self, label) == pc' = [pc EXCEPT ![self] = label]

\* ProjectLock.__enter__ with timeout 0; a busy lock is LockBusy.
Acquire(self) ==
    /\ lock = NoProc
    /\ lock' = self
    /\ dirty' = {}

\* Mutant of Finish: the lock is given back only by a call that succeeds.
FinishKeepsLock(self, result) ==
    /\ lock' = IF lock = self /\ result = "done" THEN NoProc ELSE lock
    /\ Goto(self, "idle")
    /\ cmd' = [cmd EXCEPT ![self] = "none"]
    /\ own' = [own EXCEPT ![self] = 0]
    /\ tx' = [tx EXCEPT ![self] = 0]
    /\ todo' = [todo EXCEPT ![self] = {}]
    /\ left' = [left EXCEPT ![self] = {}]
    /\ outcome' = [outcome EXCEPT ![self] = result]

\* The call returns, or raises out of every handler: its locals are gone.
Finish(self, result) ==
    /\ lock' = IF lock = self THEN NoProc ELSE lock
    /\ Goto(self, "idle")
    /\ cmd' = [cmd EXCEPT ![self] = "none"]
    /\ own' = [own EXCEPT ![self] = 0]
    /\ tx' = [tx EXCEPT ![self] = 0]
    /\ todo' = [todo EXCEPT ![self] = {}]
    /\ left' = [left EXCEPT ![self] = {}]
    /\ outcome' = [outcome EXCEPT ![self] = result]

\* apply and rollback find the lock taken: TransactionError("locked").
LockBusy(self) ==
    /\ pc[self] \in {"created", "undo"}
    /\ lock # NoProc
    /\ Finish(self, "error")
    /\ UNCHANGED <<targets, store, log, dirty, outside>>

-----------------------------------------------------------------------------
(* recover and the recovery pass that create runs first.                    *)

Begin(self, command, t) ==
    /\ At(self, "idle")
    /\ Acquire(self)
    /\ Goto(self, "recover")
    /\ cmd' = [cmd EXCEPT ![self] = command]
    /\ own' = [own EXCEPT ![self] = t]
    /\ todo' = [todo EXCEPT ![self] = dir]
    /\ outcome' = [outcome EXCEPT ![self] = "none"]
    /\ UNCHANGED <<targets, store, log, tx, left, outside>>

BeginRecover(self) == Begin(self, "recover", 0)
BeginCreate(self) == \E t \in Txs : Begin(self, "create", t)

\* success.json names every new hash and every target holds it now.
ValidSuccess(t) ==
    /\ t \in success
    /\ \A p \in Targets(t) : file[p] = new[t][p]

\* Mutant of Finalized: an applied marker is enough, whatever the journal says.
FinalizedByMarker(t) == ValidSuccess(t) /\ t \in applied

Finalized(t) == ValidSuccess(t) /\ journal[t] = "completed" /\ t \in applied

\* Mutant of Restorable: no preflight.
RestorableAlways(t) == TRUE

\* The preflight of _rollback_unlocked.
Restorable(t) == \A p \in Targets(t) : file[p] \in {old[t][p], new[t][p]}

Examines(self, t) ==
    /\ At(self, "recover")
    /\ IsFirst(t, todo[self])

RecoverSkip(self) ==
    \E t \in Txs :
        /\ Examines(self, t)
        /\ journal[t] \in {"none", "rolled_back"} \/ Finalized(t)
        /\ todo' = [todo EXCEPT ![self] = @ \ {t}]
        /\ UNCHANGED <<targets, store, log, lock, pc, cmd, own, tx, left,
                       outcome, dirty, outside>>

\* The marker is valid: write applied.json when it is missing.
RecoverForward(self) ==
    \E t \in Txs :
        /\ Examines(self, t)
        /\ journal[t] \notin {"none", "rolled_back"}
        /\ ValidSuccess(t) /\ ~Finalized(t)
        /\ applied' = applied \cup {t}
        /\ tx' = [tx EXCEPT ![self] = t]
        /\ Goto(self, "finalize")
        /\ UNCHANGED <<targets, store, journal, next, success, lock, cmd, own,
                       todo, left, outcome, dirty, outside>>

RecoverFinalize(self) ==
    /\ At(self, "finalize")
    /\ journal' = [journal EXCEPT ![tx[self]] = "completed"]
    /\ todo' = [todo EXCEPT ![self] = @ \ {tx[self]}]
    /\ tx' = [tx EXCEPT ![self] = 0]
    /\ Goto(self, "recover")
    /\ UNCHANGED <<targets, store, next, success, applied, lock, cmd, own,
                   left, outcome, dirty, outside>>

\* Mutant of NeedsRollback: the marker is not looked at, only the journal.
NeedsRollbackByState(self, t) ==
    /\ Examines(self, t)
    /\ journal[t] \notin {"none", "rolled_back", "completed"}

NeedsRollback(self, t) ==
    /\ Examines(self, t)
    /\ journal[t] \notin {"none", "rolled_back"}
    /\ ~ValidSuccess(t)

RecoverBackward(self) ==
    \E t \in Txs :
        /\ NeedsRollback(self, t)
        /\ Restorable(t)
        /\ tx' = [tx EXCEPT ![self] = t]
        /\ left' = [left EXCEPT ![self] = Targets(t)]
        /\ Goto(self, "restore")
        /\ UNCHANGED <<targets, store, log, lock, cmd, own, todo, outcome,
                       dirty, outside>>

RecoverRefuses(self) ==
    \E t \in Txs :
        /\ NeedsRollback(self, t)
        /\ ~Restorable(t)
        /\ Finish(self, "conflict")
        /\ UNCHANGED <<targets, store, log, dirty, outside>>

\* Every directory was examined: recover returns, create goes on.
RecoverDone(self) ==
    /\ At(self, "recover")
    /\ todo[self] = {}
    /\ \/ /\ cmd[self] = "recover"
          /\ Finish(self, "done")
       \/ /\ cmd[self] = "create"
          /\ Goto(self, "mkdir")
          /\ UNCHANGED <<lock, call>>
    /\ UNCHANGED <<targets, store, log, dirty, outside>>

-----------------------------------------------------------------------------
(* _rollback_unlocked: the reverse loop over the records.                   *)

RestoresTarget(self, p) ==
    /\ At(self, "restore")
    /\ IsLast(p, left[self])

RestoreSkip(self) ==
    \E p \in Paths :
        /\ RestoresTarget(self, p)
        /\ file[p] # new[tx[self]][p]
        /\ left' = [left EXCEPT ![self] = @ \ {p}]
        /\ UNCHANGED <<targets, store, log, lock, pc, cmd, own, tx, todo,
                       outcome, dirty, outside>>

\* The target holds the new bytes: choose how to take them back.
RestoreChoose(self) ==
    \E p \in Paths :
        /\ RestoresTarget(self, p)
        /\ file[p] = new[tx[self]][p]
        /\ \/ /\ old[tx[self]][p] = Absent
              /\ Goto(self, "unlink")
           \/ /\ old[tx[self]][p] # Absent
              /\ backup[tx[self]][p] = old[tx[self]][p]
              /\ Goto(self, "truncate")
        /\ UNCHANGED <<targets, store, log, lock, call, dirty, outside>>

\* The backup is missing, or is not what old_hash says.
RestoreRefuses(self) ==
    \E p \in Paths :
        /\ RestoresTarget(self, p)
        /\ file[p] = new[tx[self]][p]
        /\ old[tx[self]][p] # Absent
        /\ backup[tx[self]][p] # old[tx[self]][p]
        /\ Finish(self, "conflict")
        /\ UNCHANGED <<targets, store, log, dirty, outside>>

RestoreUnlink(self) ==
    \E p \in Paths :
        /\ At(self, "unlink")
        /\ IsLast(p, left[self])
        /\ file' = [file EXCEPT ![p] = Absent]
        /\ left' = [left EXCEPT ![self] = @ \ {p}]
        /\ Goto(self, "restore")
        /\ UNCHANGED <<store, log, lock, cmd, own, tx, todo, outcome, dirty,
                       outside>>

\* path.write_bytes opens the target for writing, which empties it ...
RestoreTruncate(self) ==
    \E p \in Paths :
        /\ At(self, "truncate")
        /\ IsLast(p, left[self])
        /\ file' = [file EXCEPT ![p] = Torn]
        /\ Goto(self, "rewrite")
        /\ UNCHANGED <<store, log, lock, call, dirty, outside>>

\* ... and then writes the backup's bytes in place.
RestoreRewrite(self) ==
    \E p \in Paths :
        /\ At(self, "rewrite")
        /\ IsLast(p, left[self])
        /\ file' = [file EXCEPT ![p] = old[tx[self]][p]]
        /\ left' = [left EXCEPT ![self] = @ \ {p}]
        /\ Goto(self, "restore")
        /\ UNCHANGED <<store, log, lock, cmd, own, tx, todo, outcome, dirty,
                       outside>>

\* The journal is told only now; rollback returns, a recovery pass goes on.
RollbackWritten(self) ==
    /\ At(self, "restore")
    /\ left[self] = {}
    /\ journal' = [journal EXCEPT ![tx[self]] = "rolled_back"]
    /\ \/ /\ cmd[self] = "rollback"
          /\ Finish(self, "done")
       \/ /\ cmd[self] # "rollback"
          /\ todo' = [todo EXCEPT ![self] = @ \ {tx[self]}]
          /\ tx' = [tx EXCEPT ![self] = 0]
          /\ Goto(self, "recover")
          /\ UNCHANGED <<lock, cmd, own, left, outcome>>
    /\ UNCHANGED <<targets, store, next, success, applied, dirty, outside>>

-----------------------------------------------------------------------------
(* _create_unlocked: stage, back up, then write the journal.                *)

CreateExists(self) ==
    /\ At(self, "mkdir")
    /\ own[self] \in dir
    /\ Finish(self, "error")
    /\ UNCHANGED <<targets, store, log, dirty, outside>>

MakeDirectory(self) ==
    /\ At(self, "mkdir")
    /\ own[self] \notin dir
    /\ dir' = dir \cup {own[self]}
    /\ tx' = [tx EXCEPT ![self] = own[self]]
    /\ \E b \in Batches :
          /\ new' = [new EXCEPT ![own[self]] = b]
          /\ left' = [left EXCEPT ![self] = {p \in Paths : b[p] # Keep}]
    /\ Goto(self, "hash")
    /\ UNCHANGED <<targets, old, staged, backup, log, lock, cmd, own, todo,
                   outcome, dirty, outside>>

\* old_absent and old_hash of one target, and its staged copy ...
HashTarget(self) ==
    \E p \in Paths :
        /\ At(self, "hash")
        /\ IsFirst(p, left[self])
        /\ old' = [old EXCEPT ![tx[self]][p] = file[p]]
        /\ staged' = [staged EXCEPT ![tx[self]] = @ \cup {p}]
        /\ Goto(self, "stage")
        /\ UNCHANGED <<targets, dir, new, backup, log, lock, call, dirty,
                       outside>>

\* ... and its backup, which reads the target a second time.
BackupTarget(self) ==
    \E p \in Paths :
        /\ At(self, "stage")
        /\ IsFirst(p, left[self])
        /\ IF old[tx[self]][p] = Absent
             THEN UNCHANGED backup
             ELSE /\ file[p] # Absent
                  /\ backup' = [backup EXCEPT ![tx[self]][p] = file[p]]
        /\ left' = [left EXCEPT ![self] = @ \ {p}]
        /\ Goto(self, "hash")
        /\ UNCHANGED <<targets, dir, new, old, staged, log, lock, cmd, own, tx,
                       todo, outcome, dirty, outside>>

\* The target vanished between the two reads: target_unreadable.
BackupUnreadable(self) ==
    \E p \in Paths :
        /\ At(self, "stage")
        /\ IsFirst(p, left[self])
        /\ old[tx[self]][p] # Absent
        /\ file[p] = Absent
        /\ Finish(self, "error")
        /\ UNCHANGED <<targets, store, log, dirty, outside>>

\* The first journal.json, and the end of create's `with ProjectLock`.
WriteInitialJournal(self) ==
    /\ At(self, "hash")
    /\ left[self] = {}
    /\ journal' = [journal EXCEPT ![tx[self]] = "prepared"]
    /\ \E p \in Paths : /\ IsFirst(p, Targets(tx[self]))
                        /\ next' = [next EXCEPT ![tx[self]] = p]
    /\ lock' = NoProc
    /\ Goto(self, "created")
    /\ UNCHANGED <<targets, store, success, applied, call, dirty, outside>>

-----------------------------------------------------------------------------
(* apply: replace every target, then the success marker.                    *)

\* The early return of apply looks only at the state of the object in memory,
\* which is still "prepared", whatever journal.json has become since.
BeginApply(self) ==
    /\ At(self, "created")
    /\ Acquire(self)
    /\ journal' = [journal EXCEPT ![tx[self]] = "applying"]
    /\ \E p \in Paths : /\ IsFirst(p, Targets(tx[self]))
                        /\ next' = [next EXCEPT ![tx[self]] = p]
    /\ left' = [left EXCEPT ![self] = Targets(tx[self])]
    /\ Goto(self, "mark")
    /\ UNCHANGED <<targets, store, success, applied, cmd, own, tx, todo,
                   outcome, outside>>

\* Mutant of MarkTarget: next_target names the target after the one replaced.
MarkBeyond(self) ==
    \E p \in Paths :
        /\ At(self, "mark")
        /\ IsFirst(p, left[self])
        /\ next' = [next EXCEPT ![tx[self]] = p + 1]
        /\ Goto(self, "check")
        /\ UNCHANGED <<targets, store, journal, success, applied, lock, call,
                       dirty, outside>>

\* The write-ahead intent: next_target is on disk before the target changes.
MarkTarget(self) ==
    \E p \in Paths :
        /\ At(self, "mark")
        /\ IsFirst(p, left[self])
        /\ next' = [next EXCEPT ![tx[self]] = p]
        /\ Goto(self, "check")
        /\ UNCHANGED <<targets, store, journal, success, applied, lock, call,
                       dirty, outside>>

ChecksTarget(self, p) ==
    /\ At(self, "check")
    /\ IsFirst(p, left[self])

CheckRefuses(self) ==
    \E p \in Paths :
        /\ ChecksTarget(self, p)
        /\ file[p] \notin {old[tx[self]][p], new[tx[self]][p]}
        /\ Finish(self, "conflict")
        /\ UNCHANGED <<targets, store, log, dirty, outside>>

CheckAlreadyNew(self) ==
    \E p \in Paths :
        /\ ChecksTarget(self, p)
        /\ file[p] = new[tx[self]][p]
        /\ left' = [left EXCEPT ![self] = @ \ {p}]
        /\ Goto(self, "mark")
        /\ UNCHANGED <<targets, store, log, lock, cmd, own, tx, todo, outcome,
                       dirty, outside>>

\* Mutant of CheckReplace: whatever is not new is replaced, drift included.
CheckNothing(self) ==
    \E p \in Paths :
        /\ ChecksTarget(self, p)
        /\ file[p] # new[tx[self]][p]
        /\ Goto(self, "swap")
        /\ UNCHANGED <<targets, store, log, lock, call, dirty, outside>>

CheckReplace(self) ==
    \E p \in Paths :
        /\ ChecksTarget(self, p)
        /\ file[p] = old[tx[self]][p]
        /\ file[p] # new[tx[self]][p]
        /\ Goto(self, "swap")
        /\ UNCHANGED <<targets, store, log, lock, call, dirty, outside>>

\* os.replace moves the staged file onto the target: the staged file is gone.
\* The "replaced" record that follows changes nothing any code reads back.
SwapTarget(self) ==
    \E p \in Paths :
        /\ At(self, "swap")
        /\ IsFirst(p, left[self])
        /\ p \in staged[tx[self]]
        /\ file' = [file EXCEPT ![p] = new[tx[self]][p]]
        /\ staged' = [staged EXCEPT ![tx[self]] = @ \ {p}]
        /\ left' = [left EXCEPT ![self] = @ \ {p}]
        /\ Goto(self, "mark")
        /\ UNCHANGED <<dir, new, old, backup, log, lock, cmd, own, tx, todo,
                       outcome, dirty, outside>>

\* Mutant of MarkSuccess: the marker does not wait for the last target.
MarkEarly(self) ==
    /\ At(self, "mark")
    /\ success' = success \cup {tx[self]}
    /\ Goto(self, "success")
    /\ UNCHANGED <<targets, store, journal, next, applied, lock, call, dirty,
                   outside>>

MarkSuccess(self) ==
    /\ At(self, "mark")
    /\ left[self] = {}
    /\ success' = success \cup {tx[self]}
    /\ Goto(self, "success")
    /\ UNCHANGED <<targets, store, journal, next, applied, lock, call, dirty,
                   outside>>

JournalSuccess(self) ==
    /\ At(self, "success")
    /\ journal' = [journal EXCEPT ![tx[self]] = "success_marked"]
    /\ Goto(self, "event")
    /\ UNCHANGED <<targets, store, next, success, applied, lock, call, dirty,
                   outside>>

MarkApplied(self) ==
    /\ At(self, "event")
    /\ applied' = applied \cup {tx[self]}
    /\ Goto(self, "complete")
    /\ UNCHANGED <<targets, store, journal, next, success, lock, call, dirty,
                   outside>>

JournalCompleted(self) ==
    /\ At(self, "complete")
    /\ journal' = [journal EXCEPT ![tx[self]] = "completed"]
    /\ lock' = NoProc
    /\ Goto(self, "applied")
    /\ UNCHANGED <<targets, store, next, success, applied, call, dirty,
                   outside>>

-----------------------------------------------------------------------------
(* What the command does with an applied journal.                           *)

\* record_artifact binds the new catalog into the session ...
RecordArtifact(self) ==
    /\ At(self, "applied")
    /\ Finish(self, "done")
    /\ UNCHANGED <<targets, store, log, dirty, outside>>

\* ... or raises SessionError, and the handler calls journal.rollback().
RecordFails(self) ==
    /\ At(self, "applied")
    /\ Goto(self, "undo")
    /\ UNCHANGED <<targets, store, log, lock, call, dirty, outside>>

BeginRollback(self) ==
    /\ At(self, "undo")
    /\ Acquire(self)
    /\ Restorable(tx[self])
    /\ cmd' = [cmd EXCEPT ![self] = "rollback"]
    /\ left' = [left EXCEPT ![self] = Targets(tx[self])]
    /\ Goto(self, "restore")
    /\ UNCHANGED <<targets, store, log, own, tx, todo, outcome, outside>>

RollbackRefuses(self) ==
    /\ At(self, "undo")
    /\ lock = NoProc
    /\ ~Restorable(tx[self])
    /\ Finish(self, "conflict")
    /\ UNCHANGED <<targets, store, log, dirty, outside>>

-----------------------------------------------------------------------------
(* Failures, and the world outside.                                         *)

\* An exception or a kill at any point: the lock goes, the disk stays.
Fail(self) ==
    /\ ~At(self, "idle")
    /\ fails < MaxFails
    /\ fails' = fails + 1
    /\ Finish(self, "error")
    /\ UNCHANGED <<targets, store, log, dirty, edits>>

\* A person or another program writes or deletes a target at any time.
Edit ==
    /\ edits < MaxEdits
    /\ \E p \in Paths, v \in Contents \cup {Absent} :
          /\ v # file[p]
          /\ file' = [file EXCEPT ![p] = v]
          /\ dirty' = dirty \cup {p}
    /\ edits' = edits + 1
    /\ UNCHANGED <<store, log, lock, pc, call, fails>>

Recovery(self) ==
    \/ RecoverSkip(self) \/ RecoverForward(self) \/ RecoverFinalize(self)
    \/ RecoverBackward(self) \/ RecoverRefuses(self) \/ RecoverDone(self)

Restoring(self) ==
    \/ RestoreSkip(self) \/ RestoreChoose(self) \/ RestoreRefuses(self)
    \/ RestoreUnlink(self) \/ RestoreTruncate(self) \/ RestoreRewrite(self)
    \/ RollbackWritten(self)

Creating(self) ==
    \/ CreateExists(self) \/ MakeDirectory(self) \/ HashTarget(self)
    \/ BackupTarget(self) \/ BackupUnreadable(self)
    \/ WriteInitialJournal(self)

Applying(self) ==
    \/ MarkTarget(self) \/ CheckRefuses(self)
    \/ CheckAlreadyNew(self) \/ CheckReplace(self) \/ SwapTarget(self)
    \/ MarkSuccess(self) \/ JournalSuccess(self)
    \/ MarkApplied(self) \/ JournalCompleted(self)

\* A step of a process inside `with ProjectLock`.
LockedStep(self) ==
    Recovery(self) \/ Restoring(self) \/ Creating(self) \/ Applying(self)

\* A step of the command between two locked sections.
CommandStep(self) ==
    \/ BeginApply(self) \/ RecordArtifact(self) \/ RecordFails(self)
    \/ BeginRollback(self) \/ RollbackRefuses(self) \/ LockBusy(self)

Next ==
    \/ \E self \in Procs :
          \/ BeginRecover(self) \/ BeginCreate(self)
          \/ LockedStep(self) \/ CommandStep(self) \/ Fail(self)
    \/ Edit

Spec == Init /\ [][Next]_vars

\* Inside the lock a call runs to its end; nothing obliges a command to go on
\* from one locked section to the next, or anyone to run recover.
FairSpec == Spec /\ \A self \in Procs : WF_vars(LockedStep(self))

-----------------------------------------------------------------------------
(* Safety.                                                                  *)

\* Once a journal exists, what it would restore is what it recorded: every
\* backup is there and has the recorded old hash, if no editor ran while
\* create read each target twice (_create_unlocked).
BackupsMatch ==
    edits = 0 =>
        \A t \in Txs : journal[t] # "none" =>
            \A p \in Targets(t) : old[t][p] # Absent => backup[t][p] = old[t][p]

\* success.json is written only when every target holds its new bytes, save
\* one edited behind the library's back since apply took the lock (apply).
CommitsAllNew ==
    \A t \in success' \ success :
        \A p \in Targets(t) \ dirty : file[p] = new[t][p]

CommitPoint == [][CommitsAllNew]_vars

\* "rolled_back" is written only when every target holds its old bytes again,
\* save one edited since the lock was taken (_rollback_unlocked).
RollsAllBack ==
    \A t \in Txs : journal[t] # "rolled_back" /\ journal'[t] = "rolled_back" =>
        \A p \in Targets(t) \ dirty : file[p] = old[t][p]

RollbackRestores == [][RollsAllBack]_vars

\* The two words a later recovery relies on are true when they are written: the
\* success marker and "rolled_back" (apply, _rollback_unlocked).
MarkersTrue == CommitPoint /\ RollbackRestores

\* The library overwrites a target only with bytes of its own transaction and
\* only over bytes the record names: an edit made before the lock was taken is
\* never lost.  Torn is overwritten only by the restore that tore it, or as
\* the recorded old bytes.
OverwritesKnown ==
    \A p \in Paths \ dirty : file'[p] # file[p] /\ edits' = edits =>
        \E self \in Procs :
            /\ lock = self
            /\ p \in Targets(tx[self])
            /\ \/ file[p] \in {old[tx[self]][p], new[tx[self]][p]}
               \/ file[p] = Torn /\ At(self, "rewrite")

DriftPreserved == [][OverwritesKnown]_vars

\* A recovery pass leaves no directory it has passed half done: no journal, a
\* rolled back one, or a completed one with its applied event.
Settled(t) ==
    \/ journal[t] \in {"none", "rolled_back"}
    \/ journal[t] = "completed" /\ t \in applied

RecoverySettles ==
    \A self \in Procs :
        cmd[self] \in {"recover", "create"} /\ pc[self] \in Locked /\ tx[self] = 0 =>
            \A t \in dir \ todo[self] : Settled(t)

\* The replaced targets of a transaction in flight are the first ones, none
\* beyond next_target, whether apply stopped going forward or a rollback going
\* backward (the write-ahead intent of apply, the reverse loop of rollback).
Replaced(t, p) == file[p] = new[t][p] /\ old[t][p] # new[t][p]

ReplacedPrefix ==
    \A t \in Txs : journal[t] \notin {"none", "rolled_back", "completed"} =>
        \A p \in Targets(t) : Replaced(t, p) =>
            /\ p <= next[t]
            /\ \A q \in Targets(t) : q < p => file[q] = new[t][q]

\* Without an edit, no target of a transaction in flight ever holds bytes its
\* record does not name, except the one a restore has emptied.
PendingRecoverable ==
    edits = 0 =>
        \A t \in Txs : journal[t] \notin {"none", "rolled_back", "completed"} =>
            \A p \in Targets(t) :
                file[p] \in {old[t][p], new[t][p], Torn}

\* The commit point of a transaction: its marker is there and is valid.
Committed(t) == ValidSuccess(t) /\ journal[t] \notin {"none", "rolled_back"}

\* A transaction whose marker is valid is over the commit point: no failure and
\* no recovery takes it back, only journal.rollback() does (_recover_unlocked).
UndoneOnRequest ==
    \A t \in Txs : Committed(t) /\ ~Committed(t)' =>
        \E self \in Procs : lock = self /\ cmd[self] = "rollback"

CommittedStays == [][UndoneOnRequest]_vars

\* What stands between an interrupted transaction and its recovery: a target
\* edited outside it, or torn by a restore that was interrupted itself.
InTheWay == edits > 0 \/ \E p \in Paths : file[p] = Torn

\* "The target changed outside the transaction": nobody is told of a conflict
\* over the targets of the only transaction unless something is in the way.
ConflictExplained ==
    \A self \in Procs : outcome[self] = "conflict" => InTheWay

\* Whatever crashes have done to a batch, what is on disk can be put right: every
\* backup is the one recorded, the replaced targets are a prefix below
\* next_target, every target holds bytes its record names or the Torn ones of an
\* interrupted restore, and recovery finds a conflict only where one is (apply,
\* _rollback_unlocked).
CrashConsistent ==
    BackupsMatch /\ ReplacedPrefix /\ PendingRecoverable /\ ConflictExplained

-----------------------------------------------------------------------------
(* Refinement: what a reader who recovers first would find.                 *)

InFlight(t) == journal[t] \notin {"none", "rolled_back"} /\ ~Committed(t)

logicalStatus ==
    [t \in Txs |-> IF journal[t] = "none" THEN "none"
                   ELSE IF journal[t] = "rolled_back" THEN "closed"
                   ELSE IF Committed(t) THEN "committed" ELSE "open"]

logicalValue ==
    [p \in Paths |->
        IF \E t \in Txs : InFlight(t) /\ p \in Targets(t)
          THEN old[CHOOSE t \in Txs : InFlight(t) /\ p \in Targets(t)][p]
          ELSE file[p]]

journalled(t) == journal[t] # "none"

logicalBatch ==
    [t \in Txs |-> IF journalled(t) THEN new[t] ELSE [p \in Paths |-> Keep]]

logicalBefore ==
    [t \in Txs |-> IF journalled(t) THEN old[t] ELSE [p \in Paths |-> Absent]]

Atomic == INSTANCE AtomicBatch WITH
            value <- logicalValue, status <- logicalStatus,
            batch <- logicalBatch, before <- logicalBefore

\* Every behaviour of the journal is one of the atomic batch: no reader who
\* recovers first finds some targets of a batch new and others old.
AtomicSpec == Atomic!AbsSpec

-----------------------------------------------------------------------------
(* Liveness, under FairSpec.                                                *)

\* Every call that takes the project lock gives it back.
LockReturns == \A self \in Procs : lock = self ~> lock # self

\* With an operator who runs recover again and again, as "recovery_required"
\* asks, a transaction that was left in flight is settled in the end, unless
\* an edit or a torn restore stands in the way, which recovery reports.
OperatorSpec == FairSpec /\ \A self \in Procs : SF_vars(BeginRecover(self))

EventuallySettled == \A t \in Txs : ~Settled(t) ~> Settled(t) \/ InTheWay

\* Every call gives the project lock back and every interrupted transaction is
\* settled: nobody waits for a process that is gone (ProjectLock, recover).
Progress == LockReturns /\ EventuallySettled
=============================================================================
