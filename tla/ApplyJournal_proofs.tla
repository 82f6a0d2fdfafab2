------------------------- MODULE ApplyJournal_proofs -------------------------
(***************************************************************************)
(* Theorems about ApplyJournal for any number of processes, transactions,  *)
(* targets, edits and failures.                                            *)
(***************************************************************************)
EXTENDS ApplyJournal, TLAPS

(***************************************************************************)
(* The inductive invariant.  The lock makes the holder the only writer;    *)
(* what the holder knows of the targets it has visited, and of those it    *)
(* has still to visit, is then stable up to the edits in dirty.            *)
(***************************************************************************)

Recovering == {"recover", "finalize", "restore", "unlink", "truncate",
               "rewrite", "mkdir"}
RestoringPoints == {"restore", "unlink", "truncate", "rewrite"}
ApplyingPoints == {"mark", "check", "swap"}
WithTx == (Locked \cup Unlocked) \ {"idle", "recover", "mkdir"}

\* A process is inside `with ProjectLock` exactly when it holds the lock.
LockInv == \A self \in Procs : pc[self] \in Locked <=> lock = self

\* A process at a point that uses a journal object has one.
JobInv ==
    \A self \in Procs :
        /\ pc[self] \in WithTx <=> tx[self] \in Txs
        /\ pc[self] = "mkdir" => own[self] \in Txs
        /\ cmd[self] = "create" => own[self] \in Txs
        /\ pc[self] \in {"recover", "finalize"} => cmd[self] \in {"recover", "create"}
        /\ pc[self] \in RestoringPoints => cmd[self] # "none"
        /\ pc[self] \in RestoringPoints \cup ApplyingPoints \cup {"hash", "stage"} =>
              left[self] \subseteq Targets(tx[self])

\* A journal lies in a directory.
DirInv ==
    /\ \A t \in Txs : journal[t] # "none" => t \in dir
    /\ \A self \in Procs : pc[self] \in {"hash", "stage"} =>
          journal[tx[self]] = "none" /\ tx[self] \in dir
    /\ \A self \in Procs : pc[self] \in WithTx \ {"hash", "stage"} =>
          journal[tx[self]] # "none" /\ tx[self] \in dir
    /\ \A self \in Procs : todo[self] \subseteq dir

\* apply has put the new bytes on every target it has passed.
ApplyInv ==
    \A self \in Procs : pc[self] \in ApplyingPoints =>
        /\ \A p \in (Targets(tx[self]) \ left[self]) \ dirty :
              file[p] = new[tx[self]][p]
        /\ pc[self] = "swap" => \A p \in left[self] \ dirty :
              IsFirst(p, left[self]) => file[p] = old[tx[self]][p]

\* A rollback has put the old bytes on every target it has passed, and finds
\* old or new ones on those ahead.
RestoreInv ==
    \A self \in Procs : pc[self] \in RestoringPoints =>
        /\ \A p \in (Targets(tx[self]) \ left[self]) \ dirty :
              file[p] = old[tx[self]][p]
        /\ \A p \in left[self] \ dirty :
              \/ file[p] \in {old[tx[self]][p], new[tx[self]][p]}
              \/ pc[self] = "rewrite" /\ IsLast(p, left[self])
        /\ pc[self] \in {"unlink", "truncate"} => \A p \in left[self] \ dirty :
              IsLast(p, left[self]) => file[p] = new[tx[self]][p]
        /\ pc[self] = "unlink" => \A p \in left[self] :
              IsLast(p, left[self]) => old[tx[self]][p] = Absent
        /\ pc[self] = "rewrite" => \A p \in left[self] \ dirty :
              IsLast(p, left[self]) => file[p] = Torn

\* create has backed up every target it has passed.
CreateInv ==
    edits = 0 =>
        \A self \in Procs : pc[self] \in {"hash", "stage"} =>
            /\ \A p \in Targets(tx[self]) \ left[self] :
                  old[tx[self]][p] # Absent =>
                      backup[tx[self]][p] = old[tx[self]][p]
            /\ pc[self] = "stage" => \A p \in left[self] :
                  IsFirst(p, left[self]) => file[p] = old[tx[self]][p]

\* A recovery pass has settled every directory it has passed.
SettleInv ==
    \A self \in Procs : pc[self] \in Recovering /\ cmd[self] # "rollback" =>
        /\ \A t \in dir \ todo[self] : Settled(t)
        /\ pc[self] = "finalize" => tx[self] \in applied

IInv ==
    /\ TypeOK /\ LockInv /\ JobInv /\ DirInv /\ ApplyInv /\ RestoreInv
    /\ CreateInv /\ BackupsMatch /\ SettleInv

(* Every step keeps every variable in its type. *)
LEMMA TypeStep ==
    ASSUME TypeOK, JobInv, NumberAssumption, BatchAssumption, [Next]_vars
    PROVE  TypeOK'
<1> USE DEF TypeOK, targets, store, log, call, outside, At, Goto, Value,
          JournalStates, Locked, Unlocked, IsFirst, IsLast
<1>1. CASE UNCHANGED vars
  BY <1>1 DEF vars, targets, store, log, call, outside
<1>2. CASE Edit
  BY <1>2 DEF Edit, store, log, call
<1>3. ASSUME NEW self \in Procs, BeginRecover(self)  PROVE TypeOK'
  BY <1>3 DEF BeginRecover, Begin, Acquire
<1>4. ASSUME NEW self \in Procs, BeginCreate(self)  PROVE TypeOK'
  BY <1>4 DEF BeginCreate, Begin, Acquire
<1>5. ASSUME NEW self \in Procs, RecoverSkip(self)  PROVE TypeOK'
  BY <1>5 DEF RecoverSkip, Examines
<1>6. ASSUME NEW self \in Procs, RecoverForward(self)  PROVE TypeOK'
  BY <1>6 DEF RecoverForward, Examines
<1>7. ASSUME NEW self \in Procs, RecoverFinalize(self)  PROVE TypeOK'
  <2>1. tx[self] \in Txs
    BY <1>7 DEF RecoverFinalize, JobInv, WithTx
  <2> QED
    BY <1>7, <2>1 DEF RecoverFinalize
<1>8. ASSUME NEW self \in Procs, RecoverBackward(self)  PROVE TypeOK'
  BY <1>8 DEF RecoverBackward, NeedsRollback, Examines, Targets
<1>9. ASSUME NEW self \in Procs, RecoverRefuses(self)  PROVE TypeOK'
  BY <1>9 DEF RecoverRefuses, Finish, NeedsRollback, Examines
<1>10. ASSUME NEW self \in Procs, RecoverDone(self)  PROVE TypeOK'
  <2>1. CASE cmd[self] = "recover"
    BY <1>10, <2>1 DEF RecoverDone, Finish
  <2>2. CASE cmd[self] # "recover"
    BY <1>10, <2>2 DEF RecoverDone
  <2> QED  BY <2>1, <2>2
<1>11. ASSUME NEW self \in Procs, RestoreSkip(self)  PROVE TypeOK'
  BY <1>11 DEF RestoreSkip, RestoresTarget
<1>12. ASSUME NEW self \in Procs, RestoreChoose(self)  PROVE TypeOK'
  BY <1>12 DEF RestoreChoose, RestoresTarget
<1>13. ASSUME NEW self \in Procs, RestoreRefuses(self)  PROVE TypeOK'
  BY <1>13 DEF RestoreRefuses, Finish, RestoresTarget
<1>14. ASSUME NEW self \in Procs, RestoreUnlink(self)  PROVE TypeOK'
  BY <1>14 DEF RestoreUnlink
<1>15. ASSUME NEW self \in Procs, RestoreTruncate(self)  PROVE TypeOK'
  BY <1>15 DEF RestoreTruncate
<1>16. ASSUME NEW self \in Procs, RestoreRewrite(self)  PROVE TypeOK'
  <2>1. tx[self] \in Txs
    BY <1>16 DEF RestoreRewrite, JobInv, WithTx
  <2>2. old[tx[self]] \in [Paths -> Value]
    BY <2>1
  <2>3. file' \in [Paths -> Value]
    BY <1>16, <2>2 DEF RestoreRewrite
  <2> QED
    BY <1>16, <2>3 DEF RestoreRewrite
<1>17. ASSUME NEW self \in Procs, RollbackWritten(self)  PROVE TypeOK'
  <2>1. tx[self] \in Txs
    BY <1>17 DEF RollbackWritten, JobInv, WithTx
  <2>2. journal' \in [Txs -> JournalStates]
    BY <1>17, <2>1 DEF RollbackWritten
  <2>3. CASE cmd[self] = "rollback"
    BY <1>17, <2>2, <2>3 DEF RollbackWritten, Finish
  <2>4. CASE cmd[self] # "rollback"
    BY <1>17, <2>1, <2>2, <2>4 DEF RollbackWritten
  <2> QED  BY <2>3, <2>4
<1>18. ASSUME NEW self \in Procs, CreateExists(self)  PROVE TypeOK'
  BY <1>18 DEF CreateExists, Finish
<1>19. ASSUME NEW self \in Procs, MakeDirectory(self)  PROVE TypeOK'
  <2>1. own[self] \in Txs
    BY <1>19 DEF MakeDirectory, JobInv
  <2>2. /\ new' \in [Txs -> [Paths -> Contents \cup {Keep}]]
        /\ left' \in [Procs -> SUBSET Paths]
    BY <1>19, <2>1 DEF MakeDirectory
  <2> QED
    BY <1>19, <2>1, <2>2 DEF MakeDirectory
<1>20. ASSUME NEW self \in Procs, HashTarget(self)  PROVE TypeOK'
  <2>1. tx[self] \in Txs
    BY <1>20 DEF HashTarget, JobInv, WithTx
  <2>2. PICK p \in Paths : HashTarget(self)!(p)
    BY <1>20 DEF HashTarget
  <2>3. old' \in [Txs -> [Paths -> Value]]
    BY <2>1, <2>2
  <2>4. staged' \in [Txs -> SUBSET Paths]
    BY <2>1, <2>2
  <2> QED
    BY <2>2, <2>3, <2>4
<1>21. ASSUME NEW self \in Procs, BackupTarget(self)  PROVE TypeOK'
  <2>1. tx[self] \in Txs
    BY <1>21 DEF BackupTarget, JobInv, WithTx
  <2>2. PICK p \in Paths : BackupTarget(self)!(p)
    BY <1>21 DEF BackupTarget
  <2>3. backup' \in [Txs -> [Paths -> Value]]
    BY <2>1, <2>2
  <2> QED
    BY <2>2, <2>3
<1>22. ASSUME NEW self \in Procs, BackupUnreadable(self)  PROVE TypeOK'
  BY <1>22 DEF BackupUnreadable, Finish
<1>23. ASSUME NEW self \in Procs, WriteInitialJournal(self)  PROVE TypeOK'
  <2>1. tx[self] \in Txs
    BY <1>23 DEF WriteInitialJournal, JobInv, WithTx
  <2> QED
    BY <1>23, <2>1 DEF WriteInitialJournal
<1>24. ASSUME NEW self \in Procs, BeginApply(self)  PROVE TypeOK'
  <2>1. tx[self] \in Txs
    BY <1>24 DEF BeginApply, JobInv, WithTx
  <2> QED
    BY <1>24, <2>1 DEF BeginApply, Acquire, Targets
<1>25. ASSUME NEW self \in Procs, MarkTarget(self)  PROVE TypeOK'
  <2>1. tx[self] \in Txs
    BY <1>25 DEF MarkTarget, JobInv, WithTx
  <2> QED
    BY <1>25, <2>1 DEF MarkTarget
<1>26. ASSUME NEW self \in Procs, CheckRefuses(self)  PROVE TypeOK'
  BY <1>26 DEF CheckRefuses, Finish, ChecksTarget
<1>27. ASSUME NEW self \in Procs, CheckAlreadyNew(self)  PROVE TypeOK'
  BY <1>27 DEF CheckAlreadyNew, ChecksTarget
<1>28. ASSUME NEW self \in Procs, CheckReplace(self)  PROVE TypeOK'
  BY <1>28 DEF CheckReplace, ChecksTarget
<1>29. ASSUME NEW self \in Procs, SwapTarget(self)  PROVE TypeOK'
  <2>1. tx[self] \in Txs
    BY <1>29 DEF SwapTarget, JobInv, WithTx
  <2>2. PICK p \in Paths : SwapTarget(self)!(p)
    BY <1>29 DEF SwapTarget
  <2>3. p \in Targets(tx[self])
    BY <2>2 DEF JobInv, ApplyingPoints
  <2>4. new[tx[self]] \in [Paths -> Contents \cup {Keep}]
    BY <2>1
  <2>5. new[tx[self]][p] \in Value
    BY <2>3, <2>4 DEF Targets
  <2> QED
    BY <2>1, <2>2, <2>5
<1>30. ASSUME NEW self \in Procs, MarkSuccess(self)  PROVE TypeOK'
  <2>1. tx[self] \in Txs
    BY <1>30 DEF MarkSuccess, JobInv, WithTx
  <2> QED
    BY <1>30, <2>1 DEF MarkSuccess
<1>31. ASSUME NEW self \in Procs, JournalSuccess(self)  PROVE TypeOK'
  <2>1. tx[self] \in Txs
    BY <1>31 DEF JournalSuccess, JobInv, WithTx
  <2> QED
    BY <1>31, <2>1 DEF JournalSuccess
<1>32. ASSUME NEW self \in Procs, MarkApplied(self)  PROVE TypeOK'
  <2>1. tx[self] \in Txs
    BY <1>32 DEF MarkApplied, JobInv, WithTx
  <2> QED
    BY <1>32, <2>1 DEF MarkApplied
<1>33. ASSUME NEW self \in Procs, JournalCompleted(self)  PROVE TypeOK'
  <2>1. tx[self] \in Txs
    BY <1>33 DEF JournalCompleted, JobInv, WithTx
  <2> QED
    BY <1>33, <2>1 DEF JournalCompleted
<1>34. ASSUME NEW self \in Procs, RecordArtifact(self)  PROVE TypeOK'
  BY <1>34 DEF RecordArtifact, Finish
<1>35. ASSUME NEW self \in Procs, RecordFails(self)  PROVE TypeOK'
  BY <1>35 DEF RecordFails
<1>36. ASSUME NEW self \in Procs, BeginRollback(self)  PROVE TypeOK'
  <2>1. tx[self] \in Txs
    BY <1>36 DEF BeginRollback, JobInv, WithTx
  <2> QED
    BY <1>36, <2>1 DEF BeginRollback, Acquire, Targets
<1>37. ASSUME NEW self \in Procs, RollbackRefuses(self)  PROVE TypeOK'
  BY <1>37 DEF RollbackRefuses, Finish
<1>38. ASSUME NEW self \in Procs, LockBusy(self)  PROVE TypeOK'
  BY <1>38 DEF LockBusy, Finish
<1>39. ASSUME NEW self \in Procs, Fail(self)  PROVE TypeOK'
  BY <1>39 DEF Fail, Finish
<1> QED
    BY <1>1, <1>2, <1>3, <1>4, <1>5, <1>6, <1>7, <1>8, <1>9, <1>10, <1>11,
     <1>12, <1>13, <1>14, <1>15, <1>16, <1>17, <1>18, <1>19, <1>20, <1>21,
     <1>22, <1>23, <1>24, <1>25, <1>26, <1>27, <1>28, <1>29, <1>30, <1>31,
     <1>32, <1>33, <1>34, <1>35, <1>36, <1>37, <1>38, <1>39
     DEF Next, LockedStep, CommandStep, Recovery, Restoring, Creating,
         Applying

(* Every step keeps the lock with the one process inside it: Acquire needs it
   free, and every way out of the locked code (Finish) gives it back. *)
LEMMA LockStep ==
    ASSUME TypeOK, LockInv, JobInv, [Next]_vars
    PROVE  LockInv'
<1> USE SentinelAssumption DEF TypeOK, LockInv, targets, store, log, call,
          outside, At, Goto, Locked, Unlocked
<1>1. CASE UNCHANGED vars
  BY <1>1 DEF vars, targets, store, log, call, outside
<1>2. CASE Edit
  BY <1>2 DEF Edit, store, log, call
<1>3. ASSUME NEW self \in Procs, BeginRecover(self)  PROVE LockInv'
  BY <1>3 DEF BeginRecover, Begin, Acquire
<1>4. ASSUME NEW self \in Procs, BeginCreate(self)  PROVE LockInv'
  BY <1>4 DEF BeginCreate, Begin, Acquire
<1>5. ASSUME NEW self \in Procs, RecoverSkip(self)  PROVE LockInv'
  BY <1>5 DEF RecoverSkip, Examines
<1>6. ASSUME NEW self \in Procs, RecoverForward(self)  PROVE LockInv'
  BY <1>6 DEF RecoverForward, Examines
<1>7. ASSUME NEW self \in Procs, RecoverFinalize(self)  PROVE LockInv'
  BY <1>7 DEF RecoverFinalize
<1>8. ASSUME NEW self \in Procs, RecoverBackward(self)  PROVE LockInv'
  BY <1>8 DEF RecoverBackward, NeedsRollback, Examines
<1>9. ASSUME NEW self \in Procs, RecoverRefuses(self)  PROVE LockInv'
  BY <1>9 DEF RecoverRefuses, Finish, NeedsRollback, Examines
<1>10. ASSUME NEW self \in Procs, RecoverDone(self)  PROVE LockInv'
  BY <1>10 DEF RecoverDone, Finish
<1>11. ASSUME NEW self \in Procs, RestoreSkip(self)  PROVE LockInv'
  BY <1>11 DEF RestoreSkip, RestoresTarget
<1>12. ASSUME NEW self \in Procs, RestoreChoose(self)  PROVE LockInv'
  BY <1>12 DEF RestoreChoose, RestoresTarget
<1>13. ASSUME NEW self \in Procs, RestoreRefuses(self)  PROVE LockInv'
  BY <1>13 DEF RestoreRefuses, Finish, RestoresTarget
<1>14. ASSUME NEW self \in Procs, RestoreUnlink(self)  PROVE LockInv'
  BY <1>14 DEF RestoreUnlink
<1>15. ASSUME NEW self \in Procs, RestoreTruncate(self)  PROVE LockInv'
  BY <1>15 DEF RestoreTruncate
<1>16. ASSUME NEW self \in Procs, RestoreRewrite(self)  PROVE LockInv'
  BY <1>16 DEF RestoreRewrite
<1>17. ASSUME NEW self \in Procs, RollbackWritten(self)  PROVE LockInv'
  BY <1>17 DEF RollbackWritten, Finish
<1>18. ASSUME NEW self \in Procs, CreateExists(self)  PROVE LockInv'
  BY <1>18 DEF CreateExists, Finish
<1>19. ASSUME NEW self \in Procs, MakeDirectory(self)  PROVE LockInv'
  BY <1>19 DEF MakeDirectory
<1>20. ASSUME NEW self \in Procs, HashTarget(self)  PROVE LockInv'
  BY <1>20 DEF HashTarget
<1>21. ASSUME NEW self \in Procs, BackupTarget(self)  PROVE LockInv'
  BY <1>21 DEF BackupTarget
<1>22. ASSUME NEW self \in Procs, BackupUnreadable(self)  PROVE LockInv'
  BY <1>22 DEF BackupUnreadable, Finish
<1>23. ASSUME NEW self \in Procs, WriteInitialJournal(self)  PROVE LockInv'
  BY <1>23 DEF WriteInitialJournal
<1>24. ASSUME NEW self \in Procs, BeginApply(self)  PROVE LockInv'
  BY <1>24 DEF BeginApply, Acquire
<1>25. ASSUME NEW self \in Procs, MarkTarget(self)  PROVE LockInv'
  BY <1>25 DEF MarkTarget
<1>26. ASSUME NEW self \in Procs, CheckRefuses(self)  PROVE LockInv'
  BY <1>26 DEF CheckRefuses, Finish, ChecksTarget
<1>27. ASSUME NEW self \in Procs, CheckAlreadyNew(self)  PROVE LockInv'
  BY <1>27 DEF CheckAlreadyNew, ChecksTarget
<1>28. ASSUME NEW self \in Procs, CheckReplace(self)  PROVE LockInv'
  BY <1>28 DEF CheckReplace, ChecksTarget
<1>29. ASSUME NEW self \in Procs, SwapTarget(self)  PROVE LockInv'
  BY <1>29 DEF SwapTarget
<1>30. ASSUME NEW self \in Procs, MarkSuccess(self)  PROVE LockInv'
  BY <1>30 DEF MarkSuccess
<1>31. ASSUME NEW self \in Procs, JournalSuccess(self)  PROVE LockInv'
  BY <1>31 DEF JournalSuccess
<1>32. ASSUME NEW self \in Procs, MarkApplied(self)  PROVE LockInv'
  BY <1>32 DEF MarkApplied
<1>33. ASSUME NEW self \in Procs, JournalCompleted(self)  PROVE LockInv'
  BY <1>33 DEF JournalCompleted
<1>34. ASSUME NEW self \in Procs, RecordArtifact(self)  PROVE LockInv'
  BY <1>34 DEF RecordArtifact, Finish
<1>35. ASSUME NEW self \in Procs, RecordFails(self)  PROVE LockInv'
  BY <1>35 DEF RecordFails
<1>36. ASSUME NEW self \in Procs, BeginRollback(self)  PROVE LockInv'
  BY <1>36 DEF BeginRollback, Acquire
<1>37. ASSUME NEW self \in Procs, RollbackRefuses(self)  PROVE LockInv'
  BY <1>37 DEF RollbackRefuses, Finish
<1>38. ASSUME NEW self \in Procs, LockBusy(self)  PROVE LockInv'
  BY <1>38 DEF LockBusy, Finish
<1>39. ASSUME NEW self \in Procs, Fail(self)  PROVE LockInv'
  BY <1>39 DEF Fail, Finish
<1> QED
    BY <1>1, <1>2, <1>3, <1>4, <1>5, <1>6, <1>7, <1>8, <1>9, <1>10, <1>11,
     <1>12, <1>13, <1>14, <1>15, <1>16, <1>17, <1>18, <1>19, <1>20, <1>21,
     <1>22, <1>23, <1>24, <1>25, <1>26, <1>27, <1>28, <1>29, <1>30, <1>31,
     <1>32, <1>33, <1>34, <1>35, <1>36, <1>37, <1>38, <1>39
     DEF Next, LockedStep, CommandStep, Recovery, Restoring, Creating,
         Applying

(* Every step keeps the journal objects of the processes well formed. *)
LEMMA JobStep ==
    ASSUME TypeOK, LockInv, JobInv, NumberAssumption, [Next]_vars
    PROVE  JobInv'
<1> USE DEF TypeOK, LockInv, JobInv, targets, store, log, call, outside, At,
          Goto, Locked, Unlocked, WithTx, RestoringPoints, ApplyingPoints,
          Targets
<1>1. CASE UNCHANGED vars
  BY <1>1 DEF vars, targets, store, log, call, outside
<1>2. CASE Edit
  BY <1>2 DEF Edit, store, log, call
<1>3. ASSUME NEW self \in Procs, BeginRecover(self)  PROVE JobInv'
  BY <1>3 DEF BeginRecover, Begin, Acquire
<1>4. ASSUME NEW self \in Procs, BeginCreate(self)  PROVE JobInv'
  BY <1>4 DEF BeginCreate, Begin, Acquire
<1>5. ASSUME NEW self \in Procs, RecoverSkip(self)  PROVE JobInv'
  BY <1>5 DEF RecoverSkip, Examines
<1>6. ASSUME NEW self \in Procs, RecoverForward(self)  PROVE JobInv'
  BY <1>6 DEF RecoverForward, Examines
<1>7. ASSUME NEW self \in Procs, RecoverFinalize(self)  PROVE JobInv'
  BY <1>7 DEF RecoverFinalize
<1>8. ASSUME NEW self \in Procs, RecoverBackward(self)  PROVE JobInv'
  BY <1>8 DEF RecoverBackward, NeedsRollback, Examines
<1>9. ASSUME NEW self \in Procs, RecoverRefuses(self)  PROVE JobInv'
  BY <1>9 DEF RecoverRefuses, Finish, NeedsRollback, Examines
<1>10. ASSUME NEW self \in Procs, RecoverDone(self)  PROVE JobInv'
  BY <1>10 DEF RecoverDone, Finish
<1>11. ASSUME NEW self \in Procs, RestoreSkip(self)  PROVE JobInv'
  BY <1>11 DEF RestoreSkip, RestoresTarget
<1>12. ASSUME NEW self \in Procs, RestoreChoose(self)  PROVE JobInv'
  BY <1>12 DEF RestoreChoose, RestoresTarget
<1>13. ASSUME NEW self \in Procs, RestoreRefuses(self)  PROVE JobInv'
  BY <1>13 DEF RestoreRefuses, Finish, RestoresTarget
<1>14. ASSUME NEW self \in Procs, RestoreUnlink(self)  PROVE JobInv'
  BY <1>14 DEF RestoreUnlink
<1>15. ASSUME NEW self \in Procs, RestoreTruncate(self)  PROVE JobInv'
  BY <1>15 DEF RestoreTruncate
<1>16. ASSUME NEW self \in Procs, RestoreRewrite(self)  PROVE JobInv'
  BY <1>16 DEF RestoreRewrite
<1>17. ASSUME NEW self \in Procs, RollbackWritten(self)  PROVE JobInv'
  BY <1>17 DEF RollbackWritten, Finish
<1>18. ASSUME NEW self \in Procs, CreateExists(self)  PROVE JobInv'
  BY <1>18 DEF CreateExists, Finish
<1>19. ASSUME NEW self \in Procs, MakeDirectory(self)  PROVE JobInv'
  BY <1>19 DEF MakeDirectory
<1>20. ASSUME NEW self \in Procs, HashTarget(self)  PROVE JobInv'
  BY <1>20 DEF HashTarget
<1>21. ASSUME NEW self \in Procs, BackupTarget(self)  PROVE JobInv'
  BY <1>21 DEF BackupTarget
<1>22. ASSUME NEW self \in Procs, BackupUnreadable(self)  PROVE JobInv'
  BY <1>22 DEF BackupUnreadable, Finish
<1>23. ASSUME NEW self \in Procs, WriteInitialJournal(self)  PROVE JobInv'
  BY <1>23 DEF WriteInitialJournal
<1>24. ASSUME NEW self \in Procs, BeginApply(self)  PROVE JobInv'
  BY <1>24 DEF BeginApply, Acquire
<1>25. ASSUME NEW self \in Procs, MarkTarget(self)  PROVE JobInv'
  BY <1>25 DEF MarkTarget
<1>26. ASSUME NEW self \in Procs, CheckRefuses(self)  PROVE JobInv'
  BY <1>26 DEF CheckRefuses, Finish, ChecksTarget
<1>27. ASSUME NEW self \in Procs, CheckAlreadyNew(self)  PROVE JobInv'
  BY <1>27 DEF CheckAlreadyNew, ChecksTarget
<1>28. ASSUME NEW self \in Procs, CheckReplace(self)  PROVE JobInv'
  BY <1>28 DEF CheckReplace, ChecksTarget
<1>29. ASSUME NEW self \in Procs, SwapTarget(self)  PROVE JobInv'
  BY <1>29 DEF SwapTarget
<1>30. ASSUME NEW self \in Procs, MarkSuccess(self)  PROVE JobInv'
  BY <1>30 DEF MarkSuccess
<1>31. ASSUME NEW self \in Procs, JournalSuccess(self)  PROVE JobInv'
  BY <1>31 DEF JournalSuccess
<1>32. ASSUME NEW self \in Procs, MarkApplied(self)  PROVE JobInv'
  BY <1>32 DEF MarkApplied
<1>33. ASSUME NEW self \in Procs, JournalCompleted(self)  PROVE JobInv'
  BY <1>33 DEF JournalCompleted
<1>34. ASSUME NEW self \in Procs, RecordArtifact(self)  PROVE JobInv'
  BY <1>34 DEF RecordArtifact, Finish
<1>35. ASSUME NEW self \in Procs, RecordFails(self)  PROVE JobInv'
  BY <1>35 DEF RecordFails
<1>36. ASSUME NEW self \in Procs, BeginRollback(self)  PROVE JobInv'
  BY <1>36 DEF BeginRollback, Acquire
<1>37. ASSUME NEW self \in Procs, RollbackRefuses(self)  PROVE JobInv'
  BY <1>37 DEF RollbackRefuses, Finish
<1>38. ASSUME NEW self \in Procs, LockBusy(self)  PROVE JobInv'
  BY <1>38 DEF LockBusy, Finish
<1>39. ASSUME NEW self \in Procs, Fail(self)  PROVE JobInv'
  BY <1>39 DEF Fail, Finish
<1> QED
    BY <1>1, <1>2, <1>3, <1>4, <1>5, <1>6, <1>7, <1>8, <1>9, <1>10, <1>11,
     <1>12, <1>13, <1>14, <1>15, <1>16, <1>17, <1>18, <1>19, <1>20, <1>21,
     <1>22, <1>23, <1>24, <1>25, <1>26, <1>27, <1>28, <1>29, <1>30, <1>31,
     <1>32, <1>33, <1>34, <1>35, <1>36, <1>37, <1>38, <1>39
     DEF Next, LockedStep, CommandStep, Recovery, Restoring, Creating,
         Applying

(* Every step keeps journals inside their directories, and create never
   reuses a directory that has one. *)
LEMMA DirStep ==
    ASSUME TypeOK, LockInv, JobInv, DirInv, NumberAssumption, [Next]_vars
    PROVE  DirInv'
<1> USE SentinelAssumption DEF TypeOK, LockInv, JobInv, targets, store, log,
          call, outside, At, Goto, Locked, Unlocked, WithTx, RestoringPoints,
          ApplyingPoints, Targets, DirInv
<1>1. CASE UNCHANGED vars
  BY <1>1 DEF vars, targets, store, log, call, outside
<1>2. CASE Edit
  BY <1>2 DEF Edit, store, log, call
<1>3. ASSUME NEW self \in Procs, BeginRecover(self)  PROVE DirInv'
  BY <1>3 DEF BeginRecover, Begin, Acquire
<1>4. ASSUME NEW self \in Procs, BeginCreate(self)  PROVE DirInv'
  BY <1>4 DEF BeginCreate, Begin, Acquire
<1>5. ASSUME NEW self \in Procs, RecoverSkip(self)  PROVE DirInv'
  BY <1>5 DEF RecoverSkip, Examines
<1>6. ASSUME NEW self \in Procs, RecoverForward(self)  PROVE DirInv'
  BY <1>6 DEF RecoverForward, Examines
<1>7. ASSUME NEW self \in Procs, RecoverFinalize(self)  PROVE DirInv'
  BY <1>7 DEF RecoverFinalize
<1>8. ASSUME NEW self \in Procs, RecoverBackward(self)  PROVE DirInv'
  BY <1>8 DEF RecoverBackward, NeedsRollback, Examines
<1>9. ASSUME NEW self \in Procs, RecoverRefuses(self)  PROVE DirInv'
  BY <1>9 DEF RecoverRefuses, Finish, NeedsRollback, Examines
<1>10. ASSUME NEW self \in Procs, RecoverDone(self)  PROVE DirInv'
  BY <1>10 DEF RecoverDone, Finish
<1>11. ASSUME NEW self \in Procs, RestoreSkip(self)  PROVE DirInv'
  BY <1>11 DEF RestoreSkip, RestoresTarget
<1>12. ASSUME NEW self \in Procs, RestoreChoose(self)  PROVE DirInv'
  BY <1>12 DEF RestoreChoose, RestoresTarget
<1>13. ASSUME NEW self \in Procs, RestoreRefuses(self)  PROVE DirInv'
  BY <1>13 DEF RestoreRefuses, Finish, RestoresTarget
<1>14. ASSUME NEW self \in Procs, RestoreUnlink(self)  PROVE DirInv'
  BY <1>14 DEF RestoreUnlink
<1>15. ASSUME NEW self \in Procs, RestoreTruncate(self)  PROVE DirInv'
  BY <1>15 DEF RestoreTruncate
<1>16. ASSUME NEW self \in Procs, RestoreRewrite(self)  PROVE DirInv'
  BY <1>16 DEF RestoreRewrite
<1>17. ASSUME NEW self \in Procs, RollbackWritten(self)  PROVE DirInv'
  <2>1. CASE cmd[self] = "rollback"
    BY <1>17, <2>1 DEF RollbackWritten, Finish
  <2>2. CASE cmd[self] # "rollback"
    BY <1>17, <2>2 DEF RollbackWritten
  <2> QED  BY <2>1, <2>2
<1>18. ASSUME NEW self \in Procs, CreateExists(self)  PROVE DirInv'
  BY <1>18 DEF CreateExists, Finish
<1>19. ASSUME NEW self \in Procs, MakeDirectory(self)  PROVE DirInv'
  <2>1. own[self] \in Txs /\ journal[own[self]] = "none"
    BY <1>19 DEF MakeDirectory
  <2>2. \A q \in Procs : q # self => pc[q] \notin Locked
    BY <1>19 DEF MakeDirectory
  <2> QED
    BY <1>19, <2>1, <2>2 DEF MakeDirectory
<1>20. ASSUME NEW self \in Procs, HashTarget(self)  PROVE DirInv'
  BY <1>20 DEF HashTarget
<1>21. ASSUME NEW self \in Procs, BackupTarget(self)  PROVE DirInv'
  BY <1>21 DEF BackupTarget
<1>22. ASSUME NEW self \in Procs, BackupUnreadable(self)  PROVE DirInv'
  BY <1>22 DEF BackupUnreadable, Finish
<1>23. ASSUME NEW self \in Procs, WriteInitialJournal(self)  PROVE DirInv'
  BY <1>23 DEF WriteInitialJournal
<1>24. ASSUME NEW self \in Procs, BeginApply(self)  PROVE DirInv'
  BY <1>24 DEF BeginApply, Acquire
<1>25. ASSUME NEW self \in Procs, MarkTarget(self)  PROVE DirInv'
  BY <1>25 DEF MarkTarget
<1>26. ASSUME NEW self \in Procs, CheckRefuses(self)  PROVE DirInv'
  BY <1>26 DEF CheckRefuses, Finish, ChecksTarget
<1>27. ASSUME NEW self \in Procs, CheckAlreadyNew(self)  PROVE DirInv'
  BY <1>27 DEF CheckAlreadyNew, ChecksTarget
<1>28. ASSUME NEW self \in Procs, CheckReplace(self)  PROVE DirInv'
  BY <1>28 DEF CheckReplace, ChecksTarget
<1>29. ASSUME NEW self \in Procs, SwapTarget(self)  PROVE DirInv'
  BY <1>29 DEF SwapTarget
<1>30. ASSUME NEW self \in Procs, MarkSuccess(self)  PROVE DirInv'
  BY <1>30 DEF MarkSuccess
<1>31. ASSUME NEW self \in Procs, JournalSuccess(self)  PROVE DirInv'
  BY <1>31 DEF JournalSuccess
<1>32. ASSUME NEW self \in Procs, MarkApplied(self)  PROVE DirInv'
  BY <1>32 DEF MarkApplied
<1>33. ASSUME NEW self \in Procs, JournalCompleted(self)  PROVE DirInv'
  BY <1>33 DEF JournalCompleted
<1>34. ASSUME NEW self \in Procs, RecordArtifact(self)  PROVE DirInv'
  BY <1>34 DEF RecordArtifact, Finish
<1>35. ASSUME NEW self \in Procs, RecordFails(self)  PROVE DirInv'
  BY <1>35 DEF RecordFails
<1>36. ASSUME NEW self \in Procs, BeginRollback(self)  PROVE DirInv'
  BY <1>36 DEF BeginRollback, Acquire
<1>37. ASSUME NEW self \in Procs, RollbackRefuses(self)  PROVE DirInv'
  BY <1>37 DEF RollbackRefuses, Finish
<1>38. ASSUME NEW self \in Procs, LockBusy(self)  PROVE DirInv'
  BY <1>38 DEF LockBusy, Finish
<1>39. ASSUME NEW self \in Procs, Fail(self)  PROVE DirInv'
  BY <1>39 DEF Fail, Finish
<1> QED
    BY <1>1, <1>2, <1>3, <1>4, <1>5, <1>6, <1>7, <1>8, <1>9, <1>10, <1>11,
     <1>12, <1>13, <1>14, <1>15, <1>16, <1>17, <1>18, <1>19, <1>20, <1>21,
     <1>22, <1>23, <1>24, <1>25, <1>26, <1>27, <1>28, <1>29, <1>30, <1>31,
     <1>32, <1>33, <1>34, <1>35, <1>36, <1>37, <1>38, <1>39
     DEF Next, LockedStep, CommandStep, Recovery, Restoring, Creating,
         Applying

(* No step takes away the new bytes from a target apply has passed, except an
   edit, which dirty remembers. *)
LEMMA ApplyStep ==
    ASSUME TypeOK, LockInv, JobInv, ApplyInv, NumberAssumption, [Next]_vars
    PROVE  ApplyInv'
<1> USE SentinelAssumption DEF TypeOK, LockInv, JobInv, targets, store, log,
          call, outside, At, Goto, Locked, Unlocked, WithTx, RestoringPoints,
          ApplyingPoints, Targets, ApplyInv, IsFirst
<1>1. CASE UNCHANGED vars
  BY <1>1 DEF vars, targets, store, log, call, outside
<1>2. CASE Edit
  BY <1>2 DEF Edit, store, log, call
<1>3. ASSUME NEW self \in Procs, BeginRecover(self)  PROVE ApplyInv'
  BY <1>3 DEF BeginRecover, Begin, Acquire
<1>4. ASSUME NEW self \in Procs, BeginCreate(self)  PROVE ApplyInv'
  BY <1>4 DEF BeginCreate, Begin, Acquire
<1>5. ASSUME NEW self \in Procs, RecoverSkip(self)  PROVE ApplyInv'
  BY <1>5 DEF RecoverSkip, Examines
<1>6. ASSUME NEW self \in Procs, RecoverForward(self)  PROVE ApplyInv'
  BY <1>6 DEF RecoverForward, Examines
<1>7. ASSUME NEW self \in Procs, RecoverFinalize(self)  PROVE ApplyInv'
  BY <1>7 DEF RecoverFinalize
<1>8. ASSUME NEW self \in Procs, RecoverBackward(self)  PROVE ApplyInv'
  BY <1>8 DEF RecoverBackward, NeedsRollback, Examines
<1>9. ASSUME NEW self \in Procs, RecoverRefuses(self)  PROVE ApplyInv'
  BY <1>9 DEF RecoverRefuses, Finish, NeedsRollback, Examines
<1>10. ASSUME NEW self \in Procs, RecoverDone(self)  PROVE ApplyInv'
  BY <1>10 DEF RecoverDone, Finish
<1>11. ASSUME NEW self \in Procs, RestoreSkip(self)  PROVE ApplyInv'
  BY <1>11 DEF RestoreSkip, RestoresTarget
<1>12. ASSUME NEW self \in Procs, RestoreChoose(self)  PROVE ApplyInv'
  BY <1>12 DEF RestoreChoose, RestoresTarget
<1>13. ASSUME NEW self \in Procs, RestoreRefuses(self)  PROVE ApplyInv'
  BY <1>13 DEF RestoreRefuses, Finish, RestoresTarget
<1>14. ASSUME NEW self \in Procs, RestoreUnlink(self)  PROVE ApplyInv'
  BY <1>14 DEF RestoreUnlink
<1>15. ASSUME NEW self \in Procs, RestoreTruncate(self)  PROVE ApplyInv'
  BY <1>15 DEF RestoreTruncate
<1>16. ASSUME NEW self \in Procs, RestoreRewrite(self)  PROVE ApplyInv'
  BY <1>16 DEF RestoreRewrite
<1>17. ASSUME NEW self \in Procs, RollbackWritten(self)  PROVE ApplyInv'
  BY <1>17 DEF RollbackWritten, Finish
<1>18. ASSUME NEW self \in Procs, CreateExists(self)  PROVE ApplyInv'
  BY <1>18 DEF CreateExists, Finish
<1>19. ASSUME NEW self \in Procs, MakeDirectory(self)  PROVE ApplyInv'
  BY <1>19 DEF MakeDirectory
<1>20. ASSUME NEW self \in Procs, HashTarget(self)  PROVE ApplyInv'
  BY <1>20 DEF HashTarget
<1>21. ASSUME NEW self \in Procs, BackupTarget(self)  PROVE ApplyInv'
  BY <1>21 DEF BackupTarget
<1>22. ASSUME NEW self \in Procs, BackupUnreadable(self)  PROVE ApplyInv'
  BY <1>22 DEF BackupUnreadable, Finish
<1>23. ASSUME NEW self \in Procs, WriteInitialJournal(self)  PROVE ApplyInv'
  BY <1>23 DEF WriteInitialJournal
<1>24. ASSUME NEW self \in Procs, BeginApply(self)  PROVE ApplyInv'
  BY <1>24 DEF BeginApply, Acquire
<1>25. ASSUME NEW self \in Procs, MarkTarget(self)  PROVE ApplyInv'
  BY <1>25 DEF MarkTarget
<1>26. ASSUME NEW self \in Procs, CheckRefuses(self)  PROVE ApplyInv'
  BY <1>26 DEF CheckRefuses, Finish, ChecksTarget
<1>27. ASSUME NEW self \in Procs, CheckAlreadyNew(self)  PROVE ApplyInv'
  BY <1>27 DEF CheckAlreadyNew, ChecksTarget
<1>28. ASSUME NEW self \in Procs, CheckReplace(self)  PROVE ApplyInv'
  BY <1>28 DEF CheckReplace, ChecksTarget
<1>29. ASSUME NEW self \in Procs, SwapTarget(self)  PROVE ApplyInv'
  BY <1>29 DEF SwapTarget
<1>30. ASSUME NEW self \in Procs, MarkSuccess(self)  PROVE ApplyInv'
  BY <1>30 DEF MarkSuccess
<1>31. ASSUME NEW self \in Procs, JournalSuccess(self)  PROVE ApplyInv'
  BY <1>31 DEF JournalSuccess
<1>32. ASSUME NEW self \in Procs, MarkApplied(self)  PROVE ApplyInv'
  BY <1>32 DEF MarkApplied
<1>33. ASSUME NEW self \in Procs, JournalCompleted(self)  PROVE ApplyInv'
  BY <1>33 DEF JournalCompleted
<1>34. ASSUME NEW self \in Procs, RecordArtifact(self)  PROVE ApplyInv'
  BY <1>34 DEF RecordArtifact, Finish
<1>35. ASSUME NEW self \in Procs, RecordFails(self)  PROVE ApplyInv'
  BY <1>35 DEF RecordFails
<1>36. ASSUME NEW self \in Procs, BeginRollback(self)  PROVE ApplyInv'
  BY <1>36 DEF BeginRollback, Acquire
<1>37. ASSUME NEW self \in Procs, RollbackRefuses(self)  PROVE ApplyInv'
  BY <1>37 DEF RollbackRefuses, Finish
<1>38. ASSUME NEW self \in Procs, LockBusy(self)  PROVE ApplyInv'
  BY <1>38 DEF LockBusy, Finish
<1>39. ASSUME NEW self \in Procs, Fail(self)  PROVE ApplyInv'
  BY <1>39 DEF Fail, Finish
<1> QED
    BY <1>1, <1>2, <1>3, <1>4, <1>5, <1>6, <1>7, <1>8, <1>9, <1>10, <1>11,
     <1>12, <1>13, <1>14, <1>15, <1>16, <1>17, <1>18, <1>19, <1>20, <1>21,
     <1>22, <1>23, <1>24, <1>25, <1>26, <1>27, <1>28, <1>29, <1>30, <1>31,
     <1>32, <1>33, <1>34, <1>35, <1>36, <1>37, <1>38, <1>39
     DEF Next, LockedStep, CommandStep, Recovery, Restoring, Creating,
         Applying

(* No step takes away the old bytes from a target a rollback has passed,
   except an edit, which dirty remembers. *)
LEMMA RestoreStep ==
    ASSUME TypeOK, LockInv, JobInv, RestoreInv, NumberAssumption, [Next]_vars
    PROVE  RestoreInv'
<1> USE SentinelAssumption DEF TypeOK, LockInv, JobInv, targets, store, log,
          call, outside, At, Goto, Locked, Unlocked, WithTx, RestoringPoints,
          ApplyingPoints, Targets, RestoreInv, IsLast, Restorable
<1>1. CASE UNCHANGED vars
  BY <1>1 DEF vars, targets, store, log, call, outside
<1>2. CASE Edit
  BY <1>2 DEF Edit, store, log, call
<1>3. ASSUME NEW self \in Procs, BeginRecover(self)  PROVE RestoreInv'
  BY <1>3 DEF BeginRecover, Begin, Acquire
<1>4. ASSUME NEW self \in Procs, BeginCreate(self)  PROVE RestoreInv'
  BY <1>4 DEF BeginCreate, Begin, Acquire
<1>5. ASSUME NEW self \in Procs, RecoverSkip(self)  PROVE RestoreInv'
  BY <1>5 DEF RecoverSkip, Examines
<1>6. ASSUME NEW self \in Procs, RecoverForward(self)  PROVE RestoreInv'
  BY <1>6 DEF RecoverForward, Examines
<1>7. ASSUME NEW self \in Procs, RecoverFinalize(self)  PROVE RestoreInv'
  BY <1>7 DEF RecoverFinalize
<1>8. ASSUME NEW self \in Procs, RecoverBackward(self)  PROVE RestoreInv'
  BY <1>8 DEF RecoverBackward, NeedsRollback, Examines
<1>9. ASSUME NEW self \in Procs, RecoverRefuses(self)  PROVE RestoreInv'
  BY <1>9 DEF RecoverRefuses, Finish, NeedsRollback, Examines
<1>10. ASSUME NEW self \in Procs, RecoverDone(self)  PROVE RestoreInv'
  BY <1>10 DEF RecoverDone, Finish
<1>11. ASSUME NEW self \in Procs, RestoreSkip(self)  PROVE RestoreInv'
  BY <1>11 DEF RestoreSkip, RestoresTarget
<1>12. ASSUME NEW self \in Procs, RestoreChoose(self)  PROVE RestoreInv'
  <2>1. \A q \in Procs : q # self => pc[q] \notin Locked
    BY <1>12 DEF RestoreChoose, RestoresTarget
  <2>2. PICK p \in Paths : RestoreChoose(self)!(p)
    BY <1>12 DEF RestoreChoose
  <2>3. \A q \in left[self] : IsLast(q, left[self]) => q = p
    BY <2>2, NumberAssumption DEF RestoresTarget
  <2> QED
    BY <2>1, <2>2, <2>3 DEF RestoresTarget
<1>13. ASSUME NEW self \in Procs, RestoreRefuses(self)  PROVE RestoreInv'
  BY <1>13 DEF RestoreRefuses, Finish, RestoresTarget
<1>14. ASSUME NEW self \in Procs, RestoreUnlink(self)  PROVE RestoreInv'
  BY <1>14 DEF RestoreUnlink
<1>15. ASSUME NEW self \in Procs, RestoreTruncate(self)  PROVE RestoreInv'
  BY <1>15 DEF RestoreTruncate
<1>16. ASSUME NEW self \in Procs, RestoreRewrite(self)  PROVE RestoreInv'
  BY <1>16 DEF RestoreRewrite
<1>17. ASSUME NEW self \in Procs, RollbackWritten(self)  PROVE RestoreInv'
  BY <1>17 DEF RollbackWritten, Finish
<1>18. ASSUME NEW self \in Procs, CreateExists(self)  PROVE RestoreInv'
  BY <1>18 DEF CreateExists, Finish
<1>19. ASSUME NEW self \in Procs, MakeDirectory(self)  PROVE RestoreInv'
  BY <1>19 DEF MakeDirectory
<1>20. ASSUME NEW self \in Procs, HashTarget(self)  PROVE RestoreInv'
  BY <1>20 DEF HashTarget
<1>21. ASSUME NEW self \in Procs, BackupTarget(self)  PROVE RestoreInv'
  BY <1>21 DEF BackupTarget
<1>22. ASSUME NEW self \in Procs, BackupUnreadable(self)  PROVE RestoreInv'
  BY <1>22 DEF BackupUnreadable, Finish
<1>23. ASSUME NEW self \in Procs, WriteInitialJournal(self)  PROVE RestoreInv'
  BY <1>23 DEF WriteInitialJournal
<1>24. ASSUME NEW self \in Procs, BeginApply(self)  PROVE RestoreInv'
  BY <1>24 DEF BeginApply, Acquire
<1>25. ASSUME NEW self \in Procs, MarkTarget(self)  PROVE RestoreInv'
  BY <1>25 DEF MarkTarget
<1>26. ASSUME NEW self \in Procs, CheckRefuses(self)  PROVE RestoreInv'
  BY <1>26 DEF CheckRefuses, Finish, ChecksTarget
<1>27. ASSUME NEW self \in Procs, CheckAlreadyNew(self)  PROVE RestoreInv'
  BY <1>27 DEF CheckAlreadyNew, ChecksTarget
<1>28. ASSUME NEW self \in Procs, CheckReplace(self)  PROVE RestoreInv'
  BY <1>28 DEF CheckReplace, ChecksTarget
<1>29. ASSUME NEW self \in Procs, SwapTarget(self)  PROVE RestoreInv'
  BY <1>29 DEF SwapTarget
<1>30. ASSUME NEW self \in Procs, MarkSuccess(self)  PROVE RestoreInv'
  BY <1>30 DEF MarkSuccess
<1>31. ASSUME NEW self \in Procs, JournalSuccess(self)  PROVE RestoreInv'
  BY <1>31 DEF JournalSuccess
<1>32. ASSUME NEW self \in Procs, MarkApplied(self)  PROVE RestoreInv'
  BY <1>32 DEF MarkApplied
<1>33. ASSUME NEW self \in Procs, JournalCompleted(self)  PROVE RestoreInv'
  BY <1>33 DEF JournalCompleted
<1>34. ASSUME NEW self \in Procs, RecordArtifact(self)  PROVE RestoreInv'
  BY <1>34 DEF RecordArtifact, Finish
<1>35. ASSUME NEW self \in Procs, RecordFails(self)  PROVE RestoreInv'
  BY <1>35 DEF RecordFails
<1>36. ASSUME NEW self \in Procs, BeginRollback(self)  PROVE RestoreInv'
  BY <1>36 DEF BeginRollback, Acquire
<1>37. ASSUME NEW self \in Procs, RollbackRefuses(self)  PROVE RestoreInv'
  BY <1>37 DEF RollbackRefuses, Finish
<1>38. ASSUME NEW self \in Procs, LockBusy(self)  PROVE RestoreInv'
  BY <1>38 DEF LockBusy, Finish
<1>39. ASSUME NEW self \in Procs, Fail(self)  PROVE RestoreInv'
  BY <1>39 DEF Fail, Finish
<1> QED
    BY <1>1, <1>2, <1>3, <1>4, <1>5, <1>6, <1>7, <1>8, <1>9, <1>10, <1>11,
     <1>12, <1>13, <1>14, <1>15, <1>16, <1>17, <1>18, <1>19, <1>20, <1>21,
     <1>22, <1>23, <1>24, <1>25, <1>26, <1>27, <1>28, <1>29, <1>30, <1>31,
     <1>32, <1>33, <1>34, <1>35, <1>36, <1>37, <1>38, <1>39
     DEF Next, LockedStep, CommandStep, Recovery, Restoring, Creating,
         Applying

(* While create runs, what it has recorded of a target and what it has backed
   up agree, if no editor ran. *)
LEMMA CreateStep ==
    ASSUME TypeOK, LockInv, JobInv, CreateInv, NumberAssumption, [Next]_vars
    PROVE  CreateInv'
<1> USE SentinelAssumption DEF TypeOK, LockInv, JobInv, targets, store, log,
          call, outside, At, Goto, Locked, Unlocked, WithTx, RestoringPoints,
          ApplyingPoints, Targets, CreateInv, IsFirst
<1>1. CASE UNCHANGED vars
  BY <1>1 DEF vars, targets, store, log, call, outside
<1>2. CASE Edit
  BY <1>2 DEF Edit, store, log, call
<1>3. ASSUME NEW self \in Procs, BeginRecover(self)  PROVE CreateInv'
  BY <1>3 DEF BeginRecover, Begin, Acquire
<1>4. ASSUME NEW self \in Procs, BeginCreate(self)  PROVE CreateInv'
  BY <1>4 DEF BeginCreate, Begin, Acquire
<1>5. ASSUME NEW self \in Procs, RecoverSkip(self)  PROVE CreateInv'
  BY <1>5 DEF RecoverSkip, Examines
<1>6. ASSUME NEW self \in Procs, RecoverForward(self)  PROVE CreateInv'
  BY <1>6 DEF RecoverForward, Examines
<1>7. ASSUME NEW self \in Procs, RecoverFinalize(self)  PROVE CreateInv'
  BY <1>7 DEF RecoverFinalize
<1>8. ASSUME NEW self \in Procs, RecoverBackward(self)  PROVE CreateInv'
  BY <1>8 DEF RecoverBackward, NeedsRollback, Examines
<1>9. ASSUME NEW self \in Procs, RecoverRefuses(self)  PROVE CreateInv'
  BY <1>9 DEF RecoverRefuses, Finish, NeedsRollback, Examines
<1>10. ASSUME NEW self \in Procs, RecoverDone(self)  PROVE CreateInv'
  BY <1>10 DEF RecoverDone, Finish
<1>11. ASSUME NEW self \in Procs, RestoreSkip(self)  PROVE CreateInv'
  BY <1>11 DEF RestoreSkip, RestoresTarget
<1>12. ASSUME NEW self \in Procs, RestoreChoose(self)  PROVE CreateInv'
  BY <1>12 DEF RestoreChoose, RestoresTarget
<1>13. ASSUME NEW self \in Procs, RestoreRefuses(self)  PROVE CreateInv'
  BY <1>13 DEF RestoreRefuses, Finish, RestoresTarget
<1>14. ASSUME NEW self \in Procs, RestoreUnlink(self)  PROVE CreateInv'
  BY <1>14 DEF RestoreUnlink
<1>15. ASSUME NEW self \in Procs, RestoreTruncate(self)  PROVE CreateInv'
  BY <1>15 DEF RestoreTruncate
<1>16. ASSUME NEW self \in Procs, RestoreRewrite(self)  PROVE CreateInv'
  BY <1>16 DEF RestoreRewrite
<1>17. ASSUME NEW self \in Procs, RollbackWritten(self)  PROVE CreateInv'
  BY <1>17 DEF RollbackWritten, Finish
<1>18. ASSUME NEW self \in Procs, CreateExists(self)  PROVE CreateInv'
  BY <1>18 DEF CreateExists, Finish
<1>19. ASSUME NEW self \in Procs, MakeDirectory(self)  PROVE CreateInv'
  BY <1>19 DEF MakeDirectory
<1>20. ASSUME NEW self \in Procs, HashTarget(self)  PROVE CreateInv'
  <2>1. \A q \in Procs : q # self => pc[q] \notin Locked
    BY <1>20 DEF HashTarget
  <2>2. PICK p \in Paths : HashTarget(self)!(p)
    BY <1>20 DEF HashTarget
  <2>3. \A q \in left[self] : IsFirst(q, left[self]) => q = p
    BY <2>2, NumberAssumption
  <2>4. tx[self] \in Txs /\ left[self] \subseteq Paths
    BY <2>2
  <2>5. old'[tx[self]] = [old[tx[self]] EXCEPT ![p] = file[p]]
    BY <2>2, <2>4
  <2>6. old[tx[self]] \in [Paths -> Value]
    BY <2>4
  <2>7. /\ old'[tx[self]][p] = file[p]
        /\ \A q \in Paths : q # p => old'[tx[self]][q] = old[tx[self]][q]
    BY <2>5, <2>6
  <2> QED
    BY <2>1, <2>2, <2>3, <2>4, <2>7
<1>21. ASSUME NEW self \in Procs, BackupTarget(self)  PROVE CreateInv'
  <2>1. \A q \in Procs : q # self => pc[q] \notin Locked
    BY <1>21 DEF BackupTarget
  <2>2. PICK p \in Paths : BackupTarget(self)!(p)
    BY <1>21 DEF BackupTarget
  <2>3. \A q \in left[self] : IsFirst(q, left[self]) => q = p
    BY <2>2, NumberAssumption
  <2>4. tx[self] \in Txs /\ left[self] \subseteq Paths
    BY <2>2
  <2>5. backup[tx[self]] \in [Paths -> Value]
    BY <2>4
  <2>6. \/ backup'[tx[self]] = backup[tx[self]] /\ old[tx[self]][p] = Absent
        \/ backup'[tx[self]] = [backup[tx[self]] EXCEPT ![p] = file[p]]
    BY <2>2, <2>4
  <2>7. /\ old[tx[self]][p] # Absent => backup'[tx[self]][p] = file[p]
        /\ \A q \in Paths : q # p => backup'[tx[self]][q] = backup[tx[self]][q]
    BY <2>5, <2>6
  <2> QED
    BY <2>1, <2>2, <2>3, <2>4, <2>7
<1>22. ASSUME NEW self \in Procs, BackupUnreadable(self)  PROVE CreateInv'
  BY <1>22 DEF BackupUnreadable, Finish
<1>23. ASSUME NEW self \in Procs, WriteInitialJournal(self)  PROVE CreateInv'
  BY <1>23 DEF WriteInitialJournal
<1>24. ASSUME NEW self \in Procs, BeginApply(self)  PROVE CreateInv'
  BY <1>24 DEF BeginApply, Acquire
<1>25. ASSUME NEW self \in Procs, MarkTarget(self)  PROVE CreateInv'
  BY <1>25 DEF MarkTarget
<1>26. ASSUME NEW self \in Procs, CheckRefuses(self)  PROVE CreateInv'
  BY <1>26 DEF CheckRefuses, Finish, ChecksTarget
<1>27. ASSUME NEW self \in Procs, CheckAlreadyNew(self)  PROVE CreateInv'
  BY <1>27 DEF CheckAlreadyNew, ChecksTarget
<1>28. ASSUME NEW self \in Procs, CheckReplace(self)  PROVE CreateInv'
  BY <1>28 DEF CheckReplace, ChecksTarget
<1>29. ASSUME NEW self \in Procs, SwapTarget(self)  PROVE CreateInv'
  BY <1>29 DEF SwapTarget
<1>30. ASSUME NEW self \in Procs, MarkSuccess(self)  PROVE CreateInv'
  BY <1>30 DEF MarkSuccess
<1>31. ASSUME NEW self \in Procs, JournalSuccess(self)  PROVE CreateInv'
  BY <1>31 DEF JournalSuccess
<1>32. ASSUME NEW self \in Procs, MarkApplied(self)  PROVE CreateInv'
  BY <1>32 DEF MarkApplied
<1>33. ASSUME NEW self \in Procs, JournalCompleted(self)  PROVE CreateInv'
  BY <1>33 DEF JournalCompleted
<1>34. ASSUME NEW self \in Procs, RecordArtifact(self)  PROVE CreateInv'
  BY <1>34 DEF RecordArtifact, Finish
<1>35. ASSUME NEW self \in Procs, RecordFails(self)  PROVE CreateInv'
  BY <1>35 DEF RecordFails
<1>36. ASSUME NEW self \in Procs, BeginRollback(self)  PROVE CreateInv'
  BY <1>36 DEF BeginRollback, Acquire
<1>37. ASSUME NEW self \in Procs, RollbackRefuses(self)  PROVE CreateInv'
  BY <1>37 DEF RollbackRefuses, Finish
<1>38. ASSUME NEW self \in Procs, LockBusy(self)  PROVE CreateInv'
  BY <1>38 DEF LockBusy, Finish
<1>39. ASSUME NEW self \in Procs, Fail(self)  PROVE CreateInv'
  BY <1>39 DEF Fail, Finish
<1> QED
    BY <1>1, <1>2, <1>3, <1>4, <1>5, <1>6, <1>7, <1>8, <1>9, <1>10, <1>11,
     <1>12, <1>13, <1>14, <1>15, <1>16, <1>17, <1>18, <1>19, <1>20, <1>21,
     <1>22, <1>23, <1>24, <1>25, <1>26, <1>27, <1>28, <1>29, <1>30, <1>31,
     <1>32, <1>33, <1>34, <1>35, <1>36, <1>37, <1>38, <1>39
     DEF Next, LockedStep, CommandStep, Recovery, Restoring, Creating,
         Applying

(* A journal is written only after every backup it names. *)
LEMMA BackupsStep ==
    ASSUME TypeOK, LockInv, JobInv, DirInv, CreateInv, BackupsMatch,
           NumberAssumption, [Next]_vars
    PROVE  BackupsMatch'
<1> USE SentinelAssumption DEF TypeOK, LockInv, JobInv, BackupsMatch,
          targets, store, log, call, outside, At, Goto, Locked, Unlocked,
          Targets
<1> SUFFICES ASSUME edits' = 0, NEW t \in Txs, journal'[t] # "none",
                    NEW p \in Paths, new'[t][p] # Keep, old'[t][p] # Absent
             PROVE  backup'[t][p] = old'[t][p]
  BY DEF BackupsMatch, Targets
<1>1. CASE UNCHANGED vars
  BY <1>1 DEF vars, targets, store, log, call, outside
<1>2. CASE Edit
  BY <1>2 DEF Edit, store, log, call
<1>3. ASSUME NEW self \in Procs, BeginRecover(self)
      PROVE  backup'[t][p] = old'[t][p]
  BY <1>3 DEF BeginRecover, Begin, Acquire
<1>4. ASSUME NEW self \in Procs, BeginCreate(self)
      PROVE  backup'[t][p] = old'[t][p]
  BY <1>4 DEF BeginCreate, Begin, Acquire
<1>5. ASSUME NEW self \in Procs, RecoverSkip(self)
      PROVE  backup'[t][p] = old'[t][p]
  BY <1>5 DEF RecoverSkip, Examines
<1>6. ASSUME NEW self \in Procs, RecoverForward(self)
      PROVE  backup'[t][p] = old'[t][p]
  BY <1>6 DEF RecoverForward, Examines
<1>7. ASSUME NEW self \in Procs, RecoverFinalize(self)
      PROVE  backup'[t][p] = old'[t][p]
  <2>1. journal[t] # "none"
    BY <1>7 DEF RecoverFinalize, DirInv, WithTx
  <2> QED
    BY <1>7, <2>1 DEF RecoverFinalize
<1>8. ASSUME NEW self \in Procs, RecoverBackward(self)
      PROVE  backup'[t][p] = old'[t][p]
  BY <1>8 DEF RecoverBackward, NeedsRollback, Examines
<1>9. ASSUME NEW self \in Procs, RecoverRefuses(self)
      PROVE  backup'[t][p] = old'[t][p]
  BY <1>9 DEF RecoverRefuses, Finish, NeedsRollback, Examines
<1>10. ASSUME NEW self \in Procs, RecoverDone(self)
       PROVE  backup'[t][p] = old'[t][p]
  BY <1>10 DEF RecoverDone, Finish
<1>11. ASSUME NEW self \in Procs, RestoreSkip(self)
       PROVE  backup'[t][p] = old'[t][p]
  BY <1>11 DEF RestoreSkip, RestoresTarget
<1>12. ASSUME NEW self \in Procs, RestoreChoose(self)
       PROVE  backup'[t][p] = old'[t][p]
  BY <1>12 DEF RestoreChoose, RestoresTarget
<1>13. ASSUME NEW self \in Procs, RestoreRefuses(self)
       PROVE  backup'[t][p] = old'[t][p]
  BY <1>13 DEF RestoreRefuses, Finish, RestoresTarget
<1>14. ASSUME NEW self \in Procs, RestoreUnlink(self)
       PROVE  backup'[t][p] = old'[t][p]
  BY <1>14 DEF RestoreUnlink
<1>15. ASSUME NEW self \in Procs, RestoreTruncate(self)
       PROVE  backup'[t][p] = old'[t][p]
  BY <1>15 DEF RestoreTruncate
<1>16. ASSUME NEW self \in Procs, RestoreRewrite(self)
       PROVE  backup'[t][p] = old'[t][p]
  BY <1>16 DEF RestoreRewrite
<1>17. ASSUME NEW self \in Procs, RollbackWritten(self)
       PROVE  backup'[t][p] = old'[t][p]
  <2>1. journal[t] # "none"
    BY <1>17 DEF RollbackWritten, DirInv, WithTx
  <2> QED
    BY <1>17, <2>1 DEF RollbackWritten, Finish
<1>18. ASSUME NEW self \in Procs, CreateExists(self)
       PROVE  backup'[t][p] = old'[t][p]
  BY <1>18 DEF CreateExists, Finish
<1>19. ASSUME NEW self \in Procs, MakeDirectory(self)
       PROVE  backup'[t][p] = old'[t][p]
  BY <1>19 DEF MakeDirectory, DirInv, BackupsMatch
<1>20. ASSUME NEW self \in Procs, HashTarget(self)
       PROVE  backup'[t][p] = old'[t][p]
  BY <1>20 DEF HashTarget, DirInv, BackupsMatch
<1>21. ASSUME NEW self \in Procs, BackupTarget(self)
       PROVE  backup'[t][p] = old'[t][p]
  BY <1>21 DEF BackupTarget, DirInv, BackupsMatch
<1>22. ASSUME NEW self \in Procs, BackupUnreadable(self)
       PROVE  backup'[t][p] = old'[t][p]
  BY <1>22 DEF BackupUnreadable, Finish
<1>23. ASSUME NEW self \in Procs, WriteInitialJournal(self)
       PROVE  backup'[t][p] = old'[t][p]
  BY <1>23 DEF WriteInitialJournal, CreateInv, BackupsMatch
<1>24. ASSUME NEW self \in Procs, BeginApply(self)
       PROVE  backup'[t][p] = old'[t][p]
  <2>1. journal[t] # "none"
    BY <1>24 DEF BeginApply, DirInv, WithTx
  <2> QED
    BY <1>24, <2>1 DEF BeginApply, Acquire
<1>25. ASSUME NEW self \in Procs, MarkTarget(self)
       PROVE  backup'[t][p] = old'[t][p]
  BY <1>25 DEF MarkTarget
<1>26. ASSUME NEW self \in Procs, CheckRefuses(self)
       PROVE  backup'[t][p] = old'[t][p]
  BY <1>26 DEF CheckRefuses, Finish, ChecksTarget
<1>27. ASSUME NEW self \in Procs, CheckAlreadyNew(self)
       PROVE  backup'[t][p] = old'[t][p]
  BY <1>27 DEF CheckAlreadyNew, ChecksTarget
<1>28. ASSUME NEW self \in Procs, CheckReplace(self)
       PROVE  backup'[t][p] = old'[t][p]
  BY <1>28 DEF CheckReplace, ChecksTarget
<1>29. ASSUME NEW self \in Procs, SwapTarget(self)
       PROVE  backup'[t][p] = old'[t][p]
  BY <1>29 DEF SwapTarget
<1>30. ASSUME NEW self \in Procs, MarkSuccess(self)
       PROVE  backup'[t][p] = old'[t][p]
  BY <1>30 DEF MarkSuccess
<1>31. ASSUME NEW self \in Procs, JournalSuccess(self)
       PROVE  backup'[t][p] = old'[t][p]
  <2>1. journal[t] # "none"
    BY <1>31 DEF JournalSuccess, DirInv, WithTx
  <2> QED
    BY <1>31, <2>1 DEF JournalSuccess
<1>32. ASSUME NEW self \in Procs, MarkApplied(self)
       PROVE  backup'[t][p] = old'[t][p]
  BY <1>32 DEF MarkApplied
<1>33. ASSUME NEW self \in Procs, JournalCompleted(self)
       PROVE  backup'[t][p] = old'[t][p]
  <2>1. journal[t] # "none"
    BY <1>33 DEF JournalCompleted, DirInv, WithTx
  <2> QED
    BY <1>33, <2>1 DEF JournalCompleted
<1>34. ASSUME NEW self \in Procs, RecordArtifact(self)
       PROVE  backup'[t][p] = old'[t][p]
  BY <1>34 DEF RecordArtifact, Finish
<1>35. ASSUME NEW self \in Procs, RecordFails(self)
       PROVE  backup'[t][p] = old'[t][p]
  BY <1>35 DEF RecordFails
<1>36. ASSUME NEW self \in Procs, BeginRollback(self)
       PROVE  backup'[t][p] = old'[t][p]
  BY <1>36 DEF BeginRollback, Acquire
<1>37. ASSUME NEW self \in Procs, RollbackRefuses(self)
       PROVE  backup'[t][p] = old'[t][p]
  BY <1>37 DEF RollbackRefuses, Finish
<1>38. ASSUME NEW self \in Procs, LockBusy(self)
       PROVE  backup'[t][p] = old'[t][p]
  BY <1>38 DEF LockBusy, Finish
<1>39. ASSUME NEW self \in Procs, Fail(self)  PROVE backup'[t][p] = old'[t][p]
  BY <1>39 DEF Fail, Finish
<1> QED
    BY <1>1, <1>2, <1>3, <1>4, <1>5, <1>6, <1>7, <1>8, <1>9, <1>10, <1>11,
     <1>12, <1>13, <1>14, <1>15, <1>16, <1>17, <1>18, <1>19, <1>20, <1>21,
     <1>22, <1>23, <1>24, <1>25, <1>26, <1>27, <1>28, <1>29, <1>30, <1>31,
     <1>32, <1>33, <1>34, <1>35, <1>36, <1>37, <1>38, <1>39
     DEF Next, LockedStep, CommandStep, Recovery, Restoring, Creating,
         Applying

(* A recovery pass only moves on from a directory it has settled. *)
LEMMA SettleStep ==
    ASSUME TypeOK, LockInv, JobInv, DirInv, SettleInv, NumberAssumption,
           [Next]_vars
    PROVE  SettleInv'
<1> USE SentinelAssumption DEF TypeOK, LockInv, JobInv, targets, store, log,
          call, outside, At, Goto, Locked, Unlocked, WithTx, RestoringPoints,
          ApplyingPoints, Targets, DirInv, SettleInv, Recovering, Settled,
          Finalized
<1>1. CASE UNCHANGED vars
  BY <1>1 DEF vars, targets, store, log, call, outside
<1>2. CASE Edit
  BY <1>2 DEF Edit, store, log, call
<1>3. ASSUME NEW self \in Procs, BeginRecover(self)  PROVE SettleInv'
  BY <1>3 DEF BeginRecover, Begin, Acquire
<1>4. ASSUME NEW self \in Procs, BeginCreate(self)  PROVE SettleInv'
  BY <1>4 DEF BeginCreate, Begin, Acquire
<1>5. ASSUME NEW self \in Procs, RecoverSkip(self)  PROVE SettleInv'
  BY <1>5 DEF RecoverSkip, Examines
<1>6. ASSUME NEW self \in Procs, RecoverForward(self)  PROVE SettleInv'
  BY <1>6 DEF RecoverForward, Examines
<1>7. ASSUME NEW self \in Procs, RecoverFinalize(self)  PROVE SettleInv'
  BY <1>7 DEF RecoverFinalize
<1>8. ASSUME NEW self \in Procs, RecoverBackward(self)  PROVE SettleInv'
  BY <1>8 DEF RecoverBackward, NeedsRollback, Examines
<1>9. ASSUME NEW self \in Procs, RecoverRefuses(self)  PROVE SettleInv'
  BY <1>9 DEF RecoverRefuses, Finish, NeedsRollback, Examines
<1>10. ASSUME NEW self \in Procs, RecoverDone(self)  PROVE SettleInv'
  BY <1>10 DEF RecoverDone, Finish
<1>11. ASSUME NEW self \in Procs, RestoreSkip(self)  PROVE SettleInv'
  BY <1>11 DEF RestoreSkip, RestoresTarget
<1>12. ASSUME NEW self \in Procs, RestoreChoose(self)  PROVE SettleInv'
  BY <1>12 DEF RestoreChoose, RestoresTarget
<1>13. ASSUME NEW self \in Procs, RestoreRefuses(self)  PROVE SettleInv'
  BY <1>13 DEF RestoreRefuses, Finish, RestoresTarget
<1>14. ASSUME NEW self \in Procs, RestoreUnlink(self)  PROVE SettleInv'
  BY <1>14 DEF RestoreUnlink
<1>15. ASSUME NEW self \in Procs, RestoreTruncate(self)  PROVE SettleInv'
  BY <1>15 DEF RestoreTruncate
<1>16. ASSUME NEW self \in Procs, RestoreRewrite(self)  PROVE SettleInv'
  BY <1>16 DEF RestoreRewrite
<1>17. ASSUME NEW self \in Procs, RollbackWritten(self)  PROVE SettleInv'
  BY <1>17 DEF RollbackWritten, Finish
<1>18. ASSUME NEW self \in Procs, CreateExists(self)  PROVE SettleInv'
  BY <1>18 DEF CreateExists, Finish
<1>19. ASSUME NEW self \in Procs, MakeDirectory(self)  PROVE SettleInv'
  BY <1>19 DEF MakeDirectory
<1>20. ASSUME NEW self \in Procs, HashTarget(self)  PROVE SettleInv'
  BY <1>20 DEF HashTarget
<1>21. ASSUME NEW self \in Procs, BackupTarget(self)  PROVE SettleInv'
  BY <1>21 DEF BackupTarget
<1>22. ASSUME NEW self \in Procs, BackupUnreadable(self)  PROVE SettleInv'
  BY <1>22 DEF BackupUnreadable, Finish
<1>23. ASSUME NEW self \in Procs, WriteInitialJournal(self)  PROVE SettleInv'
  BY <1>23 DEF WriteInitialJournal
<1>24. ASSUME NEW self \in Procs, BeginApply(self)  PROVE SettleInv'
  BY <1>24 DEF BeginApply, Acquire
<1>25. ASSUME NEW self \in Procs, MarkTarget(self)  PROVE SettleInv'
  BY <1>25 DEF MarkTarget
<1>26. ASSUME NEW self \in Procs, CheckRefuses(self)  PROVE SettleInv'
  BY <1>26 DEF CheckRefuses, Finish, ChecksTarget
<1>27. ASSUME NEW self \in Procs, CheckAlreadyNew(self)  PROVE SettleInv'
  BY <1>27 DEF CheckAlreadyNew, ChecksTarget
<1>28. ASSUME NEW self \in Procs, CheckReplace(self)  PROVE SettleInv'
  BY <1>28 DEF CheckReplace, ChecksTarget
<1>29. ASSUME NEW self \in Procs, SwapTarget(self)  PROVE SettleInv'
  BY <1>29 DEF SwapTarget
<1>30. ASSUME NEW self \in Procs, MarkSuccess(self)  PROVE SettleInv'
  BY <1>30 DEF MarkSuccess
<1>31. ASSUME NEW self \in Procs, JournalSuccess(self)  PROVE SettleInv'
  BY <1>31 DEF JournalSuccess
<1>32. ASSUME NEW self \in Procs, MarkApplied(self)  PROVE SettleInv'
  BY <1>32 DEF MarkApplied
<1>33. ASSUME NEW self \in Procs, JournalCompleted(self)  PROVE SettleInv'
  BY <1>33 DEF JournalCompleted
<1>34. ASSUME NEW self \in Procs, RecordArtifact(self)  PROVE SettleInv'
  BY <1>34 DEF RecordArtifact, Finish
<1>35. ASSUME NEW self \in Procs, RecordFails(self)  PROVE SettleInv'
  BY <1>35 DEF RecordFails
<1>36. ASSUME NEW self \in Procs, BeginRollback(self)  PROVE SettleInv'
  BY <1>36 DEF BeginRollback, Acquire
<1>37. ASSUME NEW self \in Procs, RollbackRefuses(self)  PROVE SettleInv'
  BY <1>37 DEF RollbackRefuses, Finish
<1>38. ASSUME NEW self \in Procs, LockBusy(self)  PROVE SettleInv'
  BY <1>38 DEF LockBusy, Finish
<1>39. ASSUME NEW self \in Procs, Fail(self)  PROVE SettleInv'
  BY <1>39 DEF Fail, Finish
<1> QED
    BY <1>1, <1>2, <1>3, <1>4, <1>5, <1>6, <1>7, <1>8, <1>9, <1>10, <1>11,
     <1>12, <1>13, <1>14, <1>15, <1>16, <1>17, <1>18, <1>19, <1>20, <1>21,
     <1>22, <1>23, <1>24, <1>25, <1>26, <1>27, <1>28, <1>29, <1>30, <1>31,
     <1>32, <1>33, <1>34, <1>35, <1>36, <1>37, <1>38, <1>39
     DEF Next, LockedStep, CommandStep, Recovery, Restoring, Creating,
         Applying

(* Only apply writes a marker, after it has passed every target. *)
LEMMA CommitStep ==
    ASSUME IInv, [Next]_vars
    PROVE  CommitsAllNew
<1> USE DEF CommitsAllNew, targets, store, log, call, outside
<1>1. CASE UNCHANGED vars
  BY <1>1 DEF vars, targets, store, log, call, outside
<1>2. CASE Edit
  BY <1>2 DEF Edit, store, log, call
<1>3. ASSUME NEW self \in Procs, BeginRecover(self)  PROVE CommitsAllNew
  BY <1>3 DEF BeginRecover, Begin, Acquire
<1>4. ASSUME NEW self \in Procs, BeginCreate(self)  PROVE CommitsAllNew
  BY <1>4 DEF BeginCreate, Begin, Acquire
<1>5. ASSUME NEW self \in Procs, RecoverSkip(self)  PROVE CommitsAllNew
  BY <1>5 DEF RecoverSkip, Examines
<1>6. ASSUME NEW self \in Procs, RecoverForward(self)  PROVE CommitsAllNew
  BY <1>6 DEF RecoverForward, Examines
<1>7. ASSUME NEW self \in Procs, RecoverFinalize(self)  PROVE CommitsAllNew
  BY <1>7 DEF RecoverFinalize
<1>8. ASSUME NEW self \in Procs, RecoverBackward(self)  PROVE CommitsAllNew
  BY <1>8 DEF RecoverBackward, NeedsRollback, Examines
<1>9. ASSUME NEW self \in Procs, RecoverRefuses(self)  PROVE CommitsAllNew
  BY <1>9 DEF RecoverRefuses, Finish, NeedsRollback, Examines
<1>10. ASSUME NEW self \in Procs, RecoverDone(self)  PROVE CommitsAllNew
  BY <1>10 DEF RecoverDone, Finish
<1>11. ASSUME NEW self \in Procs, RestoreSkip(self)  PROVE CommitsAllNew
  BY <1>11 DEF RestoreSkip, RestoresTarget
<1>12. ASSUME NEW self \in Procs, RestoreChoose(self)  PROVE CommitsAllNew
  BY <1>12 DEF RestoreChoose, RestoresTarget
<1>13. ASSUME NEW self \in Procs, RestoreRefuses(self)  PROVE CommitsAllNew
  BY <1>13 DEF RestoreRefuses, Finish, RestoresTarget
<1>14. ASSUME NEW self \in Procs, RestoreUnlink(self)  PROVE CommitsAllNew
  BY <1>14 DEF RestoreUnlink
<1>15. ASSUME NEW self \in Procs, RestoreTruncate(self)  PROVE CommitsAllNew
  BY <1>15 DEF RestoreTruncate
<1>16. ASSUME NEW self \in Procs, RestoreRewrite(self)  PROVE CommitsAllNew
  BY <1>16 DEF RestoreRewrite
<1>17. ASSUME NEW self \in Procs, RollbackWritten(self)  PROVE CommitsAllNew
  BY <1>17 DEF RollbackWritten, Finish
<1>18. ASSUME NEW self \in Procs, CreateExists(self)  PROVE CommitsAllNew
  BY <1>18 DEF CreateExists, Finish
<1>19. ASSUME NEW self \in Procs, MakeDirectory(self)  PROVE CommitsAllNew
  BY <1>19 DEF MakeDirectory
<1>20. ASSUME NEW self \in Procs, HashTarget(self)  PROVE CommitsAllNew
  BY <1>20 DEF HashTarget
<1>21. ASSUME NEW self \in Procs, BackupTarget(self)  PROVE CommitsAllNew
  BY <1>21 DEF BackupTarget
<1>22. ASSUME NEW self \in Procs, BackupUnreadable(self)  PROVE CommitsAllNew
  BY <1>22 DEF BackupUnreadable, Finish
<1>23. ASSUME NEW self \in Procs, WriteInitialJournal(self)
       PROVE  CommitsAllNew
  BY <1>23 DEF WriteInitialJournal
<1>24. ASSUME NEW self \in Procs, BeginApply(self)  PROVE CommitsAllNew
  BY <1>24 DEF BeginApply, Acquire
<1>25. ASSUME NEW self \in Procs, MarkTarget(self)  PROVE CommitsAllNew
  BY <1>25 DEF MarkTarget
<1>26. ASSUME NEW self \in Procs, CheckRefuses(self)  PROVE CommitsAllNew
  BY <1>26 DEF CheckRefuses, Finish, ChecksTarget
<1>27. ASSUME NEW self \in Procs, CheckAlreadyNew(self)  PROVE CommitsAllNew
  BY <1>27 DEF CheckAlreadyNew, ChecksTarget
<1>28. ASSUME NEW self \in Procs, CheckReplace(self)  PROVE CommitsAllNew
  BY <1>28 DEF CheckReplace, ChecksTarget
<1>29. ASSUME NEW self \in Procs, SwapTarget(self)  PROVE CommitsAllNew
  BY <1>29 DEF SwapTarget
<1>30. ASSUME NEW self \in Procs, MarkSuccess(self)  PROVE CommitsAllNew
  BY <1>30 DEF MarkSuccess, IInv, ApplyInv, ApplyingPoints, At
<1>31. ASSUME NEW self \in Procs, JournalSuccess(self)  PROVE CommitsAllNew
  BY <1>31 DEF JournalSuccess
<1>32. ASSUME NEW self \in Procs, MarkApplied(self)  PROVE CommitsAllNew
  BY <1>32 DEF MarkApplied
<1>33. ASSUME NEW self \in Procs, JournalCompleted(self)  PROVE CommitsAllNew
  BY <1>33 DEF JournalCompleted
<1>34. ASSUME NEW self \in Procs, RecordArtifact(self)  PROVE CommitsAllNew
  BY <1>34 DEF RecordArtifact, Finish
<1>35. ASSUME NEW self \in Procs, RecordFails(self)  PROVE CommitsAllNew
  BY <1>35 DEF RecordFails
<1>36. ASSUME NEW self \in Procs, BeginRollback(self)  PROVE CommitsAllNew
  BY <1>36 DEF BeginRollback, Acquire
<1>37. ASSUME NEW self \in Procs, RollbackRefuses(self)  PROVE CommitsAllNew
  BY <1>37 DEF RollbackRefuses, Finish
<1>38. ASSUME NEW self \in Procs, LockBusy(self)  PROVE CommitsAllNew
  BY <1>38 DEF LockBusy, Finish
<1>39. ASSUME NEW self \in Procs, Fail(self)  PROVE CommitsAllNew
  BY <1>39 DEF Fail, Finish
<1> QED
    BY <1>1, <1>2, <1>3, <1>4, <1>5, <1>6, <1>7, <1>8, <1>9, <1>10, <1>11,
     <1>12, <1>13, <1>14, <1>15, <1>16, <1>17, <1>18, <1>19, <1>20, <1>21,
     <1>22, <1>23, <1>24, <1>25, <1>26, <1>27, <1>28, <1>29, <1>30, <1>31,
     <1>32, <1>33, <1>34, <1>35, <1>36, <1>37, <1>38, <1>39
     DEF Next, LockedStep, CommandStep, Recovery, Restoring, Creating,
         Applying

(* Only a rollback that has passed every target writes rolled_back. *)
LEMMA RolledBackStep ==
    ASSUME IInv, [Next]_vars
    PROVE  RollsAllBack
<1> USE DEF RollsAllBack, targets, store, log, call, outside
<1>1. CASE UNCHANGED vars
  BY <1>1 DEF vars, targets, store, log, call, outside
<1>2. CASE Edit
  BY <1>2 DEF Edit, store, log, call
<1>3. ASSUME NEW self \in Procs, BeginRecover(self)  PROVE RollsAllBack
  BY <1>3 DEF BeginRecover, Begin, Acquire
<1>4. ASSUME NEW self \in Procs, BeginCreate(self)  PROVE RollsAllBack
  BY <1>4 DEF BeginCreate, Begin, Acquire
<1>5. ASSUME NEW self \in Procs, RecoverSkip(self)  PROVE RollsAllBack
  BY <1>5 DEF RecoverSkip, Examines
<1>6. ASSUME NEW self \in Procs, RecoverForward(self)  PROVE RollsAllBack
  BY <1>6 DEF RecoverForward, Examines
<1>7. ASSUME NEW self \in Procs, RecoverFinalize(self)  PROVE RollsAllBack
  BY <1>7 DEF RecoverFinalize, At, WithTx, Locked, Unlocked, IInv, TypeOK, JobInv
<1>8. ASSUME NEW self \in Procs, RecoverBackward(self)  PROVE RollsAllBack
  BY <1>8 DEF RecoverBackward, NeedsRollback, Examines
<1>9. ASSUME NEW self \in Procs, RecoverRefuses(self)  PROVE RollsAllBack
  BY <1>9 DEF RecoverRefuses, Finish, NeedsRollback, Examines
<1>10. ASSUME NEW self \in Procs, RecoverDone(self)  PROVE RollsAllBack
  BY <1>10 DEF RecoverDone, Finish
<1>11. ASSUME NEW self \in Procs, RestoreSkip(self)  PROVE RollsAllBack
  BY <1>11 DEF RestoreSkip, RestoresTarget
<1>12. ASSUME NEW self \in Procs, RestoreChoose(self)  PROVE RollsAllBack
  BY <1>12 DEF RestoreChoose, RestoresTarget
<1>13. ASSUME NEW self \in Procs, RestoreRefuses(self)  PROVE RollsAllBack
  BY <1>13 DEF RestoreRefuses, Finish, RestoresTarget
<1>14. ASSUME NEW self \in Procs, RestoreUnlink(self)  PROVE RollsAllBack
  BY <1>14 DEF RestoreUnlink
<1>15. ASSUME NEW self \in Procs, RestoreTruncate(self)  PROVE RollsAllBack
  BY <1>15 DEF RestoreTruncate
<1>16. ASSUME NEW self \in Procs, RestoreRewrite(self)  PROVE RollsAllBack
  BY <1>16 DEF RestoreRewrite
<1>17. ASSUME NEW self \in Procs, RollbackWritten(self)  PROVE RollsAllBack
  <2>1. \A t \in Txs : t # tx[self] => journal'[t] = journal[t]
    BY <1>17 DEF RollbackWritten, IInv, TypeOK
  <2>2. \A p \in Targets(tx[self]) \ dirty : file[p] = old[tx[self]][p]
    BY <1>17 DEF RollbackWritten, IInv, RestoreInv, RestoringPoints, At
  <2> QED
    BY <2>1, <2>2
<1>18. ASSUME NEW self \in Procs, CreateExists(self)  PROVE RollsAllBack
  BY <1>18 DEF CreateExists, Finish
<1>19. ASSUME NEW self \in Procs, MakeDirectory(self)  PROVE RollsAllBack
  BY <1>19 DEF MakeDirectory
<1>20. ASSUME NEW self \in Procs, HashTarget(self)  PROVE RollsAllBack
  BY <1>20 DEF HashTarget
<1>21. ASSUME NEW self \in Procs, BackupTarget(self)  PROVE RollsAllBack
  BY <1>21 DEF BackupTarget
<1>22. ASSUME NEW self \in Procs, BackupUnreadable(self)  PROVE RollsAllBack
  BY <1>22 DEF BackupUnreadable, Finish
<1>23. ASSUME NEW self \in Procs, WriteInitialJournal(self)  PROVE RollsAllBack
  BY <1>23 DEF WriteInitialJournal, At, WithTx, Locked, Unlocked, IInv, TypeOK, JobInv
<1>24. ASSUME NEW self \in Procs, BeginApply(self)  PROVE RollsAllBack
  BY <1>24 DEF BeginApply, At, WithTx, Locked, Unlocked, IInv, TypeOK, JobInv, Acquire
<1>25. ASSUME NEW self \in Procs, MarkTarget(self)  PROVE RollsAllBack
  BY <1>25 DEF MarkTarget
<1>26. ASSUME NEW self \in Procs, CheckRefuses(self)  PROVE RollsAllBack
  BY <1>26 DEF CheckRefuses, Finish, ChecksTarget
<1>27. ASSUME NEW self \in Procs, CheckAlreadyNew(self)  PROVE RollsAllBack
  BY <1>27 DEF CheckAlreadyNew, ChecksTarget
<1>28. ASSUME NEW self \in Procs, CheckReplace(self)  PROVE RollsAllBack
  BY <1>28 DEF CheckReplace, ChecksTarget
<1>29. ASSUME NEW self \in Procs, SwapTarget(self)  PROVE RollsAllBack
  BY <1>29 DEF SwapTarget
<1>30. ASSUME NEW self \in Procs, MarkSuccess(self)  PROVE RollsAllBack
  BY <1>30 DEF MarkSuccess
<1>31. ASSUME NEW self \in Procs, JournalSuccess(self)  PROVE RollsAllBack
  BY <1>31 DEF JournalSuccess, At, WithTx, Locked, Unlocked, IInv, TypeOK, JobInv
<1>32. ASSUME NEW self \in Procs, MarkApplied(self)  PROVE RollsAllBack
  BY <1>32 DEF MarkApplied
<1>33. ASSUME NEW self \in Procs, JournalCompleted(self)  PROVE RollsAllBack
  BY <1>33 DEF JournalCompleted, At, WithTx, Locked, Unlocked, IInv, TypeOK, JobInv
<1>34. ASSUME NEW self \in Procs, RecordArtifact(self)  PROVE RollsAllBack
  BY <1>34 DEF RecordArtifact, Finish
<1>35. ASSUME NEW self \in Procs, RecordFails(self)  PROVE RollsAllBack
  BY <1>35 DEF RecordFails
<1>36. ASSUME NEW self \in Procs, BeginRollback(self)  PROVE RollsAllBack
  BY <1>36 DEF BeginRollback, Acquire
<1>37. ASSUME NEW self \in Procs, RollbackRefuses(self)  PROVE RollsAllBack
  BY <1>37 DEF RollbackRefuses, Finish
<1>38. ASSUME NEW self \in Procs, LockBusy(self)  PROVE RollsAllBack
  BY <1>38 DEF LockBusy, Finish
<1>39. ASSUME NEW self \in Procs, Fail(self)  PROVE RollsAllBack
  BY <1>39 DEF Fail, Finish
<1> QED
    BY <1>1, <1>2, <1>3, <1>4, <1>5, <1>6, <1>7, <1>8, <1>9, <1>10, <1>11,
     <1>12, <1>13, <1>14, <1>15, <1>16, <1>17, <1>18, <1>19, <1>20, <1>21,
     <1>22, <1>23, <1>24, <1>25, <1>26, <1>27, <1>28, <1>29, <1>30, <1>31,
     <1>32, <1>33, <1>34, <1>35, <1>36, <1>37, <1>38, <1>39
     DEF Next, LockedStep, CommandStep, Recovery, Restoring, Creating,
         Applying

(* A step that changes a target is a replacement or a restore, and finds there
   what the check before it has found, or an edit made since. *)
LEMMA DriftStep ==
    ASSUME IInv, [Next]_vars
    PROVE  OverwritesKnown
<1> USE DEF OverwritesKnown, targets, store, log, call, outside
<1>1. CASE UNCHANGED vars
  BY <1>1 DEF vars, targets, store, log, call, outside
<1>2. CASE Edit
  BY <1>2 DEF Edit, IInv, TypeOK
<1>3. ASSUME NEW self \in Procs, BeginRecover(self)  PROVE OverwritesKnown
  BY <1>3 DEF BeginRecover, Begin, Acquire
<1>4. ASSUME NEW self \in Procs, BeginCreate(self)  PROVE OverwritesKnown
  BY <1>4 DEF BeginCreate, Begin, Acquire
<1>5. ASSUME NEW self \in Procs, RecoverSkip(self)  PROVE OverwritesKnown
  BY <1>5 DEF RecoverSkip, Examines
<1>6. ASSUME NEW self \in Procs, RecoverForward(self)  PROVE OverwritesKnown
  BY <1>6 DEF RecoverForward, Examines
<1>7. ASSUME NEW self \in Procs, RecoverFinalize(self)  PROVE OverwritesKnown
  BY <1>7 DEF RecoverFinalize
<1>8. ASSUME NEW self \in Procs, RecoverBackward(self)  PROVE OverwritesKnown
  BY <1>8 DEF RecoverBackward, NeedsRollback, Examines
<1>9. ASSUME NEW self \in Procs, RecoverRefuses(self)  PROVE OverwritesKnown
  BY <1>9 DEF RecoverRefuses, Finish, NeedsRollback, Examines
<1>10. ASSUME NEW self \in Procs, RecoverDone(self)  PROVE OverwritesKnown
  BY <1>10 DEF RecoverDone, Finish
<1>11. ASSUME NEW self \in Procs, RestoreSkip(self)  PROVE OverwritesKnown
  BY <1>11 DEF RestoreSkip, RestoresTarget
<1>12. ASSUME NEW self \in Procs, RestoreChoose(self)  PROVE OverwritesKnown
  BY <1>12 DEF RestoreChoose, RestoresTarget
<1>13. ASSUME NEW self \in Procs, RestoreRefuses(self)  PROVE OverwritesKnown
  BY <1>13 DEF RestoreRefuses, Finish, RestoresTarget
<1>14. ASSUME NEW self \in Procs, RestoreUnlink(self)  PROVE OverwritesKnown
  <2>1. PICK p \in Paths : RestoreUnlink(self)!(p)
    BY <1>14 DEF RestoreUnlink
  <2>2. lock = self /\ p \in left[self] /\ left[self] \subseteq Targets(tx[self])
    BY <2>1 DEF IInv, LockInv, JobInv, Locked, RestoringPoints, ApplyingPoints,
                At, IsLast
  <2>3. p \notin dirty =>
          \/ file[p] \in {old[tx[self]][p], new[tx[self]][p]}
          \/ file[p] = Torn /\ At(self, "rewrite")
    BY <2>1, <2>2 DEF IInv, RestoreInv, RestoringPoints, ApplyingPoints, At
  <2>4. \A q \in Paths : q # p => file'[q] = file[q]
    BY <2>1 DEF IInv, TypeOK
  <2> QED
    BY <2>2, <2>3, <2>4
<1>15. ASSUME NEW self \in Procs, RestoreTruncate(self)  PROVE OverwritesKnown
  <2>1. PICK p \in Paths : RestoreTruncate(self)!(p)
    BY <1>15 DEF RestoreTruncate
  <2>2. lock = self /\ p \in left[self] /\ left[self] \subseteq Targets(tx[self])
    BY <2>1 DEF IInv, LockInv, JobInv, Locked, RestoringPoints, ApplyingPoints,
                At, IsLast
  <2>3. p \notin dirty =>
          \/ file[p] \in {old[tx[self]][p], new[tx[self]][p]}
          \/ file[p] = Torn /\ At(self, "rewrite")
    BY <2>1, <2>2 DEF IInv, RestoreInv, RestoringPoints, ApplyingPoints, At
  <2>4. \A q \in Paths : q # p => file'[q] = file[q]
    BY <2>1 DEF IInv, TypeOK
  <2> QED
    BY <2>2, <2>3, <2>4
<1>16. ASSUME NEW self \in Procs, RestoreRewrite(self)  PROVE OverwritesKnown
  <2>1. PICK p \in Paths : RestoreRewrite(self)!(p)
    BY <1>16 DEF RestoreRewrite
  <2>2. lock = self /\ p \in left[self] /\ left[self] \subseteq Targets(tx[self])
    BY <2>1 DEF IInv, LockInv, JobInv, Locked, RestoringPoints, ApplyingPoints,
                At, IsLast
  <2>3. p \notin dirty =>
          \/ file[p] \in {old[tx[self]][p], new[tx[self]][p]}
          \/ file[p] = Torn /\ At(self, "rewrite")
    BY <2>1, <2>2 DEF IInv, RestoreInv, RestoringPoints, ApplyingPoints, At
  <2>4. \A q \in Paths : q # p => file'[q] = file[q]
    BY <2>1 DEF IInv, TypeOK
  <2> QED
    BY <2>2, <2>3, <2>4
<1>17. ASSUME NEW self \in Procs, RollbackWritten(self)  PROVE OverwritesKnown
  BY <1>17 DEF RollbackWritten, Finish
<1>18. ASSUME NEW self \in Procs, CreateExists(self)  PROVE OverwritesKnown
  BY <1>18 DEF CreateExists, Finish
<1>19. ASSUME NEW self \in Procs, MakeDirectory(self)  PROVE OverwritesKnown
  BY <1>19 DEF MakeDirectory
<1>20. ASSUME NEW self \in Procs, HashTarget(self)  PROVE OverwritesKnown
  BY <1>20 DEF HashTarget
<1>21. ASSUME NEW self \in Procs, BackupTarget(self)  PROVE OverwritesKnown
  BY <1>21 DEF BackupTarget
<1>22. ASSUME NEW self \in Procs, BackupUnreadable(self)  PROVE OverwritesKnown
  BY <1>22 DEF BackupUnreadable, Finish
<1>23. ASSUME NEW self \in Procs, WriteInitialJournal(self)
       PROVE  OverwritesKnown
  BY <1>23 DEF WriteInitialJournal
<1>24. ASSUME NEW self \in Procs, BeginApply(self)  PROVE OverwritesKnown
  BY <1>24 DEF BeginApply, Acquire
<1>25. ASSUME NEW self \in Procs, MarkTarget(self)  PROVE OverwritesKnown
  BY <1>25 DEF MarkTarget
<1>26. ASSUME NEW self \in Procs, CheckRefuses(self)  PROVE OverwritesKnown
  BY <1>26 DEF CheckRefuses, Finish, ChecksTarget
<1>27. ASSUME NEW self \in Procs, CheckAlreadyNew(self)  PROVE OverwritesKnown
  BY <1>27 DEF CheckAlreadyNew, ChecksTarget
<1>28. ASSUME NEW self \in Procs, CheckReplace(self)  PROVE OverwritesKnown
  BY <1>28 DEF CheckReplace, ChecksTarget
<1>29. ASSUME NEW self \in Procs, SwapTarget(self)  PROVE OverwritesKnown
  <2>1. PICK p \in Paths : SwapTarget(self)!(p)
    BY <1>29 DEF SwapTarget
  <2>2. lock = self /\ p \in left[self] /\ left[self] \subseteq Targets(tx[self])
    BY <2>1 DEF IInv, LockInv, JobInv, Locked, RestoringPoints, ApplyingPoints,
                At, IsFirst
  <2>3. p \notin dirty =>
          \/ file[p] \in {old[tx[self]][p], new[tx[self]][p]}
          \/ file[p] = Torn /\ At(self, "rewrite")
    BY <2>1, <2>2 DEF IInv, ApplyInv, RestoringPoints, ApplyingPoints, At
  <2>4. \A q \in Paths : q # p => file'[q] = file[q]
    BY <2>1 DEF IInv, TypeOK
  <2> QED
    BY <2>2, <2>3, <2>4
<1>30. ASSUME NEW self \in Procs, MarkSuccess(self)  PROVE OverwritesKnown
  BY <1>30 DEF MarkSuccess
<1>31. ASSUME NEW self \in Procs, JournalSuccess(self)  PROVE OverwritesKnown
  BY <1>31 DEF JournalSuccess
<1>32. ASSUME NEW self \in Procs, MarkApplied(self)  PROVE OverwritesKnown
  BY <1>32 DEF MarkApplied
<1>33. ASSUME NEW self \in Procs, JournalCompleted(self)  PROVE OverwritesKnown
  BY <1>33 DEF JournalCompleted
<1>34. ASSUME NEW self \in Procs, RecordArtifact(self)  PROVE OverwritesKnown
  BY <1>34 DEF RecordArtifact, Finish
<1>35. ASSUME NEW self \in Procs, RecordFails(self)  PROVE OverwritesKnown
  BY <1>35 DEF RecordFails
<1>36. ASSUME NEW self \in Procs, BeginRollback(self)  PROVE OverwritesKnown
  BY <1>36 DEF BeginRollback, Acquire
<1>37. ASSUME NEW self \in Procs, RollbackRefuses(self)  PROVE OverwritesKnown
  BY <1>37 DEF RollbackRefuses, Finish
<1>38. ASSUME NEW self \in Procs, LockBusy(self)  PROVE OverwritesKnown
  BY <1>38 DEF LockBusy, Finish
<1>39. ASSUME NEW self \in Procs, Fail(self)  PROVE OverwritesKnown
  BY <1>39 DEF Fail, Finish
<1> QED
    BY <1>1, <1>2, <1>3, <1>4, <1>5, <1>6, <1>7, <1>8, <1>9, <1>10, <1>11,
     <1>12, <1>13, <1>14, <1>15, <1>16, <1>17, <1>18, <1>19, <1>20, <1>21,
     <1>22, <1>23, <1>24, <1>25, <1>26, <1>27, <1>28, <1>29, <1>30, <1>31,
     <1>32, <1>33, <1>34, <1>35, <1>36, <1>37, <1>38, <1>39
     DEF Next, LockedStep, CommandStep, Recovery, Restoring, Creating,
         Applying

(* The initial states satisfy the inductive invariant: nothing runs. *)
LEMMA InitIInv == Init => IInv
<1> SUFFICES ASSUME Init  PROVE IInv
  OBVIOUS
<1> USE NumberAssumption, SentinelAssumption, BatchAssumption DEF Init
<1>1. TypeOK
  BY DEF TypeOK, Value, JournalStates, Locked, Unlocked
<1>2. LockInv
  BY DEF LockInv, Locked
<1>3. JobInv
  BY DEF JobInv, WithTx, Locked, Unlocked, RestoringPoints, ApplyingPoints
<1>4. DirInv /\ ApplyInv /\ RestoreInv /\ CreateInv
  BY DEF DirInv, ApplyInv, RestoreInv, CreateInv, WithTx, Locked, Unlocked,
         RestoringPoints, ApplyingPoints
<1>5. BackupsMatch /\ SettleInv
  BY DEF BackupsMatch, SettleInv, Recovering
<1> QED
  BY <1>1, <1>2, <1>3, <1>4, <1>5 DEF IInv

(* The inductive invariant is kept by every step. *)
LEMMA StepIInv == IInv /\ [Next]_vars => IInv'
<1> SUFFICES ASSUME IInv, [Next]_vars  PROVE IInv'
  OBVIOUS
<1> QED
  BY TypeStep, LockStep, JobStep, DirStep, ApplyStep, RestoreStep, CreateStep,
     BackupsStep, SettleStep, NumberAssumption, BatchAssumption DEF IInv

(* Every reachable state satisfies the inductive invariant. *)
THEOREM Invariance == Spec => []IInv
<1> QED
  BY InitIInv, StepIInv, PTL DEF Spec

(* Every variable keeps its type, for any number of processes, transactions,
   targets, edits and failures. *)
THEOREM TypeCorrect == Spec => []TypeOK
<1>1. IInv => TypeOK
  BY DEF IInv
<1> QED
  BY <1>1, Invariance, PTL

(* Once a journal exists every backup it names is there and is what the record
   says, whatever other processes do between the two reads of a target and
   whatever fails, as long as no editor runs. *)
THEOREM BackupsCorrect == Spec => []BackupsMatch
<1>1. IInv => BackupsMatch
  BY DEF IInv
<1> QED
  BY <1>1, Invariance, PTL

(* A recovery pass leaves nothing half done behind it, also when several
   processes recover, create and fail. *)
THEOREM RecoveryCorrect == Spec => []RecoverySettles
<1>1. IInv => RecoverySettles
  BY NumberAssumption DEF IInv, SettleInv, RecoverySettles, Recovering,
         JobInv, WithTx, Locked, Unlocked, TypeOK
<1> QED
  BY <1>1, Invariance, PTL

(* The success marker is a commit point: whoever writes it has put the new
   bytes on every target nobody edited meanwhile. *)
THEOREM CommitCorrect == Spec => CommitPoint
<1>1. IInv /\ [Next]_vars => [CommitsAllNew]_vars
  BY CommitStep
<1> QED
  BY <1>1, Invariance, PTL DEF Spec, CommitPoint

(* A transaction is called rolled back only when every target nobody edited
   meanwhile holds its old bytes again. *)
THEOREM RollbackCorrect == Spec => RollbackRestores
<1>1. IInv /\ [Next]_vars => [RollsAllBack]_vars
  BY RolledBackStep
<1> QED
  BY <1>1, Invariance, PTL DEF Spec, RollbackRestores

(* What a later recovery takes from the disk as true was true when it was
   written: of any transaction, whatever other processes did meanwhile. *)
THEOREM MarkersCorrect == Spec => MarkersTrue
BY CommitCorrect, RollbackCorrect DEF MarkersTrue

(* No step of the library overwrites a change made to a target before the step's
   locked section began, unless its own record names those bytes. *)
THEOREM DriftCorrect == Spec => DriftPreserved
<1>1. IInv /\ [Next]_vars => [OverwritesKnown]_vars
  BY DriftStep
<1> QED
  BY <1>1, Invariance, PTL DEF Spec, DriftPreserved

-----------------------------------------------------------------------------
(***************************************************************************)
(* A single transaction, in a behaviour nobody edits a target in: whatever *)
(* its processes do and wherever they are stopped, the disk can be put     *)
(* right, and the journal implements the atomic batch.  The hypothesis     *)
(* Txs = {t} is needed: with two, a transaction another process has rolled *)
(* back may be applied, or one taken back, over the targets of the other.  *)
(***************************************************************************)

CreatorPoints == {"hash", "stage", "created", "mark", "check", "swap", "success",
                  "event", "complete", "applied", "undo"}

\* A process that has made the directory of its transaction works on it alone.
Creates(self) ==
    \/ pc[self] \in CreatorPoints
    \/ pc[self] \in RestoringPoints /\ cmd[self] = "rollback"

OwnInv ==
    /\ \A self, q \in Procs :
          self # q /\ Creates(self) /\ Creates(q) => tx[self] # tx[q]
    /\ \A t \in dir : new[t] \in Batches
    /\ \A t \in Txs \ dir : t \notin success /\ \A p \in Paths : new[t][p] = Keep
    /\ \A t \in Txs : \A p \in Paths \ Targets(t) : old[t][p] = Absent
    /\ edits = 0 => dirty = {}

Pending(t) == journal[t] \notin {"none", "rolled_back"}

\* What the disk says of the targets, whoever was stopped where.
DiskInv ==
    /\ \A t \in Txs, p \in Paths : old[t][p] # Torn
    /\ \A p \in Paths : file[p] = Torn =>
          \E t \in Txs : journal[t] # "none" /\ p \in Targets(t)
    /\ \A t \in Txs : journal[t] # "none" => \A p \in Targets(t) :
          /\ file[p] \in {old[t][p], new[t][p], Torn}
          /\ journal[t] = "rolled_back" => file[p] = old[t][p]
          /\ Replaced(t, p) =>
                p <= next[t] /\ \A q \in Targets(t) : q < p => file[q] = new[t][q]

\* Before apply begins nothing is replaced; while it runs, nothing ahead of it;
\* from its success marker on, everything, until it is taken back.
Ahead(self, t) ==
    /\ pc[self] \in {"hash", "stage"} =>
          t \notin success /\ \A p \in Targets(t) \ left[self] : file[p] = old[t][p]
    /\ pc[self] = "created" =>
          t \notin success /\ \A p \in Targets(t) : ~Replaced(t, p)
    /\ pc[self] \in ApplyingPoints =>
          /\ t \notin success /\ Pending(t)
          /\ \A p \in left[self] : ~Replaced(t, p)
          /\ \A p \in Targets(t) \ left[self] :
                p <= next[t] /\ \A q \in left[self] : p < q
    /\ pc[self] \in {"check", "swap"} => IsFirst(next[t], left[self])
    /\ pc[self] \in {"success", "event", "complete", "applied", "undo", "finalize"} =>
          ValidSuccess(t) /\ Pending(t)

\* A restore goes backward; that of a recovery finds a target it does not touch.
Backward(self, t) ==
    pc[self] \in RestoringPoints =>
        /\ Pending(t)
        /\ \A p \in left[self], q \in Targets(t) : q < p => q \in left[self]
        /\ \/ cmd[self] = "rollback"
           \/ t \notin success
           \/ \E p \in Targets(t) : file[p] = old[t][p] /\ old[t][p] # new[t][p]

\* A conflict is over a torn target, which nobody restores any more.
StuckInv ==
    (\E self \in Procs : outcome[self] = "conflict") =>
        /\ \E p \in Paths : file[p] = Torn
        /\ \A self \in Procs : pc[self] \notin RestoringPoints

ProcsInv == \A self \in Procs : Ahead(self, tx[self]) /\ Backward(self, tx[self])

CrashFree == DiskInv /\ StuckInv /\ ProcsInv

CrashInv == edits = 0 => CrashFree

(* A set of paths has one first member. *)
LEMMA FirstUnique ==
    ASSUME NEW S \in SUBSET Paths, NEW p, NEW q, IsFirst(p, S), IsFirst(q, S)
    PROVE  p = q
BY NumberAssumption DEF IsFirst

(* Passing the first member of a final segment leaves a final segment. *)
LEMMA FirstPassed ==
    ASSUME NEW T \in SUBSET Paths, NEW S \in SUBSET T, NEW p, IsFirst(p, S),
           \A q \in T \ S : \A r \in S : q < r
    PROVE  \A q \in T \ (S \ {p}) : q <= p /\ \A r \in S \ {p} : q < r
<1>1. p \in Nat /\ \A q \in T : q \in Nat
  BY NumberAssumption DEF IsFirst
<1>2. \A r \in S \ {p} : p < r
  BY <1>1 DEF IsFirst
<1>3. \A q \in T \ S : q <= p /\ \A r \in S \ {p} : q < r
  BY <1>1 DEF IsFirst
<1> QED
  BY <1>1, <1>2, <1>3

(* With a single transaction, the process that works on it alone finds every
   other one idle, unless one of those holds the lock. *)
LEMMA Alone ==
    ASSUME NEW t \in Txs, Txs = {t}, TypeOK, LockInv, JobInv, OwnInv,
           NEW self \in Procs, \A q \in Procs \ {self} : lock # q, Creates(self)
    PROVE  \A q \in Procs \ {self} : pc[q] = "idle"
<1> SUFFICES ASSUME NEW q \in Procs \ {self}, pc[q] # "idle"  PROVE FALSE
  OBVIOUS
<1>1. pc[q] \in Unlocked
  BY DEF LockInv, TypeOK
<1>2. Creates(q)
  BY <1>1 DEF Creates, CreatorPoints, Unlocked
<1>3. tx[q] = t /\ tx[self] = t
  BY <1>2 DEF JobInv, WithTx, Locked, Unlocked, Creates, CreatorPoints,
             RestoringPoints
<1> QED
  BY <1>2, <1>3 DEF OwnInv

DiskStill == UNCHANGED <<file, new, old, journal, next, success>>

\* A step of self leaves every other process where it was.
Untouched(self) ==
    \A q \in Procs \ {self} :
        /\ pc'[q] = pc[q] /\ cmd'[q] = cmd[q] /\ tx'[q] = tx[q]
        /\ left'[q] = left[q] /\ outcome'[q] = outcome[q]

\* What a step of self owes the invariant for itself.
SelfKept(self) == (Ahead(self, tx[self]))' /\ (Backward(self, tx[self]))'

(* A step that leaves the disk alone has only its own process to answer for. *)
LEMMA QuietStep ==
    ASSUME DiskInv, ProcsInv, NEW self \in Procs, DiskStill, Untouched(self),
           SelfKept(self)
    PROVE  DiskInv' /\ ProcsInv'
<1>1. DiskInv'
  BY DEF DiskInv, DiskStill, Targets, Replaced
<1>2. ASSUME NEW q \in Procs \ {self}
      PROVE  (Ahead(q, tx[q]))' /\ (Backward(q, tx[q]))'
  <2>1. Ahead(q, tx[q]) /\ Backward(q, tx[q])
    BY DEF ProcsInv
  <2>2. /\ DiskStill /\ pc'[q] = pc[q] /\ cmd'[q] = cmd[q]
        /\ tx'[q] = tx[q] /\ left'[q] = left[q]
    BY DEF Untouched
  <2>3. (Ahead(q, tx[q]))'
    BY <2>1, <2>2 DEF Ahead, DiskStill, Targets, Replaced, Pending,
                      ValidSuccess, ApplyingPoints, IsFirst
  <2>4. (Backward(q, tx[q]))'
    BY <2>1, <2>2 DEF Backward, DiskStill, Targets, Pending, RestoringPoints
  <2> QED  BY <2>3, <2>4
<1> QED
  BY <1>1, <1>2 DEF ProcsInv, SelfKept

(* A step of the only process that is not idle has only itself to answer for,
   whatever it does to the disk. *)
LEMMA AloneStep ==
    ASSUME NEW self \in Procs, Untouched(self), SelfKept(self),
           \A q \in Procs \ {self} : pc[q] = "idle"
    PROVE  ProcsInv'
<1>1. \A q \in Procs \ {self} : (Ahead(q, tx[q]))' /\ (Backward(q, tx[q]))'
  BY DEF Untouched, Ahead, Backward, ApplyingPoints, RestoringPoints
<1> QED
  BY <1>1 DEF ProcsInv, SelfKept

(* A process outside apply, restore and create owes nothing. *)
LEMMA NothingOwed ==
    ASSUME NEW self \in Procs, pc'[self] \in {"idle", "recover", "mkdir"}
    PROVE  SelfKept(self)
BY DEF SelfKept, Ahead, Backward, ApplyingPoints, RestoringPoints

(* Nobody is told of a new conflict, and nobody begins to restore. *)
LEMMA StuckKept ==
    ASSUME StuckInv, NEW self \in Procs, Untouched(self),
           \A p \in Paths : file[p] = Torn => file'[p] = Torn,
           outcome'[self] = "conflict" => outcome[self] = "conflict",
           pc'[self] \in RestoringPoints => pc[self] \in RestoringPoints
    PROVE  StuckInv'
<1> SUFFICES ASSUME NEW r \in Procs, outcome'[r] = "conflict"  PROVE StuckInv'
  BY DEF StuckInv
<1>1. \E s \in Procs : outcome[s] = "conflict"
  BY DEF Untouched
<1>2. PICK p \in Paths : file[p] = Torn
  BY <1>1 DEF StuckInv
<1>3. \A s \in Procs : pc[s] \notin RestoringPoints
  BY <1>1 DEF StuckInv
<1> QED
  BY <1>2, <1>3 DEF StuckInv, Untouched

(* While a process restores, nobody has been told of a conflict. *)
LEMMA StuckFree ==
    ASSUME StuckInv, NEW self \in Procs, Untouched(self),
           pc[self] \in RestoringPoints,
           outcome'[self] = "conflict" => outcome[self] = "conflict"
    PROVE  StuckInv'
BY DEF StuckInv, Untouched

(* While a process restores, no other one has applied or is applying. *)
LEMMA RestoresAlone ==
    ASSUME NEW t \in Txs, Txs = {t}, TypeOK, LockInv, JobInv, OwnInv, ProcsInv,
           SentinelAssumption, NEW self \in Procs, pc[self] \in RestoringPoints
    PROVE  \A q \in Procs \ {self} : pc[q] \in {"idle", "created"}
<1>1. lock = self /\ tx[self] = t
  BY DEF LockInv, JobInv, WithTx, Locked, Unlocked, RestoringPoints
<1>2. CASE cmd[self] = "rollback"
  <2>1. \A q \in Procs \ {self} : lock # q
    BY <1>1
  <2> QED
    BY <1>2, <2>1, Alone DEF Creates
<1>3. CASE cmd[self] # "rollback"
  <2>1. ~ValidSuccess(t)
    BY <1>1, <1>3 DEF ProcsInv, Backward, ValidSuccess
  <2> SUFFICES ASSUME NEW q \in Procs \ {self}  PROVE pc[q] \in {"idle", "created"}
    OBVIOUS
  <2>2. pc[q] \in Unlocked
    BY <1>1 DEF LockInv, TypeOK
  <2>3. pc[q] \in {"applied", "undo"} => tx[q] = t
    BY DEF JobInv, WithTx, Locked, Unlocked
  <2> QED
    BY <2>1, <2>2, <2>3 DEF ProcsInv, Ahead, Unlocked
<1> QED  BY <1>2, <1>3

(* Targets that can be restored are not torn. *)
LEMMA NotTorn ==
    ASSUME NEW t \in Txs, Txs = {t}, TypeOK, DiskInv, SentinelAssumption, Restorable(t)
    PROVE  \A p \in Paths : file[p] # Torn
<1> SUFFICES ASSUME NEW p \in Paths, file[p] = Torn  PROVE FALSE
  OBVIOUS
<1>1. p \in Targets(t) /\ old[t][p] # Torn
  BY DEF DiskInv
<1>2. new[t][p] \in Contents
  BY <1>1 DEF Targets, TypeOK
<1> QED
  BY <1>1, <1>2 DEF Restorable, SentinelAssumption

(* Without a torn target nobody has been told of a conflict. *)
LEMMA StuckNone ==
    ASSUME StuckInv, NEW self \in Procs, Untouched(self),
           \A p \in Paths : file[p] # Torn,
           outcome'[self] = "conflict" => outcome[self] = "conflict"
    PROVE  StuckInv'
BY DEF StuckInv, Untouched

(* A process that holds the lock is told of a conflict over a torn target. *)
LEMMA StuckNow ==
    ASSUME StuckInv, LockInv, NEW self \in Procs, Untouched(self), lock = self,
           pc'[self] \notin RestoringPoints, file' = file,
           \E p \in Paths : file[p] = Torn
    PROVE  StuckInv'
<1>1. \A q \in Procs \ {self} : pc'[q] \notin RestoringPoints
  BY DEF LockInv, Untouched, Locked, RestoringPoints
<1> QED
  BY <1>1 DEF StuckInv

(* No two processes get the same directory, and a process keeps its own. *)
LEMMA OwnStep ==
    ASSUME TypeOK, LockInv, JobInv, DirInv, OwnInv, NumberAssumption,
           SentinelAssumption, BatchAssumption, [Next]_vars
    PROVE  OwnInv'
<1> USE DEF TypeOK, JobInv, OwnInv, Creates, CreatorPoints, Targets, targets,
          store, log, call, outside, At, Goto, Locked, Unlocked, WithTx,
          RestoringPoints, ApplyingPoints
<1>1. CASE UNCHANGED vars
  BY <1>1 DEF vars, targets, store, log, call, outside
<1>2. CASE Edit
  BY <1>2 DEF Edit, store, log, call
<1>3. ASSUME NEW self \in Procs, BeginRecover(self)  PROVE OwnInv'
  BY <1>3 DEF BeginRecover, Begin, Acquire
<1>4. ASSUME NEW self \in Procs, BeginCreate(self)  PROVE OwnInv'
  BY <1>4 DEF BeginCreate, Begin, Acquire
<1>5. ASSUME NEW self \in Procs, RecoverSkip(self)  PROVE OwnInv'
  BY <1>5 DEF RecoverSkip, Examines
<1>6. ASSUME NEW self \in Procs, RecoverForward(self)  PROVE OwnInv'
  BY <1>6 DEF RecoverForward, Examines
<1>7. ASSUME NEW self \in Procs, RecoverFinalize(self)  PROVE OwnInv'
  BY <1>7 DEF RecoverFinalize
<1>8. ASSUME NEW self \in Procs, RecoverBackward(self)  PROVE OwnInv'
  <2>1. PICK t \in Txs : /\ At(self, "recover") /\ tx' = [tx EXCEPT ![self] = t]
                         /\ Goto(self, "restore")
                         /\ UNCHANGED <<targets, store, log, cmd, own, dirty, outside>>
    BY <1>8 DEF RecoverBackward, NeedsRollback, Examines
  <2> QED
    BY <2>1
<1>9. ASSUME NEW self \in Procs, RecoverRefuses(self)  PROVE OwnInv'
  BY <1>9 DEF RecoverRefuses, Finish, NeedsRollback, Examines
<1>10. ASSUME NEW self \in Procs, RecoverDone(self)  PROVE OwnInv'
  BY <1>10 DEF RecoverDone, Finish
<1>11. ASSUME NEW self \in Procs, RestoreSkip(self)  PROVE OwnInv'
  BY <1>11 DEF RestoreSkip, RestoresTarget
<1>12. ASSUME NEW self \in Procs, RestoreChoose(self)  PROVE OwnInv'
  BY <1>12 DEF RestoreChoose, RestoresTarget
<1>13. ASSUME NEW self \in Procs, RestoreRefuses(self)  PROVE OwnInv'
  BY <1>13 DEF RestoreRefuses, Finish, RestoresTarget
<1>14. ASSUME NEW self \in Procs, RestoreUnlink(self)  PROVE OwnInv'
  BY <1>14 DEF RestoreUnlink
<1>15. ASSUME NEW self \in Procs, RestoreTruncate(self)  PROVE OwnInv'
  BY <1>15 DEF RestoreTruncate
<1>16. ASSUME NEW self \in Procs, RestoreRewrite(self)  PROVE OwnInv'
  BY <1>16 DEF RestoreRewrite
<1>17. ASSUME NEW self \in Procs, RollbackWritten(self)  PROVE OwnInv'
  <2>1. CASE cmd[self] = "rollback"
    <3>1. /\ UNCHANGED <<new, old, dir, success, edits, dirty>> /\ pc'[self] = "idle"
          /\ \A q \in Procs : q # self =>
                pc'[q] = pc[q] /\ cmd'[q] = cmd[q] /\ tx'[q] = tx[q]
      BY <1>17, <2>1 DEF RollbackWritten, Finish
    <3> QED  BY <3>1
  <2>2. CASE cmd[self] # "rollback"
    BY <1>17, <2>2 DEF RollbackWritten
  <2> QED  BY <2>1, <2>2
<1>18. ASSUME NEW self \in Procs, CreateExists(self)  PROVE OwnInv'
  BY <1>18 DEF CreateExists, Finish
<1>19. ASSUME NEW self \in Procs, MakeDirectory(self)  PROVE OwnInv'
  <2>1. PICK b \in Batches :
          /\ new' = [new EXCEPT ![own[self]] = b]
          /\ left' = [left EXCEPT ![self] = {p \in Paths : b[p] # Keep}]
    BY <1>19 DEF MakeDirectory
  <2>2. own[self] \in Txs \ dir /\ dir' = dir \cup {own[self]}
    BY <1>19 DEF MakeDirectory
  <2>3. \A q \in Procs : Creates(q) => tx[q] \in dir
    BY DEF DirInv, WithTx, Locked, Unlocked
  <2>4. \A q \in Procs : q # self => (Creates(q))' = Creates(q) /\ tx'[q] = tx[q]
    BY <1>19 DEF MakeDirectory
  <2>5. tx'[self] = own[self]
    BY <1>19 DEF MakeDirectory
  <2>6. \A q, r \in Procs : q # r /\ (Creates(q))' /\ (Creates(r))' => tx'[q] # tx'[r]
    BY <2>2, <2>3, <2>4, <2>5
  <2>7. \A t \in Txs : t # own[self] => new'[t] = new[t]
    BY <2>1
  <2>8. \A t \in dir' : new'[t] \in Batches
    BY <2>1, <2>2, <2>7
  <2>9. UNCHANGED <<old, success, edits, dirty>>
    BY <1>19 DEF MakeDirectory
  <2> QED
    BY <2>2, <2>6, <2>7, <2>8, <2>9
<1>20. ASSUME NEW self \in Procs, HashTarget(self)  PROVE OwnInv'
  <2>1. PICK p \in Paths : HashTarget(self)!(p)
    BY <1>20 DEF HashTarget
  <2>2. tx[self] \in Txs /\ p \in Targets(tx[self])
    BY <2>1 DEF IsFirst
  <2>3. \A t \in Txs, q \in Paths :
          old'[t][q] = IF t = tx[self] /\ q = p THEN file[p] ELSE old[t][q]
    BY <2>1, <2>2
  <2>4. \A q \in Procs : (Creates(q))' => Creates(q) /\ tx'[q] = tx[q]
    BY <2>1
  <2> QED
    BY <2>1, <2>2, <2>3, <2>4
<1>21. ASSUME NEW self \in Procs, BackupTarget(self)  PROVE OwnInv'
  BY <1>21 DEF BackupTarget
<1>22. ASSUME NEW self \in Procs, BackupUnreadable(self)  PROVE OwnInv'
  BY <1>22 DEF BackupUnreadable, Finish
<1>23. ASSUME NEW self \in Procs, WriteInitialJournal(self)  PROVE OwnInv'
  BY <1>23 DEF WriteInitialJournal
<1>24. ASSUME NEW self \in Procs, BeginApply(self)  PROVE OwnInv'
  BY <1>24 DEF BeginApply, Acquire
<1>25. ASSUME NEW self \in Procs, MarkTarget(self)  PROVE OwnInv'
  BY <1>25 DEF MarkTarget
<1>26. ASSUME NEW self \in Procs, CheckRefuses(self)  PROVE OwnInv'
  BY <1>26 DEF CheckRefuses, Finish, ChecksTarget
<1>27. ASSUME NEW self \in Procs, CheckAlreadyNew(self)  PROVE OwnInv'
  BY <1>27 DEF CheckAlreadyNew, ChecksTarget
<1>28. ASSUME NEW self \in Procs, CheckReplace(self)  PROVE OwnInv'
  BY <1>28 DEF CheckReplace, ChecksTarget
<1>29. ASSUME NEW self \in Procs, SwapTarget(self)  PROVE OwnInv'
  BY <1>29 DEF SwapTarget
<1>30. ASSUME NEW self \in Procs, MarkSuccess(self)  PROVE OwnInv'
  <2>1. tx[self] \in dir
    BY <1>30 DEF MarkSuccess, DirInv, Locked, Unlocked, WithTx
  <2> QED
    BY <1>30, <2>1 DEF MarkSuccess
<1>31. ASSUME NEW self \in Procs, JournalSuccess(self)  PROVE OwnInv'
  BY <1>31 DEF JournalSuccess
<1>32. ASSUME NEW self \in Procs, MarkApplied(self)  PROVE OwnInv'
  BY <1>32 DEF MarkApplied
<1>33. ASSUME NEW self \in Procs, JournalCompleted(self)  PROVE OwnInv'
  BY <1>33 DEF JournalCompleted
<1>34. ASSUME NEW self \in Procs, RecordArtifact(self)  PROVE OwnInv'
  BY <1>34 DEF RecordArtifact, Finish
<1>35. ASSUME NEW self \in Procs, RecordFails(self)  PROVE OwnInv'
  BY <1>35 DEF RecordFails
<1>36. ASSUME NEW self \in Procs, BeginRollback(self)  PROVE OwnInv'
  BY <1>36 DEF BeginRollback, Acquire
<1>37. ASSUME NEW self \in Procs, RollbackRefuses(self)  PROVE OwnInv'
  BY <1>37 DEF RollbackRefuses, Finish
<1>38. ASSUME NEW self \in Procs, LockBusy(self)  PROVE OwnInv'
  BY <1>38 DEF LockBusy, Finish
<1>39. ASSUME NEW self \in Procs, Fail(self)  PROVE OwnInv'
  BY <1>39 DEF Fail, Finish
<1> QED
    BY <1>1, <1>2, <1>3, <1>4, <1>5, <1>6, <1>7, <1>8, <1>9, <1>10,
     <1>11, <1>12, <1>13, <1>14, <1>15, <1>16, <1>17, <1>18, <1>19,
     <1>20, <1>21, <1>22, <1>23, <1>24, <1>25, <1>26, <1>27, <1>28,
     <1>29, <1>30, <1>31, <1>32, <1>33, <1>34, <1>35, <1>36, <1>37,
     <1>38, <1>39
     DEF Next, LockedStep, CommandStep, Recovery, Restoring, Creating,
         Applying

(* Every step of an edit-free behaviour leaves a disk that can be put right. *)
LEMMA CrashStep ==
    ASSUME NEW t \in Txs, Txs = {t}, IInv, OwnInv, CrashFree,
           edits = 0, edits' = 0, [Next]_vars
    PROVE  CrashFree'
<1>a. /\ TypeOK /\ LockInv /\ JobInv /\ DirInv /\ ApplyInv /\ RestoreInv
      /\ CreateInv /\ BackupsMatch
  BY DEF IInv
<1>b. dirty = {}
  BY DEF OwnInv
<1>c. DiskInv /\ StuckInv /\ ProcsInv
  BY DEF CrashFree
<1>d. \A q \in Procs : pc[q] \in WithTx => tx[q] = t
  BY <1>a DEF JobInv
<1> USE <1>a, <1>b, NumberAssumption, SentinelAssumption
<1> USE DEF TypeOK, targets, store, log, call, outside, At, Goto, Locked, Unlocked
<1>1. CASE UNCHANGED vars
  BY <1>1 DEF vars, CrashFree, DiskInv, StuckInv, ProcsInv, Ahead, Backward,
              Targets, Replaced, Pending, ValidSuccess, ApplyingPoints,
              RestoringPoints, IsFirst
<1>2. CASE Edit
  BY <1>2 DEF Edit
<1>3. ASSUME NEW self \in Procs, BeginRecover(self)  PROVE CrashFree'
  <2>1. /\ DiskStill /\ Untouched(self) /\ pc'[self] \in {"idle", "recover", "mkdir"}
        /\ outcome'[self] = "conflict" => outcome[self] = "conflict"
    BY <1>3 DEF BeginRecover, Begin, Acquire, DiskStill, Untouched
  <2> QED
    BY <2>1, NothingOwed, QuietStep, StuckKept
       DEF CrashFree, DiskStill, RestoringPoints
<1>4. ASSUME NEW self \in Procs, BeginCreate(self)  PROVE CrashFree'
  <2>1. /\ DiskStill /\ Untouched(self) /\ pc'[self] \in {"idle", "recover", "mkdir"}
        /\ outcome'[self] = "conflict" => outcome[self] = "conflict"
    BY <1>4 DEF BeginCreate, Begin, Acquire, DiskStill, Untouched
  <2> QED
    BY <2>1, NothingOwed, QuietStep, StuckKept
       DEF CrashFree, DiskStill, RestoringPoints
<1>5. ASSUME NEW self \in Procs, RecoverSkip(self)  PROVE CrashFree'
  <2>1. /\ DiskStill /\ Untouched(self) /\ pc'[self] \in {"idle", "recover", "mkdir"}
        /\ outcome'[self] = "conflict" => outcome[self] = "conflict"
    BY <1>5 DEF RecoverSkip, Examines, DiskStill, Untouched
  <2> QED
    BY <2>1, NothingOwed, QuietStep, StuckKept
       DEF CrashFree, DiskStill, RestoringPoints
<1>6. ASSUME NEW self \in Procs, RecoverForward(self)  PROVE CrashFree'
  <2>1. /\ DiskStill /\ Untouched(self) /\ outcome' = outcome
    BY <1>6 DEF RecoverForward, Examines, DiskStill, Untouched
  <2>2. SelfKept(self)
    BY <1>6, <2>1 DEF RecoverForward, Examines, DiskStill, SelfKept, Ahead, Backward, Targets, Replaced, Pending,
                    ValidSuccess, ApplyingPoints, RestoringPoints, IsFirst, IsLast
  <2> QED
    BY <2>1, <2>2, QuietStep, StuckKept, <1>6
       DEF RecoverForward, Examines, CrashFree, DiskStill, RestoringPoints
<1>7. ASSUME NEW self \in Procs, RecoverFinalize(self)  PROVE CrashFree'
  <2>1. tx[self] = t /\ pc[self] = "finalize" /\ lock = self
    BY <1>7, <1>d DEF RecoverFinalize, WithTx, LockInv
  <2>2. ValidSuccess(t) /\ Pending(t)
    BY <2>1, <1>c DEF ProcsInv, Ahead
  <2>3. /\ UNCHANGED <<file, new, old, next, success, outcome>> /\ Untouched(self)
        /\ pc'[self] = "recover" /\ journal'[t] = "completed"
    BY <1>7, <2>1 DEF RecoverFinalize, Untouched
  <2>4. DiskInv'
    BY <2>2, <2>3, <1>c DEF DiskInv, Pending, Targets, Replaced
  <2>5. StuckInv'
    BY <2>3, <1>c, StuckKept DEF RestoringPoints
  <2>6. ASSUME NEW q \in Procs \ {self}
        PROVE  (Ahead(q, tx[q]))' /\ (Backward(q, tx[q]))'
    <3>1. pc[q] \in Unlocked /\ (pc[q] # "idle" => tx[q] = t)
      BY <2>1, <1>d DEF LockInv, WithTx
    <3>2. pc[q] # "created"
      BY <3>1, <2>2, <1>c DEF ProcsInv, Ahead, ValidSuccess
    <3>3. pc'[q] \in {"idle", "applied", "undo"} /\ (pc'[q] # "idle" => tx'[q] = t)
      BY <3>1, <3>2, <2>3 DEF Untouched
    <3>4. (ValidSuccess(t))' /\ (Pending(t))'
      BY <2>2, <2>3 DEF ValidSuccess, Pending, Targets
    <3> QED
      BY <3>3, <3>4 DEF Ahead, Backward, ApplyingPoints, RestoringPoints
  <2> QED
    BY <2>3, <2>4, <2>5, <2>6, NothingOwed DEF CrashFree, ProcsInv, SelfKept
<1>8. ASSUME NEW self \in Procs, RecoverBackward(self)  PROVE CrashFree'
  <2>1. /\ DiskStill /\ Untouched(self) /\ outcome' = outcome
    BY <1>8 DEF RecoverBackward, NeedsRollback, Examines, DiskStill, Untouched
  <2>2. SelfKept(self)
    <3>1. /\ tx'[self] = t /\ left'[self] = Targets(t) /\ pc'[self] = "restore"
          /\ Pending(t) /\ ~ValidSuccess(t) /\ Restorable(t)
      BY <1>8 DEF RecoverBackward, NeedsRollback, Examines, Pending
    <3> QED
      BY <2>1, <3>1 DEF DiskStill, Restorable, SelfKept, Ahead, Backward, Targets, Replaced, Pending,
                    ValidSuccess, ApplyingPoints, RestoringPoints, IsFirst, IsLast
  <2>3. Restorable(t)
    BY <1>8 DEF RecoverBackward, NeedsRollback, Examines
  <2> QED
    BY <2>1, <2>2, <2>3, QuietStep, StuckNone, NotTorn, <1>8
       DEF RecoverBackward, NeedsRollback, Examines, CrashFree, DiskStill, RestoringPoints
<1>9. ASSUME NEW self \in Procs, RecoverRefuses(self)  PROVE CrashFree'
  <2>1. /\ DiskStill /\ Untouched(self) /\ pc'[self] = "idle" /\ lock = self
    BY <1>9 DEF RecoverRefuses, Finish, NeedsRollback, Examines, DiskStill, Untouched, LockInv
  <2>2. \E p \in Paths : file[p] = Torn
    BY <1>9 DEF RecoverRefuses, NeedsRollback, Examines, Restorable,
                CrashFree, DiskInv, Targets
  <2> QED
    BY <2>1, <2>2, NothingOwed, QuietStep, StuckNow
       DEF CrashFree, DiskStill, RestoringPoints
<1>10. ASSUME NEW self \in Procs, RecoverDone(self)  PROVE CrashFree'
  <2>1. CASE cmd[self] = "recover"
    <3>1. /\ DiskStill /\ Untouched(self) /\ pc'[self] = "idle"
          /\ outcome'[self] = "done"
      BY <1>10, <2>1 DEF RecoverDone, Finish, DiskStill, Untouched
    <3> QED
      BY <3>1, NothingOwed, QuietStep, StuckKept
         DEF CrashFree, DiskStill, RestoringPoints
  <2>2. CASE cmd[self] # "recover"
    <3>1. /\ DiskStill /\ Untouched(self) /\ pc'[self] = "mkdir"
          /\ outcome' = outcome
      BY <1>10, <2>2 DEF RecoverDone, DiskStill, Untouched
    <3> QED
      BY <3>1, NothingOwed, QuietStep, StuckKept
         DEF CrashFree, DiskStill, RestoringPoints
  <2> QED  BY <2>1, <2>2
<1>11. ASSUME NEW self \in Procs, RestoreSkip(self)  PROVE CrashFree'
  <2>1. /\ DiskStill /\ Untouched(self) /\ outcome' = outcome
    BY <1>11 DEF RestoreSkip, RestoresTarget, DiskStill, Untouched
  <2>2. SelfKept(self)
    <3>1. PICK p \in Paths : RestoreSkip(self)!(p)
      BY <1>11 DEF RestoreSkip
    <3>2. tx[self] = t /\ Ahead(self, t) /\ Backward(self, t)
      BY <3>1, <1>d DEF RestoresTarget, CrashFree, ProcsInv, WithTx
    <3> QED
      BY <2>1, <3>1, <3>2 DEF RestoresTarget, DiskStill, SelfKept, Ahead, Backward, Targets, Replaced, Pending,
                    ValidSuccess, ApplyingPoints, RestoringPoints, IsFirst, IsLast
  <2> QED
    BY <2>1, <2>2, QuietStep, StuckKept, <1>11
       DEF RestoreSkip, RestoresTarget, CrashFree, DiskStill, RestoringPoints
<1>12. ASSUME NEW self \in Procs, RestoreChoose(self)  PROVE CrashFree'
  <2>1. /\ DiskStill /\ Untouched(self) /\ outcome' = outcome
    BY <1>12 DEF RestoreChoose, RestoresTarget, DiskStill, Untouched
  <2>2. SelfKept(self)
    <3>1. PICK p \in Paths : RestoreChoose(self)!(p)
      BY <1>12 DEF RestoreChoose
    <3>2. tx[self] = t /\ Ahead(self, t) /\ Backward(self, t)
      BY <3>1, <1>d DEF RestoresTarget, CrashFree, ProcsInv, WithTx
    <3> QED
      BY <2>1, <3>1, <3>2 DEF RestoresTarget, DiskStill, SelfKept, Ahead, Backward, Targets, Replaced, Pending,
                    ValidSuccess, ApplyingPoints, RestoringPoints, IsFirst, IsLast
  <2> QED
    BY <2>1, <2>2, QuietStep, StuckKept, <1>12
       DEF RestoreChoose, RestoresTarget, CrashFree, DiskStill, RestoringPoints
<1>13. ASSUME NEW self \in Procs, RestoreRefuses(self)  PROVE CrashFree'
  <2>1. PICK p \in Paths : RestoreRefuses(self)!(p)
    BY <1>13 DEF RestoreRefuses
  <2>2. p \in Targets(t) /\ tx[self] = t /\ journal[t] # "none"
    BY <2>1, <1>d DEF RestoresTarget, JobInv, DirInv, RestoringPoints, WithTx,
                      IsLast
  <2> QED
    BY <2>1, <2>2 DEF BackupsMatch
<1>14. ASSUME NEW self \in Procs, RestoreUnlink(self)  PROVE CrashFree'
  <2>0. PICK p \in Paths : RestoreUnlink(self)!(p)
    BY <1>14 DEF RestoreUnlink
  <2>1. /\ tx[self] = t /\ pc[self] = "unlink" /\ IsLast(p, left[self])
        /\ p \in left[self] /\ left[self] \subseteq Targets(t)
    BY <2>0, <1>d DEF IsLast, JobInv, WithTx, RestoringPoints
  <2>2. Backward(self, t)
    BY <2>1, <1>c DEF ProcsInv
  <2>3. \A q \in Procs \ {self} : pc[q] \in {"idle", "created"}
    BY <2>1, <1>c, RestoresAlone DEF RestoringPoints
  <2>4. /\ Untouched(self) /\ UNCHANGED <<new, old, journal, next, success, tx, cmd>>
        /\ outcome' = outcome
        /\ \A q \in Paths : file'[q] = IF q = p THEN Absent ELSE file[q]
    BY <2>0, <2>1 DEF Untouched
  <2>5. /\ Pending(t) /\ p \in Targets(t)
        /\ \A r \in left[self], q \in Targets(t) : q < r => q \in left[self]
    BY <2>1, <2>2 DEF Backward, RestoringPoints
  <2>6. new[t][p] \in Contents /\ new[t][p] # Torn
    BY <2>5 DEF Targets
  <2>7. old[t][p] = Absent
    BY <2>1 DEF RestoreInv, RestoringPoints
  <2>8. \A q \in Targets(t) : (Replaced(t, q))' => Replaced(t, q) /\ q # p
    BY <2>4, <2>6, <2>7 DEF Replaced, Targets
  <2>9. \A r \in Targets(t) : Replaced(t, r) /\ p < r => r = p
    <3>1. \A r \in left[self] : ~(p < r)
      BY <2>1 DEF IsLast, Targets
    <3>2. \A r \in Targets(t) \ left[self] : file[r] = old[t][r]
      BY <2>1 DEF RestoreInv, RestoringPoints
    <3> QED
      BY <3>1, <3>2 DEF Replaced
  <2>10. DiskInv'
    <3>1. ASSUME NEW r \in Targets(t), NEW q \in Targets(t),
                 (Replaced(t, r))', q < r
          PROVE  file'[q] = new[t][q]
      <4>1. Replaced(t, r) /\ q # p
        BY <3>1, <2>8, <2>9
      <4>2. file[q] = new[t][q]
        BY <3>1, <4>1, <2>5, <1>c DEF DiskInv, Pending
      <4> QED
        BY <4>1, <4>2, <2>4 DEF Targets
    <3>2. \A r \in Targets(t) : (Replaced(t, r))' => r <= next[t]
      BY <2>5, <2>8, <1>c DEF DiskInv, Pending
    <3>3. \A q \in Targets(t) : file'[q] \in {old[t][q], new[t][q], Torn}
      BY <2>4, <2>5, <2>7, <1>c DEF DiskInv, Pending, Targets
    <3>4. Targets(t)' = Targets(t) /\ journal'[t] \notin {"none", "rolled_back"}
      BY <2>4, <2>5 DEF Targets, Pending
    <3>5. \A q \in Paths : file'[q] = Torn => q \in Targets(t)
      BY <2>4, <2>5, <1>c DEF DiskInv
    <3> QED
      BY <3>1, <3>2, <3>3, <3>4, <3>5, <2>4, <1>c DEF DiskInv
  <2>11. StuckInv'
    BY <2>1, <2>4, <1>c, StuckFree DEF RestoringPoints
  <2>12. SelfKept(self)
    <3>1. left'[self] = left[self] \ {p} /\ pc'[self] = "restore"
      BY <2>0
    <3>a. \A r \in left[self], q \in Targets(t) :
             q < r => q \in left[self] /\ (p \in {r, q} => r = p)
      BY <2>1, <2>5 DEF IsLast, Targets
    <3>2. \A r \in left'[self], q \in Targets(t) : q < r => q \in left'[self]
      BY <3>1, <3>a, <2>1
    <3>3. \/ cmd'[self] = "rollback"
          \/ t \notin success'
          \/ \E q \in Targets(t) : file'[q] = old[t][q] /\ old[t][q] # new[t][q]
      BY <2>1, <2>2, <2>4, <2>7 DEF Backward, RestoringPoints, Targets
    <3>4. Targets(t)' = Targets(t) /\ Pending(t)'
      BY <2>4, <2>5 DEF Targets, Pending
    <3> QED
      BY <2>1, <2>4, <3>1, <3>2, <3>3, <3>4 DEF SelfKept, Ahead, Backward,
         ApplyingPoints, RestoringPoints
  <2>13. ASSUME NEW q \in Procs \ {self}
         PROVE  (Ahead(q, tx[q]))' /\ (Backward(q, tx[q]))'
    <3>1. pc'[q] \in {"idle", "created"} /\ tx'[q] = tx[q]
      BY <2>3, <2>4 DEF Untouched
    <3>2. pc'[q] = "created" => t \notin success /\ tx[q] = t
                                /\ \A r \in Targets(t) : ~Replaced(t, r)
      BY <2>3, <2>4, <1>c, <1>d DEF Untouched, ProcsInv, Ahead, WithTx
    <3>3. Targets(t)' = Targets(t)
      BY <2>4 DEF Targets
    <3> QED
      BY <3>1, <3>2, <3>3, <2>4, <2>8 DEF Ahead, Backward, ApplyingPoints,
                                          RestoringPoints
  <2> QED
    BY <2>10, <2>11, <2>12, <2>13 DEF CrashFree, ProcsInv, SelfKept
<1>15. ASSUME NEW self \in Procs, RestoreTruncate(self)  PROVE CrashFree'
  <2>0. PICK p \in Paths : RestoreTruncate(self)!(p)
    BY <1>15 DEF RestoreTruncate
  <2>1. /\ tx[self] = t /\ pc[self] = "truncate" /\ IsLast(p, left[self])
        /\ p \in left[self] /\ left[self] \subseteq Targets(t)
    BY <2>0, <1>d DEF IsLast, JobInv, WithTx, RestoringPoints
  <2>2. Backward(self, t)
    BY <2>1, <1>c DEF ProcsInv
  <2>3. \A q \in Procs \ {self} : pc[q] \in {"idle", "created"}
    BY <2>1, <1>c, RestoresAlone DEF RestoringPoints
  <2>4. /\ Untouched(self) /\ UNCHANGED <<new, old, journal, next, success, tx, cmd>>
        /\ outcome' = outcome
        /\ \A q \in Paths : file'[q] = IF q = p THEN Torn ELSE file[q]
    BY <2>0, <2>1 DEF Untouched
  <2>5. /\ Pending(t) /\ p \in Targets(t)
        /\ \A r \in left[self], q \in Targets(t) : q < r => q \in left[self]
    BY <2>1, <2>2 DEF Backward, RestoringPoints
  <2>6. new[t][p] \in Contents /\ new[t][p] # Torn
    BY <2>5 DEF Targets
  <2>7. file[p] = new[t][p]
    BY <2>1 DEF RestoreInv, RestoringPoints
  <2>8. \A q \in Targets(t) : (Replaced(t, q))' => Replaced(t, q) /\ q # p
    BY <2>4, <2>6, <2>7 DEF Replaced, Targets
  <2>9. \A r \in Targets(t) : Replaced(t, r) /\ p < r => r = p
    <3>1. \A r \in left[self] : ~(p < r)
      BY <2>1 DEF IsLast, Targets
    <3>2. \A r \in Targets(t) \ left[self] : file[r] = old[t][r]
      BY <2>1 DEF RestoreInv, RestoringPoints
    <3> QED
      BY <3>1, <3>2 DEF Replaced
  <2>10. DiskInv'
    <3>1. ASSUME NEW r \in Targets(t), NEW q \in Targets(t),
                 (Replaced(t, r))', q < r
          PROVE  file'[q] = new[t][q]
      <4>1. Replaced(t, r) /\ q # p
        BY <3>1, <2>8, <2>9
      <4>2. file[q] = new[t][q]
        BY <3>1, <4>1, <2>5, <1>c DEF DiskInv, Pending
      <4> QED
        BY <4>1, <4>2, <2>4 DEF Targets
    <3>2. \A r \in Targets(t) : (Replaced(t, r))' => r <= next[t]
      BY <2>5, <2>8, <1>c DEF DiskInv, Pending
    <3>3. \A q \in Targets(t) : file'[q] \in {old[t][q], new[t][q], Torn}
      BY <2>4, <2>5, <2>7, <1>c DEF DiskInv, Pending, Targets
    <3>4. Targets(t)' = Targets(t) /\ journal'[t] \notin {"none", "rolled_back"}
      BY <2>4, <2>5 DEF Targets, Pending
    <3>5. \A q \in Paths : file'[q] = Torn => q \in Targets(t)
      BY <2>4, <2>5, <1>c DEF DiskInv
    <3> QED
      BY <3>1, <3>2, <3>3, <3>4, <3>5, <2>4, <1>c DEF DiskInv
  <2>11. StuckInv'
    BY <2>1, <2>4, <1>c, StuckFree DEF RestoringPoints
  <2>12. SelfKept(self)
    <3>1. left' = left /\ pc'[self] = "rewrite"
      BY <2>0
    <3>a. \A r \in left[self], q \in Targets(t) :
             q < r => q \in left[self] /\ (p \in {r, q} => r = p)
      BY <2>1, <2>5 DEF IsLast, Targets
    <3>2. \A r \in left'[self], q \in Targets(t) : q < r => q \in left'[self]
      BY <3>1, <3>a, <2>1
    <3>3. \/ cmd'[self] = "rollback"
          \/ t \notin success'
          \/ \E q \in Targets(t) : file'[q] = old[t][q] /\ old[t][q] # new[t][q]
      BY <2>1, <2>2, <2>4, <2>7 DEF Backward, RestoringPoints, Targets
    <3>4. Targets(t)' = Targets(t) /\ Pending(t)'
      BY <2>4, <2>5 DEF Targets, Pending
    <3> QED
      BY <2>1, <2>4, <3>1, <3>2, <3>3, <3>4 DEF SelfKept, Ahead, Backward,
         ApplyingPoints, RestoringPoints
  <2>13. ASSUME NEW q \in Procs \ {self}
         PROVE  (Ahead(q, tx[q]))' /\ (Backward(q, tx[q]))'
    <3>1. pc'[q] \in {"idle", "created"} /\ tx'[q] = tx[q]
      BY <2>3, <2>4 DEF Untouched
    <3>2. pc'[q] = "created" => t \notin success /\ tx[q] = t
                                /\ \A r \in Targets(t) : ~Replaced(t, r)
      BY <2>3, <2>4, <1>c, <1>d DEF Untouched, ProcsInv, Ahead, WithTx
    <3>3. Targets(t)' = Targets(t)
      BY <2>4 DEF Targets
    <3> QED
      BY <3>1, <3>2, <3>3, <2>4, <2>8 DEF Ahead, Backward, ApplyingPoints,
                                          RestoringPoints
  <2> QED
    BY <2>10, <2>11, <2>12, <2>13 DEF CrashFree, ProcsInv, SelfKept
<1>16. ASSUME NEW self \in Procs, RestoreRewrite(self)  PROVE CrashFree'
  <2>0. PICK p \in Paths : RestoreRewrite(self)!(p)
    BY <1>16 DEF RestoreRewrite
  <2>1. /\ tx[self] = t /\ pc[self] = "rewrite" /\ IsLast(p, left[self])
        /\ p \in left[self] /\ left[self] \subseteq Targets(t)
    BY <2>0, <1>d DEF IsLast, JobInv, WithTx, RestoringPoints
  <2>2. Backward(self, t)
    BY <2>1, <1>c DEF ProcsInv
  <2>3. \A q \in Procs \ {self} : pc[q] \in {"idle", "created"}
    BY <2>1, <1>c, RestoresAlone DEF RestoringPoints
  <2>4. /\ Untouched(self) /\ UNCHANGED <<new, old, journal, next, success, tx, cmd>>
        /\ outcome' = outcome
        /\ \A q \in Paths : file'[q] = IF q = p THEN old[t][p] ELSE file[q]
    BY <2>0, <2>1 DEF Untouched
  <2>5. /\ Pending(t) /\ p \in Targets(t)
        /\ \A r \in left[self], q \in Targets(t) : q < r => q \in left[self]
    BY <2>1, <2>2 DEF Backward, RestoringPoints
  <2>6. new[t][p] \in Contents /\ new[t][p] # Torn
    BY <2>5 DEF Targets
  <2>7. TRUE
    OBVIOUS
  <2>8. \A q \in Targets(t) : (Replaced(t, q))' => Replaced(t, q) /\ q # p
    BY <2>4, <2>6, <2>7 DEF Replaced, Targets
  <2>9. \A r \in Targets(t) : Replaced(t, r) /\ p < r => r = p
    <3>1. \A r \in left[self] : ~(p < r)
      BY <2>1 DEF IsLast, Targets
    <3>2. \A r \in Targets(t) \ left[self] : file[r] = old[t][r]
      BY <2>1 DEF RestoreInv, RestoringPoints
    <3> QED
      BY <3>1, <3>2 DEF Replaced
  <2>10. DiskInv'
    <3>1. ASSUME NEW r \in Targets(t), NEW q \in Targets(t),
                 (Replaced(t, r))', q < r
          PROVE  file'[q] = new[t][q]
      <4>1. Replaced(t, r) /\ q # p
        BY <3>1, <2>8, <2>9
      <4>2. file[q] = new[t][q]
        BY <3>1, <4>1, <2>5, <1>c DEF DiskInv, Pending
      <4> QED
        BY <4>1, <4>2, <2>4 DEF Targets
    <3>2. \A r \in Targets(t) : (Replaced(t, r))' => r <= next[t]
      BY <2>5, <2>8, <1>c DEF DiskInv, Pending
    <3>3. \A q \in Targets(t) : file'[q] \in {old[t][q], new[t][q], Torn}
      BY <2>4, <2>5, <2>7, <1>c DEF DiskInv, Pending, Targets
    <3>4. Targets(t)' = Targets(t) /\ journal'[t] \notin {"none", "rolled_back"}
      BY <2>4, <2>5 DEF Targets, Pending
    <3>5. \A q \in Paths : file'[q] = Torn => q \in Targets(t)
      BY <2>4, <2>5, <1>c DEF DiskInv
    <3> QED
      BY <3>1, <3>2, <3>3, <3>4, <3>5, <2>4, <1>c DEF DiskInv
  <2>11. StuckInv'
    BY <2>1, <2>4, <1>c, StuckFree DEF RestoringPoints
  <2>12. SelfKept(self)
    <3>1. left'[self] = left[self] \ {p} /\ pc'[self] = "restore"
      BY <2>0
    <3>a. \A r \in left[self], q \in Targets(t) :
             q < r => q \in left[self] /\ (p \in {r, q} => r = p)
      BY <2>1, <2>5 DEF IsLast, Targets
    <3>2. \A r \in left'[self], q \in Targets(t) : q < r => q \in left'[self]
      BY <3>1, <3>a, <2>1
    <3>3. \/ cmd'[self] = "rollback"
          \/ t \notin success'
          \/ \E q \in Targets(t) : file'[q] = old[t][q] /\ old[t][q] # new[t][q]
      BY <2>1, <2>2, <2>4, <2>7 DEF Backward, RestoringPoints, Targets
    <3>4. Targets(t)' = Targets(t) /\ Pending(t)'
      BY <2>4, <2>5 DEF Targets, Pending
    <3> QED
      BY <2>1, <2>4, <3>1, <3>2, <3>3, <3>4 DEF SelfKept, Ahead, Backward,
         ApplyingPoints, RestoringPoints
  <2>13. ASSUME NEW q \in Procs \ {self}
         PROVE  (Ahead(q, tx[q]))' /\ (Backward(q, tx[q]))'
    <3>1. pc'[q] \in {"idle", "created"} /\ tx'[q] = tx[q]
      BY <2>3, <2>4 DEF Untouched
    <3>2. pc'[q] = "created" => t \notin success /\ tx[q] = t
                                /\ \A r \in Targets(t) : ~Replaced(t, r)
      BY <2>3, <2>4, <1>c, <1>d DEF Untouched, ProcsInv, Ahead, WithTx
    <3>3. Targets(t)' = Targets(t)
      BY <2>4 DEF Targets
    <3> QED
      BY <3>1, <3>2, <3>3, <2>4, <2>8 DEF Ahead, Backward, ApplyingPoints,
                                          RestoringPoints
  <2> QED
    BY <2>10, <2>11, <2>12, <2>13 DEF CrashFree, ProcsInv, SelfKept
<1>17. ASSUME NEW self \in Procs, RollbackWritten(self)  PROVE CrashFree'
  <2>1. /\ tx[self] = t /\ pc[self] = "restore" /\ left[self] = {}
        /\ UNCHANGED <<file, new, old, next, success>>
        /\ journal'[t] = "rolled_back"
    BY <1>17, <1>d DEF RollbackWritten, WithTx
  <2>2. \A p \in Targets(t) : file[p] = old[t][p]
    BY <2>1 DEF RestoreInv, RestoringPoints
  <2>3. \A q \in Procs \ {self} : pc[q] \in {"idle", "created"}
    BY <2>1, <1>c, RestoresAlone DEF RestoringPoints
  <2>4. Untouched(self) /\ pc'[self] \in {"idle", "recover"}
        /\ (outcome'[self] = "conflict" => outcome[self] = "conflict")
    <3>1. CASE cmd[self] = "rollback"
      BY <1>17, <3>1 DEF RollbackWritten, Finish, Untouched
    <3>2. CASE cmd[self] # "rollback"
      BY <1>17, <3>2 DEF RollbackWritten, Untouched
    <3> QED  BY <3>1, <3>2
  <2>5. Targets(t)' = Targets(t) /\ \A p \in Targets(t) : ~(Replaced(t, p))'
    BY <2>1, <2>2 DEF Targets, Replaced
  <2>6. DiskInv'
    <3>1. \A p \in Paths : file'[p] # Torn
      BY <2>1, <2>2, <1>c DEF DiskInv
    <3> QED
      BY <3>1, <2>1, <2>2, <2>5, <1>c DEF DiskInv
  <2>7. StuckInv'
    BY <2>1, <2>4, <1>c, StuckFree DEF RestoringPoints
  <2>8. ASSUME NEW q \in Procs \ {self}
        PROVE  (Ahead(q, tx[q]))' /\ (Backward(q, tx[q]))'
    <3>1. pc'[q] \in {"idle", "created"} /\ tx'[q] = tx[q]
      BY <2>3, <2>4 DEF Untouched
    <3>2. pc'[q] = "created" => t \notin success /\ tx[q] = t
      BY <2>3, <2>4, <1>c, <1>d DEF Untouched, ProcsInv, Ahead, WithTx
    <3> QED
      BY <3>1, <3>2, <2>1, <2>5 DEF Ahead, Backward, ApplyingPoints,
                                    RestoringPoints
  <2> QED
    BY <2>4, <2>6, <2>7, <2>8, NothingOwed DEF CrashFree, ProcsInv, SelfKept
<1>18. ASSUME NEW self \in Procs, CreateExists(self)  PROVE CrashFree'
  <2>1. /\ DiskStill /\ Untouched(self) /\ pc'[self] \in {"idle", "recover", "mkdir"}
        /\ outcome'[self] = "conflict" => outcome[self] = "conflict"
    BY <1>18 DEF CreateExists, Finish, DiskStill, Untouched
  <2> QED
    BY <2>1, NothingOwed, QuietStep, StuckKept
       DEF CrashFree, DiskStill, RestoringPoints
<1>19. ASSUME NEW self \in Procs, MakeDirectory(self)  PROVE CrashFree'
  <2>1. own[self] = t /\ t \notin dir /\ lock = self /\ pc[self] = "mkdir"
    BY <1>19 DEF MakeDirectory, JobInv, LockInv
  <2>2. t \notin success /\ journal[t] = "none" /\ \A p \in Paths : new[t][p] = Keep
    BY <2>1 DEF OwnInv, DirInv
  <2>3. \A q \in Procs \ {self} : pc[q] = "idle"
    <3>1. \A q \in Procs : pc[q] \notin WithTx
      BY <2>1, <1>d DEF DirInv, WithTx
    <3> QED
      BY <3>1, <2>1 DEF LockInv, WithTx
  <2>4. /\ Untouched(self) /\ outcome' = outcome
        /\ UNCHANGED <<file, old, journal, next, success>>
        /\ pc'[self] = "hash" /\ tx'[self] = t
    BY <1>19, <2>1 DEF MakeDirectory, Untouched
  <2>5. DiskInv'
    BY <2>2, <2>4, <1>c DEF DiskInv, OwnInv
  <2>6. SelfKept(self)
    <3>1. PICK b \in Batches :
            /\ new' = [new EXCEPT ![own[self]] = b]
            /\ left' = [left EXCEPT ![self] = {p \in Paths : b[p] # Keep}]
      BY <1>19 DEF MakeDirectory
    <3>2. left'[self] = Targets(t)'
      BY <3>1, <2>1 DEF Targets
    <3> QED
      BY <3>2, <2>2, <2>4 DEF SelfKept, Ahead, Backward, ApplyingPoints,
                              RestoringPoints
  <2>7. StuckInv'
    BY <2>4, <1>c, StuckKept DEF RestoringPoints
  <2> QED
    BY <2>3, <2>4, <2>5, <2>6, <2>7, AloneStep DEF CrashFree
<1>20. ASSUME NEW self \in Procs, HashTarget(self)  PROVE CrashFree'
  <2>0. PICK p \in Paths : HashTarget(self)!(p)
    BY <1>20 DEF HashTarget
  <2>1. tx[self] = t /\ pc[self] = "hash" /\ lock = self
    BY <2>0, <1>d DEF IsFirst, WithTx, LockInv
  <2>2. Ahead(self, t)
    BY <2>1, <1>c DEF ProcsInv
  <2>3. \A q \in Procs \ {self} : pc[q] = "idle"
    <3>1. Creates(self) /\ \A q \in Procs \ {self} : lock # q
      BY <2>1 DEF Creates, CreatorPoints
    <3> QED
      BY <3>1, Alone
  <2>4. /\ Untouched(self) /\ outcome' = outcome
        /\ UNCHANGED <<file, new, journal, next, success, tx, left>>
        /\ pc'[self] = "stage"
        /\ \A q \in Paths : old'[t][q] = IF q = p THEN file[p] ELSE old[t][q]
    BY <2>0, <2>1 DEF IsFirst, Untouched
  <2>a. journal[t] = "none" /\ p \in left[self]
    BY <2>0, <2>1 DEF DirInv, IsFirst
  <2>5. DiskInv'
    <3>1. \A q \in Paths : file[q] # Torn
      BY <2>a, <1>c DEF DiskInv
    <3> QED
      BY <3>1, <2>4, <2>a, <1>c DEF DiskInv
  <2>6. SelfKept(self)
    BY <2>1, <2>2, <2>4, <2>a DEF SelfKept, Ahead, Backward, Targets,
       ApplyingPoints, RestoringPoints
  <2>7. StuckInv'
    BY <2>4, <1>c, StuckKept DEF RestoringPoints
  <2> QED
    BY <2>3, <2>4, <2>5, <2>6, <2>7, AloneStep DEF CrashFree
<1>21. ASSUME NEW self \in Procs, BackupTarget(self)  PROVE CrashFree'
  <2>1. /\ DiskStill /\ Untouched(self) /\ outcome' = outcome
    BY <1>21 DEF BackupTarget, DiskStill, Untouched
  <2>2. SelfKept(self)
    <3>1. PICK p \in Paths : BackupTarget(self)!(p)
      BY <1>21 DEF BackupTarget
    <3>2. tx[self] = t /\ Ahead(self, t) /\ Backward(self, t)
      BY <3>1, <1>d DEF CrashFree, ProcsInv, WithTx
    <3>3. file[p] = old[t][p]
      <4>1. pc[self] = "stage" /\ p \in left[self] /\ IsFirst(p, left[self])
        BY <3>1 DEF IsFirst
      <4> QED
        BY <4>1, <3>2 DEF CreateInv
    <3> QED
      BY <2>1, <3>1, <3>2, <3>3 DEF DiskStill, SelfKept, Ahead, Backward, Targets, Replaced, Pending,
                    ValidSuccess, ApplyingPoints, RestoringPoints, IsFirst, IsLast
  <2> QED
    BY <2>1, <2>2, QuietStep, StuckKept, <1>21
       DEF BackupTarget, CrashFree, DiskStill, RestoringPoints
<1>22. ASSUME NEW self \in Procs, BackupUnreadable(self)  PROVE CrashFree'
  <2>1. /\ DiskStill /\ Untouched(self) /\ pc'[self] \in {"idle", "recover", "mkdir"}
        /\ outcome'[self] = "conflict" => outcome[self] = "conflict"
    BY <1>22 DEF BackupUnreadable, Finish, DiskStill, Untouched
  <2> QED
    BY <2>1, NothingOwed, QuietStep, StuckKept
       DEF CrashFree, DiskStill, RestoringPoints
<1>23. ASSUME NEW self \in Procs, WriteInitialJournal(self)  PROVE CrashFree'
  <2>1. tx[self] = t /\ pc[self] = "hash" /\ lock = self
    BY <1>23, <1>d DEF WriteInitialJournal, WithTx, LockInv
  <2>2. Ahead(self, t)
    BY <2>1, <1>c DEF ProcsInv
  <2>3. \A q \in Procs \ {self} : pc[q] = "idle"
    <3>1. Creates(self) /\ \A q \in Procs \ {self} : lock # q
      BY <2>1 DEF Creates, CreatorPoints
    <3> QED
      BY <3>1, Alone
  <2>4. /\ Untouched(self) /\ outcome' = outcome
        /\ UNCHANGED <<file, new, old, success, tx>> /\ left[self] = {}
        /\ pc'[self] = "created" /\ journal'[t] = "prepared"
    BY <1>23, <2>1 DEF WriteInitialJournal, Untouched
  <2>a. t \notin success /\ \A p \in Targets(t) : file[p] = old[t][p]
    BY <2>1, <2>2, <2>4 DEF Ahead
  <2>b. \A p \in Targets(t) : ~(Replaced(t, p))'
    BY <2>a, <2>4 DEF Replaced, Targets
  <2>5. DiskInv'
    <3>1. Targets(t)' = Targets(t) /\ journal'[t] \notin {"none", "rolled_back"}
      BY <2>4 DEF Targets
    <3>2. \A p \in Paths : old'[t][p] # Torn /\ (file'[p] = Torn => p \in Targets(t))
      BY <2>4, <1>c DEF DiskInv
    <3>3. \A p \in Targets(t) : file'[p] = old'[t][p]
      BY <2>a, <2>4
    <3> QED
      BY <3>1, <3>2, <3>3, <2>b DEF DiskInv
  <2>6. SelfKept(self)
    BY <2>1, <2>4, <2>a, <2>b DEF SelfKept, Ahead, Backward, Targets,
       ApplyingPoints, RestoringPoints
  <2>7. StuckInv'
    BY <2>4, <1>c, StuckKept DEF RestoringPoints
  <2> QED
    BY <2>3, <2>4, <2>5, <2>6, <2>7, AloneStep DEF CrashFree
<1>24. ASSUME NEW self \in Procs, BeginApply(self)  PROVE CrashFree'
  <2>1. tx[self] = t /\ pc[self] = "created" /\ lock = NoProc
    BY <1>24, <1>d DEF BeginApply, Acquire, WithTx, LockInv
  <2>2. Ahead(self, t)
    BY <2>1, <1>c DEF ProcsInv
  <2>3. \A q \in Procs \ {self} : pc[q] = "idle"
    <3>1. Creates(self) /\ \A q \in Procs \ {self} : lock # q
      BY <2>1 DEF Creates, CreatorPoints
    <3> QED
      BY <3>1, Alone
  <2>4. /\ Untouched(self) /\ outcome' = outcome
        /\ UNCHANGED <<file, new, old, success, tx>> /\ left'[self] = Targets(t)
        /\ pc'[self] = "mark" /\ journal'[t] = "applying"
    BY <1>24, <2>1 DEF BeginApply, Acquire, Untouched
  <2>a. t \notin success /\ \A p \in Targets(t) : ~(Replaced(t, p))'
    BY <2>1, <2>2, <2>4 DEF Ahead, Replaced, Targets
  <2>b. \A p \in Targets(t) : file[p] \in {old[t][p], new[t][p], Torn}
    BY <2>1, <1>c DEF DiskInv, DirInv, WithTx
  <2>5. DiskInv'
    <3>1. Targets(t)' = Targets(t) /\ journal'[t] \notin {"none", "rolled_back"}
      BY <2>4 DEF Targets
    <3>2. \A p \in Paths : old'[t][p] # Torn /\ (file'[p] = Torn => p \in Targets(t))
      BY <2>4, <1>c DEF DiskInv
    <3> QED
      BY <3>1, <3>2, <2>a, <2>b, <2>4 DEF DiskInv
  <2>6. SelfKept(self)
    BY <2>1, <2>4, <2>a DEF SelfKept, Ahead, Backward, Targets, Pending,
       ApplyingPoints, RestoringPoints
  <2>7. StuckInv'
    BY <2>4, <1>c, StuckKept DEF RestoringPoints
  <2> QED
    BY <2>3, <2>4, <2>5, <2>6, <2>7, AloneStep DEF CrashFree
<1>25. ASSUME NEW self \in Procs, MarkTarget(self)  PROVE CrashFree'
  <2>0. PICK p \in Paths : MarkTarget(self)!(p)
    BY <1>25 DEF MarkTarget
  <2>1. tx[self] = t /\ pc[self] = "mark" /\ lock = self
    BY <2>0, <1>d DEF IsFirst, WithTx, LockInv
  <2>2. Ahead(self, t)
    BY <2>1, <1>c DEF ProcsInv
  <2>3. \A q \in Procs \ {self} : pc[q] = "idle"
    <3>1. Creates(self) /\ \A q \in Procs \ {self} : lock # q
      BY <2>1 DEF Creates, CreatorPoints
    <3> QED
      BY <3>1, Alone
  <2>4. /\ Untouched(self) /\ outcome' = outcome
        /\ UNCHANGED <<file, new, old, journal, success, tx, left>>
        /\ pc'[self] = "check" /\ next'[t] = p
    BY <2>0, <2>1 DEF IsFirst, Untouched
  <2>5. DiskInv'
    <3>1. p \in left[self] /\ \A q \in left[self] : p <= q
      BY <2>0 DEF IsFirst
    <3>2. left[self] \subseteq Targets(t)
      BY <2>1 DEF JobInv, ApplyingPoints
    <3>3. \A q \in Targets(t) \ left[self] : q < p
      BY <2>1, <2>2, <3>1 DEF Ahead, ApplyingPoints
    <3>4. \A q \in Targets(t) : Replaced(t, q) => q < p
      BY <2>1, <2>2, <3>3 DEF Ahead, ApplyingPoints
    <3>5. \A q \in Targets(t) : q < p => q <= p
      BY DEF Targets
    <3> QED
      BY <2>4, <3>4, <3>5, <1>c DEF DiskInv, Targets, Replaced
  <2>6. SelfKept(self)
    <3>1. IsFirst(p, left[self])
      BY <2>0
    <3>2. \A q \in Targets(t) \ left[self] : q <= p /\ \A r \in left[self] : q < r
      BY <2>1, <2>2, <3>1 DEF Ahead, ApplyingPoints, IsFirst, Targets
    <3>3. t \notin success /\ Pending(t) /\ \A q \in left[self] : ~Replaced(t, q)
      BY <2>1, <2>2 DEF Ahead, ApplyingPoints
    <3> QED
      BY <2>1, <2>4, <3>1, <3>2, <3>3 DEF SelfKept, Ahead, Backward, Targets,
         Pending, Replaced, ApplyingPoints, RestoringPoints
  <2>7. StuckInv'
    BY <2>4, <1>c, StuckKept DEF RestoringPoints
  <2> QED
    BY <2>3, <2>4, <2>5, <2>6, <2>7, AloneStep DEF CrashFree
<1>26. ASSUME NEW self \in Procs, CheckRefuses(self)  PROVE CrashFree'
  <2>1. /\ DiskStill /\ Untouched(self) /\ pc'[self] = "idle" /\ lock = self
    BY <1>26 DEF CheckRefuses, Finish, ChecksTarget, DiskStill, Untouched, LockInv
  <2>2. \E p \in Paths : file[p] = Torn
    <3>1. PICK p \in Paths : CheckRefuses(self)!(p)
      BY <1>26 DEF CheckRefuses
    <3>2. p \in Targets(t) /\ tx[self] = t /\ journal[t] # "none"
      BY <3>1, <1>d DEF ChecksTarget, JobInv, DirInv, ApplyingPoints, WithTx,
                        IsFirst
    <3> QED
      BY <3>1, <3>2 DEF CrashFree, DiskInv
  <2> QED
    BY <2>1, <2>2, NothingOwed, QuietStep, StuckNow
       DEF CrashFree, DiskStill, RestoringPoints
<1>27. ASSUME NEW self \in Procs, CheckAlreadyNew(self)  PROVE CrashFree'
  <2>1. /\ DiskStill /\ Untouched(self) /\ outcome' = outcome
    BY <1>27 DEF CheckAlreadyNew, ChecksTarget, DiskStill, Untouched
  <2>2. SelfKept(self)
    <3>1. PICK p \in Paths : CheckAlreadyNew(self)!(p)
      BY <1>27 DEF CheckAlreadyNew
    <3>2. /\ tx[self] = t /\ Ahead(self, t) /\ pc[self] = "check"
          /\ left[self] \subseteq Targets(t)
      BY <3>1, <1>d DEF ChecksTarget, CrashFree, ProcsInv, JobInv, WithTx,
                        ApplyingPoints
    <3>3. p = next[t]
      <4>1. IsFirst(p, left[self]) /\ IsFirst(next[t], left[self])
        BY <3>1, <3>2 DEF ChecksTarget, Ahead
      <4> QED
        BY <4>1, <3>2, FirstUnique DEF Targets
    <3>4. /\ tx'[self] = t /\ left'[self] = left[self] \ {p} /\ pc'[self] = "mark"
          /\ p \in left[self] /\ \A q \in left[self] : p <= q
      BY <3>1, <3>2 DEF ChecksTarget, IsFirst
    <3>5. \A q \in left[self] \ {p} : p < q
      <4> SUFFICES ASSUME NEW q \in left[self] \ {p}  PROVE p < q
        OBVIOUS
      <4>1. p <= q /\ p # q /\ p \in Paths /\ q \in Paths
        BY <3>2, <3>4 DEF Targets
      <4> QED
        BY <4>1, NumberAssumption
    <3>6. /\ t \notin success /\ Pending(t) /\ \A q \in left[self] : ~Replaced(t, q)
          /\ \A q \in Targets(t) \ left[self] :
                q <= next[t] /\ \A r \in left[self] : q < r
      BY <3>2 DEF Ahead, ApplyingPoints
    <3>7. ASSUME NEW q \in Targets(t) \ left'[self]
          PROVE  q <= next[t] /\ \A r \in left'[self] : q < r
      <4>1. CASE q = p
        BY <4>1, <3>3, <3>4, <3>5 DEF Targets
      <4>2. CASE q # p
        <5>1. q \in Targets(t) \ left[self]
          BY <4>2, <3>4
        <5> QED
          BY <5>1, <3>4, <3>6
      <4> QED  BY <4>1, <4>2
    <3> QED
      BY <2>1, <3>4, <3>6, <3>7 DEF DiskStill, SelfKept, Ahead, Backward,
         Targets, Replaced, Pending, ApplyingPoints, RestoringPoints
  <2> QED
    BY <2>1, <2>2, QuietStep, StuckKept, <1>27
       DEF CheckAlreadyNew, ChecksTarget, CrashFree, DiskStill, RestoringPoints
<1>28. ASSUME NEW self \in Procs, CheckReplace(self)  PROVE CrashFree'
  <2>1. /\ DiskStill /\ Untouched(self) /\ outcome' = outcome
    BY <1>28 DEF CheckReplace, ChecksTarget, DiskStill, Untouched
  <2>2. SelfKept(self)
    <3>1. PICK p \in Paths : CheckReplace(self)!(p)
      BY <1>28 DEF CheckReplace
    <3>2. tx[self] = t /\ Ahead(self, t) /\ Backward(self, t)
      BY <3>1, <1>d DEF ChecksTarget, CrashFree, ProcsInv, WithTx
    <3> QED
      BY <2>1, <3>1, <3>2 DEF ChecksTarget, DiskStill, SelfKept, Ahead, Backward, Targets, Replaced, Pending,
                    ValidSuccess, ApplyingPoints, RestoringPoints, IsFirst, IsLast
  <2> QED
    BY <2>1, <2>2, QuietStep, StuckKept, <1>28
       DEF CheckReplace, ChecksTarget, CrashFree, DiskStill, RestoringPoints
<1>29. ASSUME NEW self \in Procs, SwapTarget(self)  PROVE CrashFree'
  <2>0. PICK p \in Paths : SwapTarget(self)!(p)
    BY <1>29 DEF SwapTarget
  <2>1. tx[self] = t /\ pc[self] = "swap" /\ lock = self
    BY <2>0, <1>d DEF IsFirst, WithTx, LockInv
  <2>2. Ahead(self, t)
    BY <2>1, <1>c DEF ProcsInv
  <2>3. \A q \in Procs \ {self} : pc[q] = "idle"
    <3>1. Creates(self) /\ \A q \in Procs \ {self} : lock # q
      BY <2>1 DEF Creates, CreatorPoints
    <3> QED
      BY <3>1, Alone
  <2>4. /\ Untouched(self) /\ outcome' = outcome
        /\ UNCHANGED <<new, old, journal, next, success, tx>>
        /\ pc'[self] = "mark" /\ left'[self] = left[self] \ {p}
        /\ \A q \in Paths : file'[q] = IF q = p THEN new[t][p] ELSE file[q]
    BY <2>0, <2>1 DEF IsFirst, Untouched
  <2>a. /\ IsFirst(p, left[self]) /\ p \in Targets(t)
        /\ left[self] \subseteq Targets(t) /\ p = next[t]
    <3>1. IsFirst(p, left[self]) /\ IsFirst(next[t], left[self])
      BY <2>0, <2>1, <2>2 DEF Ahead
    <3>2. left[self] \subseteq Targets(t)
      BY <2>1 DEF JobInv, ApplyingPoints
    <3> QED
      BY <3>1, <3>2, FirstUnique DEF IsFirst, Targets
  <2>b. \A q \in Targets(t) \ left[self] : file[q] = new[t][q]
    BY <2>1 DEF ApplyInv, ApplyingPoints
  <2>c. file[p] = old[t][p]
    BY <2>1, <2>a DEF ApplyInv, ApplyingPoints, IsFirst
  <2>d. \A q \in left[self] \ {p} : p < q
    BY <2>a DEF IsFirst, Targets
  <2>e. t \notin success /\ Pending(t) /\ \A q \in left[self] : ~Replaced(t, q)
    BY <2>1, <2>2 DEF Ahead, ApplyingPoints
  <2>f. \A q \in Targets(t) \ left[self] : q <= p /\ q < p
    <3>1. \A q \in Targets(t) \ left[self] :
             q <= next[t] /\ \A r \in left[self] : q < r
      BY <2>1, <2>2 DEF Ahead, ApplyingPoints
    <3> QED
      BY <3>1, <2>a DEF IsFirst
  <2>g. new[t][p] \in Contents /\ new[t][p] # Torn
    BY <2>a DEF Targets
  <2>5. DiskInv'
    <3>1. \A r \in Targets(t) : (Replaced(t, r))' => r \notin left[self] \ {p}
      BY <2>4, <2>e, <2>a DEF Replaced, Targets
    <3>2. \A r \in Targets(t) : (Replaced(t, r))' => r <= p
      BY <3>1, <2>f, <2>a DEF Targets
    <3>3. \A r, q \in Targets(t) : (Replaced(t, r))' /\ q < r => file'[q] = new[t][q]
      <4> SUFFICES ASSUME NEW r \in Targets(t), NEW q \in Targets(t),
                          (Replaced(t, r))', q < r
                   PROVE  file'[q] = new[t][q]
        OBVIOUS
      <4>1. r <= p /\ r \in Nat /\ q \in Nat /\ p \in Nat
        BY <3>2, <2>a DEF Targets
      <4>2. q < p
        BY <4>1
      <4>3. q \notin left[self]
        BY <4>1, <4>2, <2>a DEF IsFirst
      <4> QED
        BY <4>2, <4>3, <2>b, <2>4 DEF Targets
    <3>4. \A q \in Paths : file'[q] = Torn => file[q] = Torn
      BY <2>4, <2>g
    <3>5. \A q \in Targets(t) : file'[q] \in {old[t][q], new[t][q], Torn}
      BY <2>4, <2>e, <1>c DEF DiskInv, Pending, Targets
    <3>6. Targets(t)' = Targets(t) /\ next'[t] = p /\ journal'[t] # "rolled_back"
      BY <2>4, <2>a, <2>e DEF Targets, Pending
    <3>7. \A q \in Paths : file'[q] = Torn => journal'[t] # "none" /\ q \in Targets(t)'
      BY <3>4, <3>6, <2>4, <1>c DEF DiskInv
    <3>8. \A q \in Paths : old'[t][q] # Torn
      BY <2>4, <1>c DEF DiskInv
    <3> QED
      BY <3>2, <3>3, <3>5, <3>6, <3>7, <3>8, <2>4 DEF DiskInv
  <2>6. SelfKept(self)
    <3>1. \A q \in left[self] \ {p} : ~(Replaced(t, q))'
      BY <2>4, <2>e, <2>a DEF Replaced, Targets
    <3>2. \A q \in Targets(t) \ left'[self] :
             q <= next'[t] /\ \A r \in left'[self] : q < r
      <4>1. next'[t] = p /\ left'[self] = left[self] \ {p}
        BY <2>4, <2>a
      <4>2. \A q \in Targets(t) \ left[self] : \A r \in left[self] : q < r
        BY <2>1, <2>2 DEF Ahead, ApplyingPoints
      <4>3. Targets(t) \in SUBSET Paths /\ left[self] \in SUBSET Targets(t)
        BY <2>a DEF Targets
      <4>4. \A q \in Targets(t) \ (left[self] \ {p}) :
               q <= p /\ \A r \in left[self] \ {p} : q < r
        BY <4>2, <4>3, <2>a, FirstPassed
      <4> QED
        BY <4>1, <4>4
    <3> QED
      BY <2>1, <2>4, <2>e, <3>1, <3>2 DEF SelfKept, Ahead, Backward, Targets,
         Pending, ApplyingPoints, RestoringPoints
  <2>7. StuckInv'
    <3>1. file[p] # Torn
      BY <2>c, <1>c DEF DiskInv
    <3> QED
      BY <3>1, <2>4, <1>c, StuckKept DEF RestoringPoints
  <2> QED
    BY <2>3, <2>4, <2>5, <2>6, <2>7, AloneStep DEF CrashFree
<1>30. ASSUME NEW self \in Procs, MarkSuccess(self)  PROVE CrashFree'
  <2>1. tx[self] = t /\ pc[self] = "mark" /\ lock = self
    BY <1>30, <1>d DEF MarkSuccess, WithTx, LockInv
  <2>2. Ahead(self, t)
    BY <2>1, <1>c DEF ProcsInv
  <2>3. \A q \in Procs \ {self} : pc[q] = "idle"
    <3>1. Creates(self) /\ \A q \in Procs \ {self} : lock # q
      BY <2>1 DEF Creates, CreatorPoints
    <3> QED
      BY <3>1, Alone
  <2>4. /\ Untouched(self) /\ outcome' = outcome
        /\ UNCHANGED <<file, new, old, journal, next, tx>> /\ left[self] = {}
        /\ pc'[self] = "success" /\ success' = success \cup {t}
    BY <1>30, <2>1 DEF MarkSuccess, Untouched
  <2>5. DiskInv'
    BY <2>4, <1>c DEF DiskInv, Targets, Replaced
  <2>6. SelfKept(self)
    <3>1. \A p \in Targets(t) : file[p] = new[t][p]
      BY <2>1, <2>4 DEF ApplyInv, ApplyingPoints
    <3>2. Pending(t)
      BY <2>1, <2>2 DEF Ahead, ApplyingPoints
    <3> QED
      BY <2>1, <2>4, <3>1, <3>2 DEF SelfKept, Ahead, Backward, Targets, Pending,
         ValidSuccess, ApplyingPoints, RestoringPoints
  <2>7. StuckInv'
    BY <2>4, <1>c, StuckKept DEF RestoringPoints
  <2> QED
    BY <2>3, <2>4, <2>5, <2>6, <2>7, AloneStep DEF CrashFree
<1>31. ASSUME NEW self \in Procs, JournalSuccess(self)  PROVE CrashFree'
  <2>1. tx[self] = t /\ pc[self] = "success" /\ lock = self
    BY <1>31, <1>d DEF JournalSuccess, WithTx, LockInv
  <2>2. Ahead(self, t)
    BY <2>1, <1>c DEF ProcsInv
  <2>3. \A q \in Procs \ {self} : pc[q] = "idle"
    <3>1. Creates(self) /\ \A q \in Procs \ {self} : lock # q
      BY <2>1 DEF Creates, CreatorPoints
    <3> QED
      BY <3>1, Alone
  <2>4. /\ Untouched(self) /\ outcome' = outcome
        /\ UNCHANGED <<file, new, old, next, success, tx>>
        /\ pc'[self] = "event" /\ journal'[t] = "success_marked"
    BY <1>31, <2>1 DEF JournalSuccess, Untouched
  <2>5. DiskInv'
    BY <2>1, <2>2, <2>4, <1>c DEF DiskInv, Ahead, Pending, Targets, Replaced
  <2>6. SelfKept(self)
    BY <2>1, <2>2, <2>4 DEF SelfKept, Ahead, Backward, Targets, Pending,
       ValidSuccess, ApplyingPoints, RestoringPoints
  <2>7. StuckInv'
    BY <2>4, <1>c, StuckKept DEF RestoringPoints
  <2> QED
    BY <2>3, <2>4, <2>5, <2>6, <2>7, AloneStep DEF CrashFree
<1>32. ASSUME NEW self \in Procs, MarkApplied(self)  PROVE CrashFree'
  <2>1. /\ DiskStill /\ Untouched(self) /\ outcome' = outcome
    BY <1>32 DEF MarkApplied, DiskStill, Untouched
  <2>2. SelfKept(self)
    <3>1. tx[self] = t /\ Ahead(self, t)
      BY <1>32, <1>d DEF MarkApplied, CrashFree, ProcsInv, WithTx
    <3> QED
      BY <1>32, <2>1, <3>1 DEF MarkApplied, DiskStill, SelfKept, Ahead, Backward, Targets, Replaced, Pending,
                    ValidSuccess, ApplyingPoints, RestoringPoints, IsFirst, IsLast
  <2> QED
    BY <2>1, <2>2, QuietStep, StuckKept, <1>32
       DEF MarkApplied, CrashFree, DiskStill, RestoringPoints
<1>33. ASSUME NEW self \in Procs, JournalCompleted(self)  PROVE CrashFree'
  <2>1. tx[self] = t /\ pc[self] = "complete" /\ lock = self
    BY <1>33, <1>d DEF JournalCompleted, WithTx, LockInv
  <2>2. Ahead(self, t)
    BY <2>1, <1>c DEF ProcsInv
  <2>3. \A q \in Procs \ {self} : pc[q] = "idle"
    <3>1. Creates(self) /\ \A q \in Procs \ {self} : lock # q
      BY <2>1 DEF Creates, CreatorPoints
    <3> QED
      BY <3>1, Alone
  <2>4. /\ Untouched(self) /\ outcome' = outcome
        /\ UNCHANGED <<file, new, old, next, success, tx>>
        /\ pc'[self] = "applied" /\ journal'[t] = "completed"
    BY <1>33, <2>1 DEF JournalCompleted, Untouched
  <2>5. DiskInv'
    <3>1. journal[t] \notin {"none", "rolled_back"} /\ journal'[t] = "completed"
      BY <2>1, <2>2, <2>4 DEF Ahead, Pending
    <3>2. Targets(t)' = Targets(t) /\ \A p \in Paths : Replaced(t, p)' <=> Replaced(t, p)
      BY <2>4 DEF Targets, Replaced
    <3>3. \A u \in Txs, p \in Paths : old'[u][p] # Torn
      BY <2>4, <1>c DEF DiskInv
    <3>4. \A p \in Paths : file'[p] = Torn => p \in Targets(t)'
      BY <2>4, <3>2, <1>c DEF DiskInv
    <3>5. \A p \in Targets(t)' :
             /\ file'[p] \in {old'[t][p], new'[t][p], Torn}
             /\ Replaced(t, p)' =>
                   p <= next'[t] /\ \A q \in Targets(t)' : q < p => file'[q] = new'[t][q]
      BY <2>4, <3>1, <3>2, <1>c DEF DiskInv, Targets
    <3> QED
      BY <3>1, <3>3, <3>4, <3>5 DEF DiskInv
  <2>6. SelfKept(self)
    BY <2>1, <2>2, <2>4 DEF SelfKept, Ahead, Backward, Targets, Pending,
       ValidSuccess, ApplyingPoints, RestoringPoints
  <2>7. StuckInv'
    BY <2>4, <1>c, StuckKept DEF RestoringPoints
  <2> QED
    BY <2>3, <2>4, <2>5, <2>6, <2>7, AloneStep DEF CrashFree
<1>34. ASSUME NEW self \in Procs, RecordArtifact(self)  PROVE CrashFree'
  <2>1. /\ DiskStill /\ Untouched(self) /\ pc'[self] \in {"idle", "recover", "mkdir"}
        /\ outcome'[self] = "conflict" => outcome[self] = "conflict"
    BY <1>34 DEF RecordArtifact, Finish, DiskStill, Untouched
  <2> QED
    BY <2>1, NothingOwed, QuietStep, StuckKept
       DEF CrashFree, DiskStill, RestoringPoints
<1>35. ASSUME NEW self \in Procs, RecordFails(self)  PROVE CrashFree'
  <2>1. /\ DiskStill /\ Untouched(self) /\ outcome' = outcome
    BY <1>35 DEF RecordFails, DiskStill, Untouched
  <2>2. SelfKept(self)
    <3>1. tx[self] = t /\ Ahead(self, t)
      BY <1>35, <1>d DEF RecordFails, CrashFree, ProcsInv, WithTx
    <3> QED
      BY <1>35, <2>1, <3>1 DEF RecordFails, DiskStill, SelfKept, Ahead, Backward, Targets, Replaced, Pending,
                    ValidSuccess, ApplyingPoints, RestoringPoints, IsFirst, IsLast
  <2> QED
    BY <2>1, <2>2, QuietStep, StuckKept, <1>35
       DEF RecordFails, CrashFree, DiskStill, RestoringPoints
<1>36. ASSUME NEW self \in Procs, BeginRollback(self)  PROVE CrashFree'
  <2>1. /\ DiskStill /\ Untouched(self) /\ outcome' = outcome
    BY <1>36 DEF BeginRollback, Acquire, DiskStill, Untouched
  <2>2. SelfKept(self)
    <3>1. tx[self] = t /\ pc[self] = "undo"
      BY <1>36, <1>d DEF BeginRollback, WithTx
    <3>2. Pending(t)
      BY <3>1 DEF CrashFree, ProcsInv, Ahead
    <3>3. /\ tx'[self] = t /\ left'[self] = Targets(t) /\ pc'[self] = "restore"
          /\ cmd'[self] = "rollback"
      BY <1>36, <3>1 DEF BeginRollback
    <3> QED
      BY <2>1, <3>2, <3>3 DEF DiskStill, SelfKept, Ahead, Backward, Targets, Replaced, Pending,
                    ValidSuccess, ApplyingPoints, RestoringPoints, IsFirst, IsLast
  <2>3. Restorable(t)
    BY <1>36, <1>d DEF BeginRollback, WithTx
  <2> QED
    BY <2>1, <2>2, <2>3, QuietStep, StuckNone, NotTorn, <1>36
       DEF BeginRollback, Acquire, CrashFree, DiskStill, RestoringPoints
<1>37. ASSUME NEW self \in Procs, RollbackRefuses(self)  PROVE CrashFree'
  <2>1. tx[self] = t /\ pc[self] = "undo"
    BY <1>37, <1>d DEF RollbackRefuses, WithTx
  <2>2. ValidSuccess(t)
    BY <2>1 DEF CrashFree, ProcsInv, Ahead
  <2> QED
    BY <1>37, <2>1, <2>2 DEF RollbackRefuses, Restorable, ValidSuccess
<1>38. ASSUME NEW self \in Procs, LockBusy(self)  PROVE CrashFree'
  <2>1. /\ DiskStill /\ Untouched(self) /\ pc'[self] \in {"idle", "recover", "mkdir"}
        /\ outcome'[self] = "conflict" => outcome[self] = "conflict"
    BY <1>38 DEF LockBusy, Finish, DiskStill, Untouched
  <2> QED
    BY <2>1, NothingOwed, QuietStep, StuckKept
       DEF CrashFree, DiskStill, RestoringPoints
<1>39. ASSUME NEW self \in Procs, Fail(self)  PROVE CrashFree'
  <2>1. /\ DiskStill /\ Untouched(self) /\ pc'[self] \in {"idle", "recover", "mkdir"}
        /\ outcome'[self] = "conflict" => outcome[self] = "conflict"
    BY <1>39 DEF Fail, Finish, DiskStill, Untouched
  <2> QED
    BY <2>1, NothingOwed, QuietStep, StuckKept
       DEF CrashFree, DiskStill, RestoringPoints
<1> QED
    BY <1>1, <1>2, <1>3, <1>4, <1>5, <1>6, <1>7, <1>8, <1>9, <1>10,
     <1>11, <1>12, <1>13, <1>14, <1>15, <1>16, <1>17, <1>18, <1>19,
     <1>20, <1>21, <1>22, <1>23, <1>24, <1>25, <1>26, <1>27, <1>28,
     <1>29, <1>30, <1>31, <1>32, <1>33, <1>34, <1>35, <1>36, <1>37,
     <1>38, <1>39
     DEF Next, LockedStep, CommandStep, Recovery, Restoring, Creating,
         Applying

-----------------------------------------------------------------------------
(* The refinement.                                                          *)

\* A reader of a single transaction finds its old bytes while it is in flight.
FlightValue(t) ==
    [p \in Paths |-> IF InFlight(t) /\ p \in Targets(t) THEN old[t][p] ELSE file[p]]

(* The mapped value of a single transaction needs no choice. *)
LEMMA ValueIs ==
    ASSUME NEW t \in Txs, Txs = {t}
    PROVE  logicalValue = FlightValue(t) /\ logicalValue' = FlightValue(t)'
<1>1. \A p \in Paths : InFlight(t) /\ p \in Targets(t) =>
          t = CHOOSE s \in Txs : InFlight(s) /\ p \in Targets(s)
  OBVIOUS
<1>2. \A p \in Paths : (InFlight(t))' /\ p \in Targets(t)' =>
          t = CHOOSE s \in Txs : (InFlight(s))' /\ p \in Targets(s)'
  OBVIOUS
<1>3. logicalValue = FlightValue(t)
  BY <1>1 DEF logicalValue, FlightValue
<1>4. logicalValue' = FlightValue(t)'
  BY <1>2 DEF logicalValue, FlightValue
<1> QED  BY <1>3, <1>4

AbsStep == [Atomic!AbsNext]_<<logicalValue, logicalStatus, logicalBatch, logicalBefore>>

\* Only an explicit rollback takes a committed transaction back.
KeepsCommit(t) ==
    Committed(t) /\ ~Committed(t)' =>
        \E self \in Procs : lock = self /\ cmd[self] = "rollback"

Goal(t) == AbsStep /\ KeepsCommit(t)

OffTargets(t) == \A p \in Paths \ Targets(t) : file'[p] = file[p]

(* A reader sees no difference while a transaction stays in flight, and none
   while nothing changes but the wording of its journal. *)
LEMMA IsStill ==
    ASSUME NEW t \in Txs, Txs = {t}, UNCHANGED <<new, old>>, OffTargets(t),
           \/ InFlight(t) /\ (InFlight(t))'
           \/ /\ file' = file /\ (Committed(t))' = Committed(t)
              /\ Pending(t) <=> (Pending(t))'
              /\ journal[t] = "none" <=> journal'[t] = "none"
    PROVE  Goal(t)
<1>1. Targets(t)' = Targets(t)
  BY DEF Targets
<1>2. FlightValue(t)' = FlightValue(t)
  BY <1>1 DEF FlightValue, OffTargets, InFlight, Pending
<1>3. logicalStatus' = logicalStatus
  BY DEF logicalStatus, InFlight, Pending, Committed
<1>4. logicalBatch' = logicalBatch /\ logicalBefore' = logicalBefore
  BY DEF logicalBatch, logicalBefore, journalled, InFlight, Pending
<1> QED
  BY <1>2, <1>3, <1>4, ValueIs DEF AbsStep, Goal, KeepsCommit, InFlight

(* What the mapped variables are of a transaction with a journal. *)
LEMMA PendingIs ==
    ASSUME NEW t \in Txs, Txs = {t}, UNCHANGED <<new, old>>,
           journal[t] # "none", journal'[t] # "none"
    PROVE  /\ logicalBatch' = logicalBatch /\ logicalBefore' = logicalBefore
           /\ logicalBatch[t] = new[t] /\ logicalBefore[t] = old[t]
           /\ Atomic!AbsTargets(logicalBatch[t]) = Targets(t)
           /\ \A s : logicalStatus' = [s2 \in Txs |-> s] =>
                logicalStatus' = [logicalStatus EXCEPT ![t] = s]
BY DEF logicalBatch, logicalBefore, journalled, Atomic!AbsTargets, Targets, logicalStatus

(* All the new bytes are there and the marker with them: the batch commits. *)
LEMMA IsCommit ==
    ASSUME NEW t \in Txs, Txs = {t}, UNCHANGED <<new, old>>, OffTargets(t),
           InFlight(t), (Committed(t))'
    PROVE  Goal(t)
<1>1. Targets(t)' = Targets(t) /\ journal[t] # "none" /\ journal'[t] # "none"
  BY DEF Targets, InFlight, Committed
<1>2. logicalStatus[t] = "open" /\ logicalStatus' = [s \in Txs |-> "committed"]
  BY DEF logicalStatus, InFlight, Committed
<1>3. \A p \in Targets(t) : file'[p] = new[t][p]
  BY <1>1 DEF Committed, ValidSuccess
<1>4. FlightValue(t)' = [p \in Paths |-> IF p \in Targets(t) THEN new[t][p]
                                         ELSE FlightValue(t)[p]]
  BY <1>1, <1>3 DEF FlightValue, InFlight, OffTargets
<1>5. Atomic!Commit(t)
  BY <1>1, <1>2, <1>4, PendingIs, ValueIs DEF Atomic!Commit
<1> QED
  BY <1>5 DEF AbsStep, Atomic!AbsNext, Goal, KeepsCommit, InFlight

(* The first target taken back makes the whole batch one in flight. *)
LEMMA IsRevert ==
    ASSUME NEW t \in Txs, Txs = {t}, UNCHANGED <<new, old>>, OffTargets(t),
           Committed(t), (InFlight(t))',
           NEW self \in Procs, lock = self, cmd[self] = "rollback"
    PROVE  Goal(t)
<1>1. Targets(t)' = Targets(t) /\ journal[t] # "none" /\ journal'[t] # "none"
  BY DEF Targets, InFlight, Committed
<1>2. logicalStatus[t] = "committed" /\ logicalStatus' = [s \in Txs |-> "open"]
  BY DEF logicalStatus, InFlight, Committed
<1>3. FlightValue(t)' = [p \in Paths |-> IF p \in Targets(t) THEN old[t][p]
                                         ELSE FlightValue(t)[p]]
  BY <1>1 DEF FlightValue, InFlight, OffTargets
<1>4. Atomic!Revert(t)
  BY <1>1, <1>2, <1>3, PendingIs, ValueIs DEF Atomic!Revert
<1> QED
  BY <1>4 DEF AbsStep, Atomic!AbsNext, Goal, KeepsCommit

(* A reader does not see a transaction that has no journal yet. *)
LEMMA IsNone ==
    ASSUME NEW t \in Txs, Txs = {t}, journal[t] = "none", journal'[t] = "none",
           file' = file
    PROVE  Goal(t)
<1>1. FlightValue(t)' = FlightValue(t)
  BY DEF FlightValue, InFlight
<1>2. logicalStatus' = logicalStatus
  BY DEF logicalStatus
<1>3. logicalBatch' = logicalBatch /\ logicalBefore' = logicalBefore
  BY DEF logicalBatch, logicalBefore, journalled
<1> QED
  BY <1>1, <1>2, <1>3, ValueIs DEF AbsStep, Goal, KeepsCommit, Committed

(* Nor does it see a step that leaves the disk alone. *)
LEMMA IsQuiet ==
    ASSUME NEW t \in Txs, Txs = {t}, UNCHANGED <<file, new, old, journal, success>>
    PROVE  Goal(t)
<1>1. (Committed(t))' = Committed(t) /\ (Pending(t) <=> (Pending(t))')
  BY DEF Committed, ValidSuccess, Pending, Targets
<1> QED
  BY <1>1, IsStill DEF OffTargets

(* Every step of an edit-free behaviour is a step of the atomic batch or none. *)
LEMMA AtomicStep ==
    ASSUME NEW t \in Txs, Txs = {t}, IInv, OwnInv, CrashFree,
           edits = 0, edits' = 0, [Next]_vars
    PROVE  Goal(t)
<1>a. /\ TypeOK /\ LockInv /\ JobInv /\ DirInv /\ ApplyInv /\ RestoreInv
  BY DEF IInv
<1>b. dirty = {}
  BY DEF OwnInv
<1>c. DiskInv /\ StuckInv /\ ProcsInv
  BY DEF CrashFree
<1>d. \A q \in Procs : pc[q] \in WithTx => tx[q] = t
  BY <1>a DEF JobInv
<1> USE <1>a, <1>b, NumberAssumption, SentinelAssumption
<1> USE DEF TypeOK, targets, store, log, call, outside, At, Goto, Locked, Unlocked
<1>1. CASE UNCHANGED vars
  BY <1>1, IsQuiet DEF vars
<1>2. CASE Edit
  BY <1>2 DEF Edit
<1>3. ASSUME NEW self \in Procs, BeginRecover(self)  PROVE Goal(t)
  BY <1>3, IsQuiet DEF BeginRecover, Begin, Acquire
<1>4. ASSUME NEW self \in Procs, BeginCreate(self)  PROVE Goal(t)
  BY <1>4, IsQuiet DEF BeginCreate, Begin, Acquire
<1>5. ASSUME NEW self \in Procs, RecoverSkip(self)  PROVE Goal(t)
  BY <1>5, IsQuiet DEF RecoverSkip, Examines
<1>6. ASSUME NEW self \in Procs, RecoverForward(self)  PROVE Goal(t)
  BY <1>6, IsQuiet DEF RecoverForward, Examines
<1>7. ASSUME NEW self \in Procs, RecoverFinalize(self)  PROVE Goal(t)
  <2>1. tx[self] = t /\ pc[self] = "finalize"
    BY <1>7, <1>d DEF RecoverFinalize, WithTx
  <2>2. Pending(t)
    BY <2>1, <1>c DEF ProcsInv, Ahead
  <2>3. UNCHANGED <<file, new, old, success>> /\ (Pending(t))' /\ journal'[t] # "none"
    BY <1>7, <2>1 DEF RecoverFinalize, Pending
  <2>4. (Committed(t))' = Committed(t)
    BY <2>2, <2>3 DEF Committed, ValidSuccess, Pending, Targets
  <2> QED
    BY <2>2, <2>3, <2>4, IsStill DEF OffTargets, Pending
<1>8. ASSUME NEW self \in Procs, RecoverBackward(self)  PROVE Goal(t)
  BY <1>8, IsQuiet DEF RecoverBackward, NeedsRollback, Examines
<1>9. ASSUME NEW self \in Procs, RecoverRefuses(self)  PROVE Goal(t)
  BY <1>9, IsQuiet DEF RecoverRefuses, Finish, NeedsRollback, Examines
<1>10. ASSUME NEW self \in Procs, RecoverDone(self)  PROVE Goal(t)
  <2>1. CASE cmd[self] = "recover"
    BY <1>10, <2>1, IsQuiet DEF RecoverDone, Finish
  <2>2. CASE cmd[self] # "recover"
    BY <1>10, <2>2, IsQuiet DEF RecoverDone
  <2> QED  BY <2>1, <2>2
<1>11. ASSUME NEW self \in Procs, RestoreSkip(self)  PROVE Goal(t)
  BY <1>11, IsQuiet DEF RestoreSkip, RestoresTarget
<1>12. ASSUME NEW self \in Procs, RestoreChoose(self)  PROVE Goal(t)
  BY <1>12, IsQuiet DEF RestoreChoose, RestoresTarget
<1>13. ASSUME NEW self \in Procs, RestoreRefuses(self)  PROVE Goal(t)
  BY <1>13, IsQuiet DEF RestoreRefuses, Finish, RestoresTarget
<1>14. ASSUME NEW self \in Procs, RestoreUnlink(self)  PROVE Goal(t)
  <2>1. PICK p \in Paths : RestoreUnlink(self)!(p)
    BY <1>14 DEF RestoreUnlink
  <2>2. tx[self] = t /\ pc[self] = "unlink" /\ p \in left[self] /\ p \in Targets(t)
    BY <2>1, <1>d DEF WithTx, JobInv, RestoringPoints, IsLast
  <2>3. Backward(self, t) /\ Pending(t) /\ lock = self
    BY <2>2, <1>c DEF ProcsInv, Backward, RestoringPoints, LockInv
  <2>4. UNCHANGED <<new, old, journal, success>> /\ OffTargets(t)
    BY <2>1, <2>2 DEF OffTargets
  <2>5. new[t][p] \in Contents /\ new[t][p] # Torn /\ new[t][p] # Absent
    BY <2>2 DEF Targets
  <2>6. (Pending(t))' /\ Targets(t)' = Targets(t)
    BY <2>3, <2>4 DEF Pending, Targets
  <2>7. file'[p] # new[t][p]
    BY <2>1, <2>5
  <2>8. (InFlight(t))'
    BY <2>2, <2>4, <2>6, <2>7 DEF InFlight, Pending, Committed, ValidSuccess
  <2>9. CASE Committed(t)
    <3>1. cmd[self] = "rollback"
      BY <2>2, <2>3, <2>9 DEF Backward, RestoringPoints, Committed, ValidSuccess
    <3> QED
      BY <2>3, <2>4, <2>8, <2>9, <3>1, IsRevert
  <2>10. CASE ~Committed(t)
    BY <2>3, <2>4, <2>8, <2>10, IsStill DEF InFlight, Pending
  <2> QED  BY <2>9, <2>10
<1>15. ASSUME NEW self \in Procs, RestoreTruncate(self)  PROVE Goal(t)
  <2>1. PICK p \in Paths : RestoreTruncate(self)!(p)
    BY <1>15 DEF RestoreTruncate
  <2>2. tx[self] = t /\ pc[self] = "truncate" /\ p \in left[self] /\ p \in Targets(t)
    BY <2>1, <1>d DEF WithTx, JobInv, RestoringPoints, IsLast
  <2>3. Backward(self, t) /\ Pending(t) /\ lock = self
    BY <2>2, <1>c DEF ProcsInv, Backward, RestoringPoints, LockInv
  <2>4. UNCHANGED <<new, old, journal, success>> /\ OffTargets(t)
    BY <2>1, <2>2 DEF OffTargets
  <2>5. new[t][p] \in Contents /\ new[t][p] # Torn /\ new[t][p] # Absent
    BY <2>2 DEF Targets
  <2>6. (Pending(t))' /\ Targets(t)' = Targets(t)
    BY <2>3, <2>4 DEF Pending, Targets
  <2>7. file'[p] # new[t][p]
    BY <2>1, <2>5
  <2>8. (InFlight(t))'
    BY <2>2, <2>4, <2>6, <2>7 DEF InFlight, Pending, Committed, ValidSuccess
  <2>9. CASE Committed(t)
    <3>1. cmd[self] = "rollback"
      BY <2>2, <2>3, <2>9 DEF Backward, RestoringPoints, Committed, ValidSuccess
    <3> QED
      BY <2>3, <2>4, <2>8, <2>9, <3>1, IsRevert
  <2>10. CASE ~Committed(t)
    BY <2>3, <2>4, <2>8, <2>10, IsStill DEF InFlight, Pending
  <2> QED  BY <2>9, <2>10
<1>16. ASSUME NEW self \in Procs, RestoreRewrite(self)  PROVE Goal(t)
  <2>1. PICK p \in Paths : RestoreRewrite(self)!(p)
    BY <1>16 DEF RestoreRewrite
  <2>2. tx[self] = t /\ pc[self] = "rewrite" /\ p \in left[self] /\ p \in Targets(t)
    BY <2>1, <1>d DEF WithTx, JobInv, RestoringPoints, IsLast
  <2>3. Backward(self, t) /\ Pending(t) /\ lock = self
    BY <2>2, <1>c DEF ProcsInv, Backward, RestoringPoints, LockInv
  <2>4. UNCHANGED <<new, old, journal, success>> /\ OffTargets(t)
    BY <2>1, <2>2 DEF OffTargets
  <2>5. new[t][p] \in Contents /\ new[t][p] # Torn /\ new[t][p] # Absent
    BY <2>2 DEF Targets
  <2>6. (Pending(t))' /\ Targets(t)' = Targets(t)
    BY <2>3, <2>4 DEF Pending, Targets
  <2>7. file[p] = Torn
    BY <2>1, <2>2 DEF RestoreInv, RestoringPoints
  <2>8. InFlight(t)
    BY <2>2, <2>3, <2>5, <2>7 DEF InFlight, Pending, Committed, ValidSuccess
  <2>9. CASE (Committed(t))'
    BY <2>4, <2>8, <2>9, IsCommit
  <2>10. CASE ~(Committed(t))'
    BY <2>4, <2>6, <2>8, <2>10, IsStill DEF InFlight, Pending
  <2> QED  BY <2>9, <2>10
<1>17. ASSUME NEW self \in Procs, RollbackWritten(self)  PROVE Goal(t)
  <2>1. /\ tx[self] = t /\ pc[self] = "restore" /\ left[self] = {} /\ lock = self
        /\ UNCHANGED <<file, new, old, success>> /\ journal'[t] = "rolled_back"
    BY <1>17, <1>d DEF RollbackWritten, WithTx, LockInv
  <2>2. Pending(t) /\ Backward(self, t)
    BY <2>1, <1>c DEF ProcsInv, Backward, RestoringPoints
  <2>3. \A p \in Targets(t) : file[p] = old[t][p]
    BY <2>1 DEF RestoreInv, RestoringPoints
  <2>4. FlightValue(t) = file /\ FlightValue(t)' = file
    BY <2>1, <2>3 DEF FlightValue, InFlight, Targets
  <2>5. logicalStatus' = [s \in Txs |-> "closed"] /\ journal[t] # "none"
    BY <2>1, <2>2 DEF logicalStatus, Pending
  <2>6. CASE ~Committed(t)
    <3>1. logicalStatus[t] = "open"
      BY <2>2, <2>6 DEF logicalStatus, Pending
    <3>2. Atomic!Close(t)
      BY <2>1, <2>4, <2>5, <3>1, PendingIs, ValueIs DEF Atomic!Close
    <3> QED
      BY <2>6, <3>2 DEF Goal, AbsStep, Atomic!AbsNext, KeepsCommit
  <2>7. CASE Committed(t)
    <3>1. logicalStatus[t] = "committed"
      BY <2>2, <2>7 DEF logicalStatus, Pending
    <3>2. \A p \in Targets(t) : new[t][p] = old[t][p]
      BY <2>3, <2>7 DEF Committed, ValidSuccess
    <3>3. Atomic!Withdraw(t)
      BY <2>1, <2>4, <2>5, <3>1, <3>2, PendingIs, ValueIs DEF Atomic!Withdraw
    <3>4. cmd[self] = "rollback"
      BY <2>1, <2>2, <2>7 DEF Backward, RestoringPoints, Committed, ValidSuccess
    <3> QED
      BY <2>1, <3>3, <3>4 DEF Goal, AbsStep, Atomic!AbsNext, KeepsCommit
  <2> QED  BY <2>6, <2>7
<1>18. ASSUME NEW self \in Procs, CreateExists(self)  PROVE Goal(t)
  BY <1>18, IsQuiet DEF CreateExists, Finish
<1>19. ASSUME NEW self \in Procs, MakeDirectory(self)  PROVE Goal(t)
  <2>1. journal[t] = "none" /\ journal'[t] = "none" /\ file' = file
    BY <1>19 DEF MakeDirectory, JobInv, DirInv
  <2> QED
    BY <2>1, IsNone
<1>20. ASSUME NEW self \in Procs, HashTarget(self)  PROVE Goal(t)
  <2>1. tx[self] = t /\ pc[self] = "hash"
    BY <1>20, <1>d DEF HashTarget, WithTx
  <2>2. journal[t] = "none" /\ journal'[t] = "none" /\ file' = file
    BY <1>20, <2>1 DEF HashTarget, DirInv
  <2> QED
    BY <2>2, IsNone
<1>21. ASSUME NEW self \in Procs, BackupTarget(self)  PROVE Goal(t)
  BY <1>21, IsQuiet DEF BackupTarget
<1>22. ASSUME NEW self \in Procs, BackupUnreadable(self)  PROVE Goal(t)
  BY <1>22, IsQuiet DEF BackupUnreadable, Finish
<1>23. ASSUME NEW self \in Procs, WriteInitialJournal(self)  PROVE Goal(t)
  <2>1. /\ tx[self] = t /\ pc[self] = "hash" /\ left[self] = {}
        /\ UNCHANGED <<file, new, old, success>> /\ journal'[t] = "prepared"
    BY <1>23, <1>d DEF WriteInitialJournal, WithTx
  <2>2. journal[t] = "none" /\ new[t] \in Batches
    BY <2>1 DEF DirInv, OwnInv
  <2>3. t \notin success /\ \A p \in Targets(t) : file[p] = old[t][p]
    BY <2>1, <1>c DEF ProcsInv, Ahead
  <2>4. logicalStatus[t] = "none" /\ logicalStatus' = [s \in Txs |-> "open"]
    BY <2>1, <2>2, <2>3 DEF logicalStatus, Committed, ValidSuccess
  <2>5. FlightValue(t) = file /\ FlightValue(t)' = file
    BY <2>1, <2>2, <2>3 DEF FlightValue, InFlight, Targets
  <2>6. Atomic!AbsTargets(new[t]) = Targets(t)
    BY DEF Atomic!AbsTargets, Targets
  <2>7. old[t] = [p \in Paths |-> IF p \in Targets(t) THEN file[p] ELSE Absent]
    BY <2>3 DEF OwnInv
  <2>8. /\ logicalBatch' = [logicalBatch EXCEPT ![t] = new[t]]
        /\ logicalBefore' = [logicalBefore EXCEPT ![t] = old[t]]
    BY <2>1 DEF logicalBatch, logicalBefore, journalled
  <2>9. logicalStatus' = [logicalStatus EXCEPT ![t] = "open"]
    BY <2>4 DEF logicalStatus
  <2>10. Atomic!Open(t)
    <3>1. logicalValue = file /\ logicalValue' = file
      BY <2>5, ValueIs
    <3>2. logicalBefore' = [logicalBefore EXCEPT ![t] =
             [p \in Paths |-> IF p \in Atomic!AbsTargets(new[t])
                                THEN logicalValue[p] ELSE Absent]]
      BY <3>1, <2>6, <2>7, <2>8
    <3>3. logicalStatus[t] = "none"
      BY <2>4
    <3> QED
      BY <3>1, <3>2, <3>3, <2>2, <2>8, <2>9 DEF Atomic!Open
  <2> QED
    BY <2>2, <2>10 DEF Goal, AbsStep, Atomic!AbsNext, KeepsCommit, Committed
<1>24. ASSUME NEW self \in Procs, BeginApply(self)  PROVE Goal(t)
  <2>1. /\ tx[self] = t /\ pc[self] = "created" /\ journal'[t] = "applying"
        /\ UNCHANGED <<file, new, old, success>>
    BY <1>24, <1>d DEF BeginApply, WithTx
  <2>2. t \notin success /\ journal[t] # "none"
    BY <2>1, <1>c DEF ProcsInv, Ahead, DirInv, WithTx
  <2>3. (InFlight(t))' /\ ~Committed(t)
    BY <2>1, <2>2 DEF InFlight, Committed, ValidSuccess
  <2>4. CASE journal[t] # "rolled_back"
    <3>1. InFlight(t)
      BY <2>2, <2>3, <2>4 DEF InFlight
    <3> QED
      BY <2>1, <2>3, <3>1, IsStill DEF OffTargets
  <2>5. CASE journal[t] = "rolled_back"
    <3>1. \A p \in Targets(t) : file[p] = old[t][p]
      BY <2>5, <1>c DEF DiskInv
    <3>2. FlightValue(t) = file /\ FlightValue(t)' = file
      BY <2>1, <2>5, <3>1 DEF FlightValue, InFlight, Targets
    <3>3. logicalStatus[t] = "closed" /\ logicalStatus' = [s \in Txs |-> "open"]
      BY <2>1, <2>3, <2>5 DEF logicalStatus, InFlight
    <3>4. Atomic!Reopen(t)
      <4>1. logicalValue = file /\ logicalValue' = file
        BY <3>2, ValueIs
      <4>2. journal[t] # "none" /\ journal'[t] # "none"
        BY <2>1, <2>2
      <4>3. /\ UNCHANGED <<logicalBatch, logicalBefore>> /\ logicalBefore[t] = old[t]
            /\ Atomic!AbsTargets(logicalBatch[t]) = Targets(t)
            /\ logicalStatus' = [logicalStatus EXCEPT ![t] = "open"]
        BY <2>1, <3>3, <4>2, PendingIs
      <4> QED
        <5>1. \A p \in Atomic!AbsTargets(logicalBatch[t]) :
                 logicalValue[p] = logicalBefore[t][p]
          BY <3>1, <4>1, <4>3
        <5> QED
          BY <3>3, <4>1, <4>3, <5>1 DEF Atomic!Reopen
    <3> QED
      BY <2>3, <3>4 DEF Goal, AbsStep, Atomic!AbsNext, KeepsCommit
  <2> QED  BY <2>4, <2>5
<1>25. ASSUME NEW self \in Procs, MarkTarget(self)  PROVE Goal(t)
  BY <1>25, IsQuiet DEF MarkTarget
<1>26. ASSUME NEW self \in Procs, CheckRefuses(self)  PROVE Goal(t)
  BY <1>26, IsQuiet DEF CheckRefuses, Finish, ChecksTarget
<1>27. ASSUME NEW self \in Procs, CheckAlreadyNew(self)  PROVE Goal(t)
  BY <1>27, IsQuiet DEF CheckAlreadyNew, ChecksTarget
<1>28. ASSUME NEW self \in Procs, CheckReplace(self)  PROVE Goal(t)
  BY <1>28, IsQuiet DEF CheckReplace, ChecksTarget
<1>29. ASSUME NEW self \in Procs, SwapTarget(self)  PROVE Goal(t)
  <2>1. PICK p \in Paths : SwapTarget(self)!(p)
    BY <1>29 DEF SwapTarget
  <2>2. tx[self] = t /\ pc[self] = "swap" /\ p \in Targets(t)
    BY <2>1, <1>d DEF WithTx, JobInv, ApplyingPoints, IsFirst
  <2>3. t \notin success /\ Pending(t)
    BY <2>2, <1>c DEF ProcsInv, Ahead, ApplyingPoints
  <2>4. UNCHANGED <<new, old, journal, success>> /\ OffTargets(t)
    BY <2>1, <2>2 DEF OffTargets
  <2>5. InFlight(t) /\ (InFlight(t))'
    BY <2>3, <2>4 DEF InFlight, Pending, Committed, ValidSuccess
  <2> QED
    BY <2>4, <2>5, IsStill
<1>30. ASSUME NEW self \in Procs, MarkSuccess(self)  PROVE Goal(t)
  <2>1. /\ tx[self] = t /\ pc[self] = "mark" /\ left[self] = {}
        /\ UNCHANGED <<file, new, old, journal>> /\ success' = success \cup {t}
    BY <1>30, <1>d DEF MarkSuccess, WithTx
  <2>2. t \notin success /\ Pending(t)
    BY <2>1, <1>c DEF ProcsInv, Ahead, ApplyingPoints
  <2>3. \A p \in Targets(t) : file[p] = new[t][p]
    BY <2>1 DEF ApplyInv, ApplyingPoints
  <2>4. InFlight(t) /\ (Committed(t))'
    BY <2>1, <2>2, <2>3 DEF InFlight, Pending, Committed, ValidSuccess, Targets
  <2> QED
    BY <2>1, <2>4, IsCommit DEF OffTargets
<1>31. ASSUME NEW self \in Procs, JournalSuccess(self)  PROVE Goal(t)
  <2>1. tx[self] = t /\ pc[self] = "success"
    BY <1>31, <1>d DEF JournalSuccess, WithTx
  <2>2. Pending(t)
    BY <2>1, <1>c DEF ProcsInv, Ahead
  <2>3. UNCHANGED <<file, new, old, success>> /\ (Pending(t))' /\ journal'[t] # "none"
    BY <1>31, <2>1 DEF JournalSuccess, Pending
  <2>4. (Committed(t))' = Committed(t)
    BY <2>2, <2>3 DEF Committed, ValidSuccess, Pending, Targets
  <2> QED
    BY <2>2, <2>3, <2>4, IsStill DEF OffTargets, Pending
<1>32. ASSUME NEW self \in Procs, MarkApplied(self)  PROVE Goal(t)
  BY <1>32, IsQuiet DEF MarkApplied
<1>33. ASSUME NEW self \in Procs, JournalCompleted(self)  PROVE Goal(t)
  <2>1. tx[self] = t /\ pc[self] = "complete"
    BY <1>33, <1>d DEF JournalCompleted, WithTx
  <2>2. Pending(t)
    BY <2>1, <1>c DEF ProcsInv, Ahead
  <2>3. UNCHANGED <<file, new, old, success>> /\ (Pending(t))' /\ journal'[t] # "none"
    BY <1>33, <2>1 DEF JournalCompleted, Pending
  <2>4. (Committed(t))' = Committed(t)
    BY <2>2, <2>3 DEF Committed, ValidSuccess, Pending, Targets
  <2> QED
    BY <2>2, <2>3, <2>4, IsStill DEF OffTargets, Pending
<1>34. ASSUME NEW self \in Procs, RecordArtifact(self)  PROVE Goal(t)
  BY <1>34, IsQuiet DEF RecordArtifact, Finish
<1>35. ASSUME NEW self \in Procs, RecordFails(self)  PROVE Goal(t)
  BY <1>35, IsQuiet DEF RecordFails
<1>36. ASSUME NEW self \in Procs, BeginRollback(self)  PROVE Goal(t)
  BY <1>36, IsQuiet DEF BeginRollback, Acquire
<1>37. ASSUME NEW self \in Procs, RollbackRefuses(self)  PROVE Goal(t)
  BY <1>37, IsQuiet DEF RollbackRefuses, Finish
<1>38. ASSUME NEW self \in Procs, LockBusy(self)  PROVE Goal(t)
  BY <1>38, IsQuiet DEF LockBusy, Finish
<1>39. ASSUME NEW self \in Procs, Fail(self)  PROVE Goal(t)
  BY <1>39, IsQuiet DEF Fail, Finish
<1> QED
    BY <1>1, <1>2, <1>3, <1>4, <1>5, <1>6, <1>7, <1>8, <1>9, <1>10,
     <1>11, <1>12, <1>13, <1>14, <1>15, <1>16, <1>17, <1>18, <1>19,
     <1>20, <1>21, <1>22, <1>23, <1>24, <1>25, <1>26, <1>27, <1>28,
     <1>29, <1>30, <1>31, <1>32, <1>33, <1>34, <1>35, <1>36, <1>37,
     <1>38, <1>39
     DEF Next, LockedStep, CommandStep, Recovery, Restoring, Creating,
         Applying

(* Edits are only ever counted up. *)
LEMMA EditsStep ==
    ASSUME TypeOK, [Next]_vars
    PROVE  edits' = 0 => edits = 0
<1> USE DEF targets, store, log, call, outside
<1>1. CASE UNCHANGED vars
  BY <1>1 DEF vars, targets, store, log, call, outside
<1>2. CASE Edit
  BY <1>2 DEF Edit, TypeOK
<1>3. ASSUME NEW self \in Procs, BeginRecover(self)
       PROVE  edits' = 0 => edits = 0
  BY <1>3 DEF BeginRecover, Begin, Acquire
<1>4. ASSUME NEW self \in Procs, BeginCreate(self)
       PROVE  edits' = 0 => edits = 0
  BY <1>4 DEF BeginCreate, Begin, Acquire
<1>5. ASSUME NEW self \in Procs, RecoverSkip(self)
       PROVE  edits' = 0 => edits = 0
  BY <1>5 DEF RecoverSkip, Examines
<1>6. ASSUME NEW self \in Procs, RecoverForward(self)
       PROVE  edits' = 0 => edits = 0
  BY <1>6 DEF RecoverForward, Examines
<1>7. ASSUME NEW self \in Procs, RecoverFinalize(self)
       PROVE  edits' = 0 => edits = 0
  BY <1>7 DEF RecoverFinalize
<1>8. ASSUME NEW self \in Procs, RecoverBackward(self)
       PROVE  edits' = 0 => edits = 0
  BY <1>8 DEF RecoverBackward, NeedsRollback, Examines
<1>9. ASSUME NEW self \in Procs, RecoverRefuses(self)
       PROVE  edits' = 0 => edits = 0
  BY <1>9 DEF RecoverRefuses, Finish, NeedsRollback, Examines
<1>10. ASSUME NEW self \in Procs, RecoverDone(self)
       PROVE  edits' = 0 => edits = 0
  BY <1>10 DEF RecoverDone, Finish
<1>11. ASSUME NEW self \in Procs, RestoreSkip(self)
       PROVE  edits' = 0 => edits = 0
  BY <1>11 DEF RestoreSkip, RestoresTarget
<1>12. ASSUME NEW self \in Procs, RestoreChoose(self)
       PROVE  edits' = 0 => edits = 0
  BY <1>12 DEF RestoreChoose, RestoresTarget
<1>13. ASSUME NEW self \in Procs, RestoreRefuses(self)
       PROVE  edits' = 0 => edits = 0
  BY <1>13 DEF RestoreRefuses, Finish, RestoresTarget
<1>14. ASSUME NEW self \in Procs, RestoreUnlink(self)
       PROVE  edits' = 0 => edits = 0
  BY <1>14 DEF RestoreUnlink
<1>15. ASSUME NEW self \in Procs, RestoreTruncate(self)
       PROVE  edits' = 0 => edits = 0
  BY <1>15 DEF RestoreTruncate
<1>16. ASSUME NEW self \in Procs, RestoreRewrite(self)
       PROVE  edits' = 0 => edits = 0
  BY <1>16 DEF RestoreRewrite
<1>17. ASSUME NEW self \in Procs, RollbackWritten(self)
       PROVE  edits' = 0 => edits = 0
  BY <1>17 DEF RollbackWritten, Finish
<1>18. ASSUME NEW self \in Procs, CreateExists(self)
       PROVE  edits' = 0 => edits = 0
  BY <1>18 DEF CreateExists, Finish
<1>19. ASSUME NEW self \in Procs, MakeDirectory(self)
       PROVE  edits' = 0 => edits = 0
  BY <1>19 DEF MakeDirectory
<1>20. ASSUME NEW self \in Procs, HashTarget(self)
       PROVE  edits' = 0 => edits = 0
  BY <1>20 DEF HashTarget
<1>21. ASSUME NEW self \in Procs, BackupTarget(self)
       PROVE  edits' = 0 => edits = 0
  BY <1>21 DEF BackupTarget
<1>22. ASSUME NEW self \in Procs, BackupUnreadable(self)
       PROVE  edits' = 0 => edits = 0
  BY <1>22 DEF BackupUnreadable, Finish
<1>23. ASSUME NEW self \in Procs, WriteInitialJournal(self)
       PROVE  edits' = 0 => edits = 0
  BY <1>23 DEF WriteInitialJournal
<1>24. ASSUME NEW self \in Procs, BeginApply(self)
       PROVE  edits' = 0 => edits = 0
  BY <1>24 DEF BeginApply, Acquire
<1>25. ASSUME NEW self \in Procs, MarkTarget(self)
       PROVE  edits' = 0 => edits = 0
  BY <1>25 DEF MarkTarget
<1>26. ASSUME NEW self \in Procs, CheckRefuses(self)
       PROVE  edits' = 0 => edits = 0
  BY <1>26 DEF CheckRefuses, Finish, ChecksTarget
<1>27. ASSUME NEW self \in Procs, CheckAlreadyNew(self)
       PROVE  edits' = 0 => edits = 0
  BY <1>27 DEF CheckAlreadyNew, ChecksTarget
<1>28. ASSUME NEW self \in Procs, CheckReplace(self)
       PROVE  edits' = 0 => edits = 0
  BY <1>28 DEF CheckReplace, ChecksTarget
<1>29. ASSUME NEW self \in Procs, SwapTarget(self)
       PROVE  edits' = 0 => edits = 0
  BY <1>29 DEF SwapTarget
<1>30. ASSUME NEW self \in Procs, MarkSuccess(self)
       PROVE  edits' = 0 => edits = 0
  BY <1>30 DEF MarkSuccess
<1>31. ASSUME NEW self \in Procs, JournalSuccess(self)
       PROVE  edits' = 0 => edits = 0
  BY <1>31 DEF JournalSuccess
<1>32. ASSUME NEW self \in Procs, MarkApplied(self)
       PROVE  edits' = 0 => edits = 0
  BY <1>32 DEF MarkApplied
<1>33. ASSUME NEW self \in Procs, JournalCompleted(self)
       PROVE  edits' = 0 => edits = 0
  BY <1>33 DEF JournalCompleted
<1>34. ASSUME NEW self \in Procs, RecordArtifact(self)
       PROVE  edits' = 0 => edits = 0
  BY <1>34 DEF RecordArtifact, Finish
<1>35. ASSUME NEW self \in Procs, RecordFails(self)
       PROVE  edits' = 0 => edits = 0
  BY <1>35 DEF RecordFails
<1>36. ASSUME NEW self \in Procs, BeginRollback(self)
       PROVE  edits' = 0 => edits = 0
  BY <1>36 DEF BeginRollback, Acquire
<1>37. ASSUME NEW self \in Procs, RollbackRefuses(self)
       PROVE  edits' = 0 => edits = 0
  BY <1>37 DEF RollbackRefuses, Finish
<1>38. ASSUME NEW self \in Procs, LockBusy(self)  PROVE edits' = 0 => edits = 0
  BY <1>38 DEF LockBusy, Finish
<1>39. ASSUME NEW self \in Procs, Fail(self)  PROVE edits' = 0 => edits = 0
  BY <1>39 DEF Fail, Finish
<1> QED
    BY <1>1, <1>2, <1>3, <1>4, <1>5, <1>6, <1>7, <1>8, <1>9, <1>10,
     <1>11, <1>12, <1>13, <1>14, <1>15, <1>16, <1>17, <1>18, <1>19,
     <1>20, <1>21, <1>22, <1>23, <1>24, <1>25, <1>26, <1>27, <1>28,
     <1>29, <1>30, <1>31, <1>32, <1>33, <1>34, <1>35, <1>36, <1>37,
     <1>38, <1>39
     DEF Next, LockedStep, CommandStep, Recovery, Restoring, Creating,
         Applying

(* At the start no transaction exists and nothing is torn. *)
LEMMA InitCrash == Init => OwnInv /\ CrashFree
<1> SUFFICES ASSUME Init  PROVE OwnInv /\ CrashFree
  OBVIOUS
<1> USE NumberAssumption, SentinelAssumption, BatchAssumption DEF Init
<1>1. OwnInv
  BY DEF OwnInv, Creates, CreatorPoints, RestoringPoints, Targets
<1>2. \A p \in Paths : file[p] # Torn
  OBVIOUS
<1>3. DiskInv
  BY <1>2 DEF DiskInv
<1>4. StuckInv
  BY DEF StuckInv
<1>5. ProcsInv
  BY DEF ProcsInv, Ahead, Backward, ApplyingPoints, RestoringPoints
<1> QED
  BY <1>1, <1>3, <1>4, <1>5 DEF CrashFree

(* The strengthened invariant of a single transaction. *)
LEMMA CrashInvariance ==
    ASSUME NEW t \in Txs, Txs = {t}
    PROVE  Spec => [](IInv /\ OwnInv /\ CrashInv)
<1>1. Init => IInv /\ OwnInv /\ CrashInv
  BY InitIInv, InitCrash DEF CrashInv
<1>2. IInv /\ OwnInv /\ CrashInv /\ [Next]_vars => (IInv /\ OwnInv /\ CrashInv)'
  <2> SUFFICES ASSUME IInv, OwnInv, CrashInv, [Next]_vars
               PROVE  (IInv /\ OwnInv /\ CrashInv)'
    OBVIOUS
  <2>1. IInv'
    BY StepIInv
  <2>2. OwnInv'
    BY OwnStep, NumberAssumption, SentinelAssumption, BatchAssumption DEF IInv
  <2>3. ASSUME edits' = 0  PROVE CrashFree'
    <3>1. edits = 0
      BY <2>3, EditsStep DEF IInv
    <3> QED
      BY <2>3, <3>1, CrashStep DEF CrashInv
  <2> QED
    BY <2>1, <2>2, <2>3 DEF CrashInv
<1> QED
  BY <1>1, <1>2, PTL DEF Spec

(* Whatever its processes do and wherever they are stopped, a transaction on its
   own can be recovered as long as no editor has written to a target: every
   backup is there, the targets replaced are a prefix below next_target, each
   target holds bytes its record names or is the torn one of an interrupted
   restore, and a conflict is only ever reported over such a torn target. *)
THEOREM CrashRecoverable ==
    ASSUME NEW t \in Txs, Txs = {t}
    PROVE  Spec => [](edits = 0 => CrashConsistent)
<1>1. IInv /\ OwnInv /\ CrashInv => (edits = 0 => CrashConsistent)
  <2> SUFFICES ASSUME IInv, OwnInv, CrashInv, edits = 0  PROVE CrashConsistent
    OBVIOUS
  <2>1. BackupsMatch /\ DiskInv /\ StuckInv
    BY DEF IInv, CrashInv, CrashFree
  <2>2. ReplacedPrefix
    BY <2>1 DEF ReplacedPrefix, DiskInv
  <2>3. PendingRecoverable
    BY <2>1 DEF PendingRecoverable, DiskInv
  <2>4. ConflictExplained
    BY <2>1 DEF ConflictExplained, StuckInv, InTheWay
  <2> QED
    BY <2>1, <2>2, <2>3, <2>4 DEF CrashConsistent
<1> QED
  BY <1>1, CrashInvariance, PTL

(* The commit point holds: once every target is new and success.json says so, no
   failure, no crash and no recovery takes the transaction back; only an
   explicit rollback, by the holder of the lock, does. *)
THEOREM CommitHolds ==
    ASSUME NEW t \in Txs, Txs = {t}
    PROVE  Spec /\ [](edits = 0) => CommittedStays
<1>1. /\ IInv /\ OwnInv /\ CrashInv /\ edits = 0 /\ (edits = 0)' /\ [Next]_vars
      => [UndoneOnRequest]_vars
  BY AtomicStep DEF CrashInv, Goal, KeepsCommit, UndoneOnRequest
<1> QED
  BY <1>1, CrashInvariance, PTL DEF Spec, CommittedStays

(* The journal implements the atomic batch: a reader who recovers first finds
   the targets of a batch all new or all old, at every moment of every crash,
   failure and interleaving of a behaviour no editor takes part in. *)
THEOREM BatchIsAtomic ==
    ASSUME NEW t \in Txs, Txs = {t}
    PROVE  Spec /\ [](edits = 0) => AtomicSpec
<1>1. Init => Atomic!AbsInit
  <2> SUFFICES ASSUME Init  PROVE Atomic!AbsInit
    OBVIOUS
  <2>1. FlightValue(t) = file /\ file \in InitFiles
    BY BatchAssumption DEF Init, FlightValue, InFlight
  <2>2. logicalStatus = [s \in Txs |-> "none"]
    BY DEF Init, logicalStatus
  <2>3. /\ logicalBatch = [s \in Txs |-> [p \in Paths |-> Keep]]
        /\ logicalBefore = [s \in Txs |-> [p \in Paths |-> Absent]]
    BY DEF Init, logicalBatch, logicalBefore, journalled
  <2> QED
    BY <2>1, <2>2, <2>3, ValueIs DEF Atomic!AbsInit
<1>2. /\ IInv /\ OwnInv /\ CrashInv /\ edits = 0 /\ (edits = 0)' /\ [Next]_vars
      => [Atomic!AbsNext]_(Atomic!absVars)
  BY AtomicStep DEF CrashInv, Goal, AbsStep, Atomic!absVars
<1> QED
  BY <1>1, <1>2, CrashInvariance, PTL DEF Spec, AtomicSpec, Atomic!AbsSpec
=============================================================================
