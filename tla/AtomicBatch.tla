----------------------------- MODULE AtomicBatch -----------------------------
(***************************************************************************)
(* What a journalled transaction promises: the targets of one batch change *)
(* all together or not at all, and a batch that is taken back is taken     *)
(* back as a whole.  There is no journal, no lock and no crash here: value *)
(* is what a reader who runs recover first would find.                     *)
(***************************************************************************)
CONSTANTS Txs, Paths, Contents, Batches, InitFiles, Keep, Absent, Torn

VARIABLES value, status, batch, before

absVars == <<value, status, batch, before>>

AbsTargets(b) == {p \in Paths : b[p] # Keep}

AbsInit ==
    /\ value \in InitFiles
    /\ status = [t \in Txs |-> "none"]
    /\ batch = [t \in Txs |-> [p \in Paths |-> Keep]]
    /\ before = [t \in Txs |-> [p \in Paths |-> Absent]]

\* The transaction exists on disk; nobody sees a difference.
Open(t) ==
    /\ status[t] = "none"
    /\ status' = [status EXCEPT ![t] = "open"]
    /\ \E b \in Batches :
          /\ batch' = [batch EXCEPT ![t] = b]
          /\ before' = [before EXCEPT ![t] =
                [p \in Paths |-> IF p \in AbsTargets(b) THEN value[p]
                                                        ELSE Absent]]
    /\ UNCHANGED value

\* A transaction another process already rolled back is applied again.
Reopen(t) ==
    /\ status[t] = "closed"
    /\ \A p \in AbsTargets(batch[t]) : value[p] = before[t][p]
    /\ status' = [status EXCEPT ![t] = "open"]
    /\ UNCHANGED <<value, batch, before>>

\* Every target takes its new bytes in one step.
Commit(t) ==
    /\ status[t] = "open"
    /\ status' = [status EXCEPT ![t] = "committed"]
    /\ value' = [p \in Paths |-> IF p \in AbsTargets(batch[t])
                                   THEN batch[t][p] ELSE value[p]]
    /\ UNCHANGED <<batch, before>>

\* An explicit rollback: every target takes its old bytes in one step.
Revert(t) ==
    /\ status[t] = "committed"
    /\ status' = [status EXCEPT ![t] = "open"]
    /\ value' = [p \in Paths |-> IF p \in AbsTargets(batch[t])
                                   THEN before[t][p] ELSE value[p]]
    /\ UNCHANGED <<batch, before>>

Close(t) ==
    /\ status[t] = "open"
    /\ status' = [status EXCEPT ![t] = "closed"]
    /\ UNCHANGED <<value, batch, before>>

\* A batch that changed nothing is rolled back: no target shows a difference.
Withdraw(t) ==
    /\ status[t] = "committed"
    /\ \A p \in AbsTargets(batch[t]) : batch[t][p] = before[t][p]
    /\ status' = [status EXCEPT ![t] = "closed"]
    /\ UNCHANGED <<value, batch, before>>

AbsNext ==
    \E t \in Txs :
        \/ Open(t) \/ Reopen(t) \/ Commit(t) \/ Revert(t) \/ Close(t)
        \/ Withdraw(t)

AbsSpec == AbsInit /\ [][AbsNext]_absVars
=============================================================================
