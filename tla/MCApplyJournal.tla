---------------------------- MODULE MCApplyJournal ----------------------------
(* The instances of ApplyJournal that TLC checks.                           *)
EXTENDS ApplyJournal, TLC

CONSTANTS p1, p2, a, b, c

TwoPaths == {1, 2}

\* One target exists and one does not.
MixedTree == {[p \in TwoPaths |-> IF p = 1 THEN a ELSE Absent]}

\* A batch of both targets, and one that writes the first target back.
UndoBatches == {[p \in TwoPaths |-> b],
                [p \in TwoPaths |-> IF p = 1 THEN a ELSE Keep]}

ThreePaths == {1, 2, 3}
AnyTree3 == [ThreePaths -> {a, Absent}]
\* Every set of targets, and a last target given the bytes it may hold already.
AnyBatch3 == {f \in [ThreePaths -> {a, b, Keep}] :
                 /\ \E p \in ThreePaths : f[p] # Keep
                 /\ \A p \in ThreePaths : f[p] = a => p = 3 /\ f[2] = Keep}

OneTx == {1}
TwoTxs == {1, 2}

ProcSymmetry == Permutations(Procs)
=============================================================================
