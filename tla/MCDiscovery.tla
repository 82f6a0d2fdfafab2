------------------------------ MODULE MCDiscovery -----------------------------
(* The instances of Discovery that TLC checks.                               *)
EXTENDS Discovery, TLC

CONSTANTS p1, p2, g1, g2, t1, t2

\* Processes, texts and gates are interchangeable: no assumption or property
\* names one of them.
Symmetric == {a @@ b @@ c : a \in Permutations(Procs),
                           b \in Permutations(Texts),
                           c \in Permutations(Gates)}

\* One group that every gate affects and every claim supports.
AllGates == [group \in Groups |-> Gates]
AllClaims == [group \in Groups |-> Claims]
=============================================================================
