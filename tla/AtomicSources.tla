---------------------------- MODULE AtomicSources ----------------------------
(***************************************************************************)
(* What a reload promises a reader of the persistent sources: either every *)
(* source it was asked for takes a newer version and the next generation,  *)
(* all in one step, or nothing changes.  There is no lock, no handle, no   *)
(* swap and no failure here.                                               *)
(***************************************************************************)
EXTENDS Integers

CONSTANTS Threads,     \* those who ask for reloads
          Sources,     \* every source
          Visible      \* those a reader sees without binding them

VARIABLES version,     \* what each visible source resolves to
          generation,  \* the published generation of each source
          shut,        \* the registry is closed
          asked        \* the sources each thread is reloading

atomicVars == <<version, generation, shut, asked>>

AtomicInit ==
    /\ version = [s \in Visible |-> 1]
    /\ generation = [s \in Sources |-> 1]
    /\ shut = FALSE
    /\ asked = [t \in Threads |-> {}]

\* One source, or all of them.
Ask(t) ==
    /\ ~shut
    /\ asked[t] = {}
    /\ \E S \in {{s} : s \in Sources} \cup {Sources} :
          asked' = [asked EXCEPT ![t] = S]
    /\ UNCHANGED <<version, generation, shut>>

\* Newer versions for exactly the sources asked for, none served before.
Advance(t) ==
    /\ ~shut
    /\ generation' = [s \in Sources |->
                         IF s \in asked[t] THEN generation[s] + 1
                                           ELSE generation[s]]
    /\ DOMAIN version' = Visible
    /\ \A s \in Visible : IF s \in asked[t] THEN version'[s] > version[s]
                                            ELSE version'[s] = version[s]
    /\ asked' = [asked EXCEPT ![t] = {}]
    /\ UNCHANGED shut

Refuse(t) ==
    /\ asked[t] # {}
    /\ asked' = [asked EXCEPT ![t] = {}]
    /\ UNCHANGED <<version, generation, shut>>

Shut ==
    /\ ~shut
    /\ shut' = TRUE
    /\ version' = [s \in Visible |-> 0]
    /\ UNCHANGED <<generation, asked>>

AtomicNext == Shut \/ \E t \in Threads : Ask(t) \/ Advance(t) \/ Refuse(t)

AtomicSpec == AtomicInit /\ [][AtomicNext]_atomicVars
=============================================================================
