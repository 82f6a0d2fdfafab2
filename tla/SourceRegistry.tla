---------------------------- MODULE SourceRegistry ----------------------------
(***************************************************************************)
(* The source registry of the query engine: selayer/sources/registry.py,   *)
(* with the query path of selayer/query.py on top of it.                   *)
(*                                                                         *)
(* Threads share one DuckDB connection and one RLock.  A reload prepares a *)
(* candidate for every source it covers, swaps the registrations of the    *)
(* connection one by one, publishes all new generations at once, or puts   *)
(* the old registrations back; the handles it has replaced are closed      *)
(* AFTER the lock is released.  A query binds its query-scoped sources,    *)
(* executes and fetches, all under the lock.                               *)
(*                                                                         *)
(* reload_source is the reload of one source and reload_all that of all of *)
(* them: the two methods take the same steps.  A handle is <<s, n>>, the   *)
(* n-th resource an adapter has prepared for source s.  Registered schema  *)
(* and data are whatever that resource was at the time.                    *)
(***************************************************************************)
EXTENDS Integers, Sequences, FiniteSets

CONSTANTS
    Threads,          \* threads that share the registry
    Sources,          \* sorted source identifiers
    Kind,             \* what each source's connector is, see Kinds
    NoThread,         \* the lock is free; no result on the connection
    Other,            \* a result that answers no query (that of a DETACH)
    Nothing,          \* no registration; no handle
    Provider,         \* a registered handle without a resource
    MaxMade,          \* bound: handles prepared per source
    MaxFaults,        \* bound: adapter calls that raise, and schema drifts
    MaxLostRestores,  \* bound: restore_quietly calls that raise and are swallowed
    MaxNest           \* bound: contexts a thread opens inside one another

\* Arrow datasets and Delta tables; attached databases; one-shot PyArrow
\* readers; Iceberg tables.  The last two are query-scoped.
Kinds == {"dataset", "database", "reader", "iceberg"}

ASSUME RegistryNumbers ==
    /\ Sources \subseteq Nat \ {0}
    /\ MaxMade \in Nat /\ MaxFaults \in Nat /\ MaxLostRestores \in Nat
    /\ MaxNest \in Nat

ASSUME RegistryKinds == Kind \in [Sources -> Kinds]

ASSUME RegistrySentinels ==
    NoThread \notin Threads /\ Other \notin Threads /\ NoThread # Other

Scoped == {s \in Sources : Kind[s] \in {"reader", "iceberg"}}
Persistent == Sources \ Scoped
Handles == Sources \X (Nat \ {0})

ASSUME RegistrySlots ==
    Nothing \notin Handles /\ Provider \notin Handles /\ Nothing # Provider

VARIABLES
    owner,      \* the RLock: its owner ...
    depth,      \* ... and how often the owner has taken it
    closed,     \* SourceRegistry._closed
    reg,        \* _registrations: the handle of each source
    gen,        \* _registrations: the generation of each source
    conn,       \* what each stable name resolves to on the connection
    attached,   \* database handles with an alias attached to the connection
    result,     \* whose query the connection's current result answers
    live,       \* handles prepared and not closed
    made,       \* handles prepared per source so far
    pc,         \* where each thread stands, "idle" outside every method
    goal,       \* reload: the sources it covers
    todo,       \* the sources the current loop has still to visit
    cand,       \* reload: the candidates
    trash,      \* reload: the cleanup list
    ctx,        \* the bind and scan contexts a thread has open, innermost last
    answer,     \* the result a thread fetched last
    faults,     \* faults so far
    lost        \* swallowed restore failures so far

rlock == <<owner, depth>>
table == <<closed, reg, gen>>
duck  == <<conn, attached, result>>
pool  == <<live, made>>
job   == <<goal, todo, cand, trash>>
bad   == <<faults, lost>>
vars  == <<rlock, table, duck, pool, pc, job, ctx, answer, bad>>

Slot == Handles \cup {Nothing, Provider}
None == [s \in Sources |-> Nothing]
Points == {"idle", "prepare", "swap", "restore", "cleanup", "binding", "fetch"}
\* What a context streams: a query's streams nothing.
Streams == {"nothing", "reader", "cancelled"}
Context == [srcs : SUBSET Sources, bound : SUBSET Handles, stream : Streams]

TypeOK ==
    /\ owner \in Threads \cup {NoThread}
    /\ depth \in Nat
    /\ closed \in BOOLEAN
    /\ reg \in [Sources -> Slot]
    /\ gen \in [Sources -> Nat]
    /\ conn \in [Sources -> Slot]
    /\ attached \subseteq live
    /\ result \in Threads \cup {NoThread, Other}
    /\ live \subseteq Handles
    /\ made \in [Sources -> Nat]
    /\ pc \in [Threads -> Points]
    /\ goal \in [Threads -> SUBSET Sources]
    /\ todo \in [Threads -> SUBSET Sources]
    /\ cand \in [Threads -> [Sources -> Slot]]
    /\ trash \in [Threads -> SUBSET Handles]
    /\ ctx \in [Threads -> Seq(Context)]
    /\ answer \in [Threads -> Threads \cup {NoThread, Other}]
    /\ faults \in Nat /\ lost \in Nat

\* What is registered for a handle: a one-shot reader is closed after it was
\* inspected, and the registry keeps its provider only.
Kept(s, h) == IF Kind[s] = "reader" THEN Provider ELSE h

\* SourceRegistry.create succeeded: every source prepared, inspected,
\* registered.  (When it fails it closes all it has made and the connection,
\* and there is no registry.)
Init ==
    /\ owner = NoThread /\ depth = 0
    /\ closed = FALSE
    /\ reg = [s \in Sources |-> Kept(s, <<s, 1>>)]
    /\ gen = [s \in Sources |-> 1]
    /\ conn = [s \in Sources |-> IF s \in Scoped THEN Nothing ELSE <<s, 1>>]
    /\ attached = {<<s, 1>> : s \in {t \in Sources : Kind[t] = "database"}}
    /\ result = NoThread
    /\ live = {<<s, 1>> : s \in {t \in Sources : Kind[t] # "reader"}}
    /\ made = [s \in Sources |-> 1]
    /\ pc = [self \in Threads |-> "idle"]
    /\ goal = [self \in Threads |-> {}]
    /\ todo = [self \in Threads |-> {}]
    /\ cand = [self \in Threads |-> None]
    /\ trash = [self \in Threads |-> {}]
    /\ ctx = [self \in Threads |-> <<>>]
    /\ answer = [self \in Threads |-> NoThread]
    /\ faults = 0 /\ lost = 0

-----------------------------------------------------------------------------
At(self, label) == pc[self] = label
Goto(self, label) == pc' = [pc EXCEPT ![self] = label]
First(s, S) == s \in S /\ \A t \in S : s <= t
Last(s, S)  == s \in S /\ \A t \in S : t <= s
HandlesOf(f) == {f[s] : s \in Sources} \cap Handles

\* Mutant of Enter: the lock is not taken into account.
EnterFree(self) == owner' = self /\ depth' = depth + 1

\* RLock.acquire: re-entrant for its owner.
Enter(self) ==
    /\ owner \in {NoThread, self}
    /\ owner' = self
    /\ depth' = depth + 1

\* RLock.release.
Leave(self) ==
    /\ depth' = depth - 1
    /\ owner' = IF depth = 1 THEN NoThread ELSE owner

Fault == faults < MaxFaults /\ faults' = faults + 1 /\ UNCHANGED lost

-----------------------------------------------------------------------------
(* reload_source and reload_all.                                            *)

\* Taking the lock with the registry open; a closed registry raises.
BeginReload(self) ==
    /\ At(self, "idle")
    /\ ~closed
    /\ Enter(self)
    /\ \E S \in {{s} : s \in Sources} \cup {Sources} :
          /\ goal' = [goal EXCEPT ![self] = S]
          /\ todo' = [todo EXCEPT ![self] = S]
          /\ \A s \in S : made[s] < MaxMade
    /\ cand' = [cand EXCEPT ![self] = None]
    /\ Goto(self, "prepare")
    /\ UNCHANGED <<table, duck, pool, trash, ctx, answer, bad>>

Prepares(self, s) == At(self, "prepare") /\ First(s, todo[self])

\* The handle the adapter makes next.
Fresh(s) == <<s, made[s] + 1>>

\* _prepare_candidate and compare_schemas succeed.
PrepareCandidate(self) ==
    \E s \in Sources :
        /\ Prepares(self, s)
        /\ made' = [made EXCEPT ![s] = @ + 1]
        /\ live' = live \cup {Fresh(s)}
        /\ cand' = [cand EXCEPT ![self][s] = Kept(s, Fresh(s))]
        /\ trash' = [trash EXCEPT ![self] =
                        IF Kind[s] = "reader" THEN @ \cup {Fresh(s)} ELSE @]
        /\ todo' = [todo EXCEPT ![self] = @ \ {s}]
        /\ UNCHANGED <<rlock, table, duck, pc, goal, ctx, answer, bad>>

\* The reload is over; what it has to close is closed after the release.
GiveUp(self, more) ==
    /\ trash' = [trash EXCEPT ![self] = @ \cup more]
    /\ todo' = [todo EXCEPT ![self] = {}]
    /\ cand' = [cand EXCEPT ![self] = None]
    /\ goal' = [goal EXCEPT ![self] = {}]
    /\ Leave(self)
    /\ Goto(self, "cleanup")

\* Mutant of PrepareFails: a candidate that fails inspection is forgotten.
PrepareFailsLeaking(self) ==
    \E s \in Sources :
        /\ Prepares(self, s)
        /\ Fault
        /\ \/ /\ GiveUp(self, HandlesOf(cand[self]))
              /\ UNCHANGED pool
           \/ /\ GiveUp(self, HandlesOf(cand[self]))
              /\ made' = [made EXCEPT ![s] = @ + 1]
              /\ live' = live \cup {Fresh(s)}
        /\ UNCHANGED <<table, duck, ctx, answer>>

\* adapter.prepare raises, or inspect_schema does, or the schema has drifted.
PrepareFails(self) ==
    \E s \in Sources :
        /\ Prepares(self, s)
        /\ Fault
        /\ \/ /\ GiveUp(self, HandlesOf(cand[self]))
              /\ UNCHANGED pool
           \/ /\ GiveUp(self, HandlesOf(cand[self]) \cup {Fresh(s)})
              /\ made' = [made EXCEPT ![s] = @ + 1]
              /\ live' = live \cup {Fresh(s)}
        /\ UNCHANGED <<table, duck, ctx, answer>>

BeginSwap(self) ==
    /\ At(self, "prepare")
    /\ todo[self] = {}
    /\ todo' = [todo EXCEPT ![self] = goal[self]]
    /\ Goto(self, "swap")
    /\ UNCHANGED <<rlock, table, duck, pool, goal, cand, trash, ctx, answer, bad>>

Swaps(self, s) == At(self, "swap") /\ First(s, todo[self])

\* What adapter.register leaves on the connection.  An attached database runs
\* statements there, whose result replaces the one a query may have left.
Registers(s, h) ==
    /\ conn' = [conn EXCEPT ![s] = h]
    /\ attached' = IF Kind[s] = "database" THEN attached \cup {h} ELSE attached
    /\ result' = IF Kind[s] = "database" THEN Other ELSE result

\* Mutant of SwapCandidate: the generation is published with each swap.
SwapAndPublish(self) ==
    \E s \in Sources :
        /\ Swaps(self, s)
        /\ IF s \in Scoped THEN UNCHANGED duck ELSE Registers(s, cand[self][s])
        /\ todo' = [todo EXCEPT ![self] = @ \ {s}]
        /\ reg' = [reg EXCEPT ![s] = cand[self][s]]
        /\ gen' = [gen EXCEPT ![s] = @ + 1]
        /\ UNCHANGED <<rlock, closed, pool, pc, goal, cand, trash, ctx, answer,
                       bad>>

SwapCandidate(self) ==
    \E s \in Sources :
        /\ Swaps(self, s)
        /\ IF s \in Scoped THEN UNCHANGED duck ELSE Registers(s, cand[self][s])
        /\ todo' = [todo EXCEPT ![self] = @ \ {s}]
        /\ UNCHANGED <<rlock, table, pool, pc, goal, cand, trash, ctx, answer,
                       bad>>

\* Mutant of SwapFails: only the sources already swapped are restored.
SwapFailsUnrestored(self) ==
    \E s \in Persistent :
        /\ Swaps(self, s)
        /\ Fault
        /\ \/ UNCHANGED duck
           \/ /\ Kind[s] = "dataset"
              /\ conn' = [conn EXCEPT ![s] = cand[self][s]]
              /\ UNCHANGED <<attached, result>>
        /\ todo' = [todo EXCEPT ![self] = goal[self] \ @]
        /\ Goto(self, "restore")
        /\ UNCHANGED <<rlock, table, pool, goal, cand, trash, ctx, answer>>

\* register raises, perhaps after it has changed the connection (a database
\* adapter has detached what it attached and left the view alone).
SwapFails(self) ==
    \E s \in Persistent :
        /\ Swaps(self, s)
        /\ Fault
        /\ \/ UNCHANGED duck
           \/ /\ Kind[s] = "dataset"
              /\ conn' = [conn EXCEPT ![s] = cand[self][s]]
              /\ UNCHANGED <<attached, result>>
        /\ todo' = [todo EXCEPT ![self] = (goal[self] \ @) \cup {s}]
        /\ Goto(self, "restore")
        /\ UNCHANGED <<rlock, table, pool, goal, cand, trash, ctx, answer>>

\* restore_quietly: the failing source first, then the swapped ones backwards.
\* Re-registering a provider raises, an Iceberg table does nothing.
RestoreOld(self) ==
    \E s \in Sources :
        /\ At(self, "restore")
        /\ Last(s, todo[self])
        /\ IF s \in Scoped THEN UNCHANGED duck ELSE Registers(s, reg[s])
        /\ todo' = [todo EXCEPT ![self] = @ \ {s}]
        /\ UNCHANGED <<rlock, table, pool, pc, goal, cand, trash, ctx, answer,
                       bad>>

\* restore_quietly swallows the failure of the very call that would restore.
RestoreLost(self) ==
    \E s \in Persistent :
        /\ At(self, "restore")
        /\ Last(s, todo[self])
        /\ lost < MaxLostRestores
        /\ lost' = lost + 1
        /\ todo' = [todo EXCEPT ![self] = @ \ {s}]
        /\ UNCHANGED <<rlock, table, duck, pool, pc, goal, cand, trash, ctx,
                       answer, faults>>

\* Mutant of AbortReload: the error path leaves the lock taken.
AbortHolding(self) ==
    /\ At(self, "restore")
    /\ todo[self] = {}
    /\ trash' = [trash EXCEPT ![self] = @ \cup HandlesOf(cand[self])]
    /\ cand' = [cand EXCEPT ![self] = None]
    /\ Goto(self, "cleanup")
    /\ UNCHANGED <<rlock, table, duck, pool, goal, todo, ctx, answer, bad>>

\* Every registration is restored: raise, with the candidates to be closed.
AbortReload(self) ==
    /\ At(self, "restore")
    /\ todo[self] = {}
    /\ GiveUp(self, HandlesOf(cand[self]))
    /\ UNCHANGED <<table, duck, pool, ctx, answer, bad>>

\* Every swap succeeded: publish every generation, release the lock.
PublishReload(self) ==
    /\ At(self, "swap")
    /\ todo[self] = {}
    /\ reg' = [s \in Sources |->
                  IF s \in goal[self] THEN cand[self][s] ELSE reg[s]]
    /\ gen' = [s \in Sources |-> IF s \in goal[self] THEN gen[s] + 1 ELSE gen[s]]
    /\ GiveUp(self, {reg[s] : s \in goal[self]} \cap Handles)
    /\ UNCHANGED <<closed, duck, pool, ctx, answer, bad>>

\* Outside the lock: close_quietly of one handle.  A database adapter detaches
\* its alias, a statement on the shared connection unless that was closed.
CloseReplaced(self) ==
    \E h \in trash[self] :
        /\ At(self, "cleanup")
        /\ trash' = [trash EXCEPT ![self] = @ \ {h}]
        /\ live' = live \ {h}
        /\ attached' = attached \ {h}
        /\ result' = IF h \in attached THEN Other ELSE result
        /\ UNCHANGED <<rlock, table, conn, made, pc, goal, todo, cand, ctx,
                       answer, bad>>

EndReload(self) ==
    /\ At(self, "cleanup")
    /\ trash[self] = {}
    /\ Goto(self, "idle")
    /\ UNCHANGED <<rlock, table, duck, pool, job, ctx, answer, bad>>

-----------------------------------------------------------------------------
(* close.                                                                   *)

\* Every registered handle is closed, then the connection and all it holds.
Close(self) ==
    /\ At(self, "idle")
    /\ ~closed
    /\ owner \in {NoThread, self}
    /\ closed' = TRUE
    /\ live' = live \ HandlesOf(reg)
    /\ reg' = None
    /\ conn' = None
    /\ attached' = {}
    /\ result' = NoThread
    /\ UNCHANGED <<rlock, gen, made, pc, job, ctx, answer, bad>>

-----------------------------------------------------------------------------
(* bind and open_scan_session.                                              *)

Top(self) == ctx[self][Len(ctx[self])]
Pop(self) == ctx' = [ctx EXCEPT ![self] = SubSeq(@, 1, Len(@) - 1)]

Opens(self, S, stream) ==
    /\ At(self, "idle")
    /\ Len(ctx[self]) < MaxNest
    /\ Enter(self)
    /\ LET scoped == {s \in S \cap Scoped : reg[s] # Nothing} IN
       /\ todo' = [todo EXCEPT ![self] = scoped]
       /\ \A s \in scoped : made[s] < MaxMade
    /\ ctx' = [ctx EXCEPT ![self] =
                  Append(@, [srcs |-> S, bound |-> {}, stream |-> stream])]
    /\ Goto(self, "binding")
    /\ UNCHANGED <<table, duck, pool, goal, cand, trash, answer, bad>>

\* bind does not look at _closed: with no registration left it binds nothing.
BeginBind(self) == \E S \in (SUBSET Sources) \ {{}} : Opens(self, S, "nothing")

\* A scan session is of one source, of a registry that is open.
BeginScan(self) == ~closed /\ \E s \in Sources : Opens(self, {s}, "reader")

Binds(self, s) == At(self, "binding") /\ First(s, todo[self])

\* A fresh reader is registered: by bind_query, or prepared by the fallback.
BindSource(self) ==
    \E s \in Sources :
        /\ Binds(self, s)
        /\ made' = [made EXCEPT ![s] = @ + 1]
        /\ live' = live \cup {Fresh(s)}
        /\ conn' = [conn EXCEPT ![s] = Fresh(s)]
        /\ ctx' = [ctx EXCEPT ![self][Len(ctx[self])].bound = @ \cup {Fresh(s)}]
        /\ todo' = [todo EXCEPT ![self] = @ \ {s}]
        /\ UNCHANGED <<rlock, table, attached, result, pc, goal, cand, trash,
                       answer, bad>>

\* The cleanup in reverse: unregister the names, close the readers, release.
Unbind(self, names) ==
    /\ conn' = [s \in Sources |-> IF s \in names THEN Nothing ELSE conn[s]]
    /\ live' = live \ Top(self).bound
    /\ Pop(self)
    /\ todo' = [todo EXCEPT ![self] = {}]
    /\ Leave(self)
    /\ Goto(self, "idle")

BoundNames(self) == {h[1] : h \in Top(self).bound}

\* Mutant of BindFails: the sources bound before the failing one stay bound.
BindFailsBound(self) ==
    \E s \in Sources :
        /\ Binds(self, s)
        /\ Fault
        /\ Unbind(self, {s})
        /\ UNCHANGED <<table, attached, result, made, goal, cand, trash, answer>>

\* Binding s raises; what it had made is unregistered and closed with the rest.
BindFails(self) ==
    \E s \in Sources :
        /\ Binds(self, s)
        /\ Fault
        /\ Unbind(self, BoundNames(self) \cup {s})
        /\ UNCHANGED <<table, attached, result, made, goal, cand, trash, answer>>

\* The body of the context begins; that of a scan with a reader opened on the
\* connection, whose failure undoes all the rest.
BindDone(self) ==
    /\ At(self, "binding")
    /\ todo[self] = {}
    /\ Goto(self, "idle")
    /\ result' = IF Top(self).stream = "reader" THEN self ELSE result
    /\ UNCHANGED <<rlock, table, conn, attached, pool, job, ctx, answer, bad>>

ScanFails(self) ==
    /\ At(self, "binding")
    /\ todo[self] = {}
    /\ Top(self).stream = "reader"
    /\ Fault
    /\ Unbind(self, BoundNames(self))
    /\ UNCHANGED <<table, attached, result, made, goal, cand, trash, answer>>

\* QueryEngine.query: registry.execute inside bind ...
ExecuteQuery(self) ==
    /\ At(self, "idle")
    /\ ctx[self] # <<>>
    /\ Top(self).stream = "nothing"
    /\ ~closed
    /\ result' = self
    /\ Goto(self, "fetch")
    /\ UNCHANGED <<rlock, table, conn, attached, pool, job, ctx, answer, bad>>

\* ... and .pl(), which takes whatever result the connection holds by now.
FetchResult(self) ==
    /\ At(self, "fetch")
    /\ answer' = [answer EXCEPT ![self] = result]
    /\ result' = NoThread
    /\ Goto(self, "idle")
    /\ UNCHANGED <<rlock, table, conn, attached, pool, job, ctx, bad>>

Scans(self) == At(self, "idle") /\ ctx[self] # <<>> /\ Top(self).stream = "reader"

\* SourceScanSession: one batch from the reader, whose result it is by now.
ReadBatch(self) ==
    /\ Scans(self)
    /\ answer' = [answer EXCEPT ![self] = result]
    /\ UNCHANGED <<rlock, table, duck, pool, pc, job, ctx, bad>>

\* A candidate is prepared, or the old revision opened again, to be compared
\* with what the session has, and closed in any case.
Recheck(self) ==
    /\ Scans(self)
    /\ \E s \in Top(self).srcs :
          /\ reg[s] # Nothing
          /\ made[s] < MaxMade
          /\ made' = [made EXCEPT ![s] = @ + 1]
          /\ live' = live \cup {Fresh(s)}
          /\ trash' = [trash EXCEPT ![self] = @ \cup {Fresh(s)}]
    /\ Goto(self, "cleanup")
    /\ UNCHANGED <<rlock, table, duck, goal, todo, cand, ctx, answer, bad>>

\* By a watchdog, which needs no lock: the reader is closed, the lock is kept.
CancelScan(self) ==
    /\ Scans(self)
    /\ ctx' = [ctx EXCEPT ![self][Len(ctx[self])].stream = "cancelled"]
    /\ result' = IF result = self THEN NoThread ELSE result
    /\ UNCHANGED <<rlock, table, conn, attached, pool, pc, job, answer, bad>>

\* The context is left; a session closes its reader first.
EndBind(self) ==
    /\ At(self, "idle")
    /\ ctx[self] # <<>>
    /\ result' = IF Top(self).stream = "reader" /\ result = self THEN NoThread ELSE result
    /\ Unbind(self, BoundNames(self))
    /\ UNCHANGED <<table, attached, made, goal, cand, trash, answer, bad>>

-----------------------------------------------------------------------------
(* The steps of a thread.                                                   *)

Reload(self) ==
    \/ PrepareCandidate(self) \/ PrepareFails(self) \/ BeginSwap(self)
    \/ SwapCandidate(self) \/ SwapFails(self) \/ RestoreOld(self)
    \/ RestoreLost(self) \/ AbortReload(self) \/ PublishReload(self)
    \/ CloseReplaced(self) \/ EndReload(self)

Binding(self) ==
    \/ BindSource(self) \/ BindFails(self) \/ BindDone(self) \/ ScanFails(self)
    \/ FetchResult(self)

Step(self) ==
    \/ BeginReload(self) \/ Reload(self) \/ Close(self)
    \/ BeginBind(self) \/ Binding(self) \/ ExecuteQuery(self) \/ EndBind(self)
    \/ BeginScan(self) \/ ReadBatch(self) \/ Recheck(self) \/ CancelScan(self)

Next == \E self \in Threads : Step(self)

Spec == Init /\ [][Next]_vars

\* A method once called runs to its end, and a context is left after finitely
\* many queries; when a thread calls a method is its own business.
FairSpec ==
    /\ Spec
    /\ \A self \in Threads : WF_vars(Reload(self) \/ Binding(self))
    /\ \A self \in Threads : SF_vars(EndBind(self))

-----------------------------------------------------------------------------
(* Safety.                                                                  *)

\* Every resource an adapter has opened and nobody has closed is still in
\* somebody's hands: registered, a candidate, on a cleanup list, or bound to a
\* query.  No path of reload, bind or close loses one.
NoLeak ==
    live \subseteq HandlesOf(reg) \cup
        (UNION {HandlesOf(cand[self]) \cup trash[self] : self \in Threads}) \cup
        (UNION {UNION {ctx[self][i].bound : i \in DOMAIN ctx[self]} :
                   self \in Threads})

\* No name of the connection, and no registration, refers to a resource that
\* was closed: what a reload closes after the lock is released is out of use,
\* unless putting an old registration back has failed as well.
ServedLive == lost = 0 => HandlesOf(conn) \cup HandlesOf(reg) \subseteq live

\* The tables of the registry are well formed and refer to open handles only
\* (SourceRegistry.reload_all, _bind_requirements_locked).
TablesSound == TypeOK /\ ServedLive

Swapping == \E self \in Threads : pc[self] \in {"swap", "restore"}

\* While a thread has a query or a scan open, no step of another thread changes
\* what a name resolves to, a registration or a generation.
HeldStill ==
    [][\A self \in Threads : ctx[self] # <<>> =>
         \A t \in Threads \ {self} : Step(t) => UNCHANGED <<conn, table>>]_vars

\* Inside a context every query-scoped source resolves to the reader made for
\* that very query.
BoundServed ==
    ~closed => \A self \in Threads : \A i \in DOMAIN ctx[self] :
                   \A h \in ctx[self][i].bound : conn[h[1]] = h

\* Whatever is open, a name answers with a reader or handle that is open itself,
\* and a failed binding leaves none behind (_bind_requirements_locked).
QueriesServed == ServedLive /\ BoundServed

\* A query fetches its own result and no other (QueryEngine.query).
AnswersOwn == \A self \in Threads : answer[self] \in {self, NoThread}

-----------------------------------------------------------------------------
(* Refinement.                                                              *)

VersionOf(h) == IF h \in Handles THEN h[2] ELSE 0

\* What a reader who takes the lock finds: during a swap nobody can look.
logicalVersion ==
    [s \in Persistent |-> VersionOf(IF Swapping THEN reg[s] ELSE conn[s])]

Published == INSTANCE AtomicSources WITH
                Visible <- Persistent, version <- logicalVersion,
                generation <- gen, shut <- closed, asked <- goal

\* A reload of one source or of all is atomic: a reader finds all the new
\* versions with all the new generations, or the old ones.
AtomicReload == Published!AtomicSpec

-----------------------------------------------------------------------------
(* Liveness, under FairSpec.                                                *)

\* Whoever takes the registry's lock gives it back, after a failure too.
LockReturns == \A self \in Threads : owner = self ~> owner # self
=============================================================================
