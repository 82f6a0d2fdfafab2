----------------------------- MODULE SessionStore -----------------------------
(***************************************************************************)
(* The session store of selayer-discovery (session.py): an append-only     *)
(* journal, a sidecar that counts the committed events, a cache, one lock. *)
(*                                                                         *)
(* Processes create, open and mutate one session.  A mutation takes the    *)
(* lock, replays the journal, appends one line, syncs it, publishes the    *)
(* sidecar and then the cache.  A process may be killed at any step; the   *)
(* machine may lose power and with it every line nobody has synced; a line *)
(* that was being written may be cut short.  open refreshes the sidecar    *)
(* under the lock and the cache after it has released it.                  *)
(*                                                                         *)
(* The hash chain is the order of the journal: an event is identified by   *)
(* its id, and the head hash is the id of the last event.  The owner file, *)
(* the permissions and the text bounds have no effect here.                *)
(***************************************************************************)
EXTENDS SessionIndex, SequencesExt

CONSTANTS
    Procs,          \* processes with a store of this session
    NoProc,         \* nobody holds the lock
    NoFile,         \* a sidecar or cache that is not there
    Genesis,        \* records of the genesis event: charter and approver
    Requests,       \* mutations callers ask for: [type, target, records]
    Cuts,           \* how a line may be cut short, of {"torn", "open"}
    MaxEvents,      \* bound: lines ever written
    MaxKills,       \* bound: processes killed
    MaxPowerLosses, \* bound: power losses
    MaxLosses,      \* bound: lines or sidecars removed by an outsider
    MaxTotal        \* bound: lines written, a fault counted as two

ASSUME SessionBounds ==
    /\ MaxEvents \in Nat /\ MaxKills \in Nat /\ MaxPowerLosses \in Nat
    /\ MaxLosses \in Nat /\ MaxTotal \in Nat
ASSUME SessionCuts == Cuts \subseteq {"torn", "open"}
ASSUME SessionSentinels == NoProc \notin Procs /\ NoFile \notin Nat
ASSUME SessionRequests ==
    \A e \in Requests : /\ e.type \in Types \ {"charter_recorded"}
                        /\ e.target \in States
                        /\ e.records \in Seq(Record)
ASSUME SessionGenesis == Genesis \in Seq(Record)

VARIABLES
    journal,    \* the complete events of events.jsonl
    tail,       \* the end of the file: absent, clean, torn or open
    synced,     \* how many events are on stable storage
    head,       \* the committed-head sidecar: count and last event
    tmp,        \* state.tmp: the last event of the view in it
    cache,      \* state.json: the last event of the view in it
    lock,       \* the file lock
    pc,         \* where each process stands
    view,       \* the journal as each process replayed it last
    opened,     \* processes with a store object
    req,        \* the event each process is appending
    minted,     \* ids given out so far
    acked,      \* ids whose call returned
    faults      \* kills, power losses and outside losses so far

disk    == <<journal, tail, synced, head>>
caching == <<tmp, cache>>
local   == <<pc, view, opened, req>>
vars    == <<disk, caching, lock, local, minted, acked, faults>>

Event == [id : Nat, type : Types, target : States, records : Seq(Record)]
Sidecar == [count : Nat, last : Nat]

ASSUME SessionNoFile == NoFile \notin Event

Tails == {"absent", "clean", "torn", "open"}
Points == {"idle", "append", "sync", "publish", "cache", "replace"}

TypeOK ==
    /\ journal \in Seq(Event)
    /\ tail \in Tails
    /\ synced \in 0..Len(journal)
    /\ head \in Sidecar \cup {NoFile}
    /\ tmp \in Nat \cup {NoFile} /\ cache \in Nat \cup {NoFile}
    /\ lock \in Procs \cup {NoProc}
    /\ pc \in [Procs -> Points]
    /\ view \in [Procs -> Seq(Event)]
    /\ opened \subseteq Procs
    /\ req \in [Procs -> Event \cup {NoFile}]
    /\ minted \in Nat
    /\ acked \subseteq 1..minted
    /\ faults \in [kills : Nat, power : Nat, outside : Nat]

Init ==
    /\ journal = <<>> /\ tail = "absent" /\ synced = 0
    /\ head = NoFile /\ tmp = NoFile /\ cache = NoFile
    /\ lock = NoProc
    /\ pc = [p \in Procs |-> "idle"]
    /\ view = [p \in Procs |-> <<>>]
    /\ opened = {}
    /\ req = [p \in Procs |-> NoFile]
    /\ minted = 0
    /\ acked = {}
    /\ faults = [kills |-> 0, power |-> 0, outside |-> 0]

-----------------------------------------------------------------------------
At(p, label) == pc[p] = label
Goto(p, label) == pc' = [pc EXCEPT ![p] = label]
Ids(events) == {events[i].id : i \in 1..Len(events)}
LastId(events) == IF events = <<>> THEN 0 ELSE events[Len(events)].id
HeadOf(events) == [count |-> Len(events), last |-> LastId(events)]

\* Mutant of HeadAccepts: a shorter journal is accepted like a longer one.
HeadAcceptsShorter(events) ==
    \/ events = <<>>
    \/ /\ head # NoFile
       /\ Len(events) = head.count => LastId(events) = head.last

\* _validate_committed_head.
HeadAccepts(events) ==
    \/ events = <<>>
    \/ /\ head # NoFile
       /\ Len(events) >= head.count
       /\ Len(events) = head.count => LastId(events) = head.last

Room == minted + 2 * (faults.kills + faults.power + faults.outside) < MaxTotal

\* A load finds every line well-formed and legal, and the sidecar in order.
Readable == tail # "torn" /\ Replayable(journal) /\ HeadAccepts(journal)

-----------------------------------------------------------------------------
(* create, open and the mutations: what they do before the journal grows.   *)

\* Under the lock; a journal file that is there already raises.
BeginCreate(p) ==
    /\ At(p, "idle") /\ p \notin opened
    /\ lock = NoProc /\ tail = "absent"
    /\ minted < MaxEvents /\ Room
    /\ lock' = p
    /\ head' = NoFile
    /\ minted' = minted + 1
    /\ req' = [req EXCEPT ![p] = [id |-> minted + 1, type |-> "charter_recorded",
                                  target |-> "initialized", records |-> Genesis]]
    /\ view' = [view EXCEPT ![p] = <<>>]
    /\ Goto(p, "append")
    /\ UNCHANGED <<journal, tail, synced, caching, opened, acked, faults>>

\* _load: the locked part refreshes the sidecar, the cache comes afterwards.
Open(p) ==
    /\ At(p, "idle") /\ p \notin opened
    /\ lock = NoProc
    /\ Readable /\ journal # <<>>
    /\ head' = HeadOf(journal)
    /\ view' = [view EXCEPT ![p] = journal]
    /\ opened' = opened \cup {p}
    /\ req' = [req EXCEPT ![p] = NoFile]
    /\ Goto(p, "cache")
    /\ UNCHANGED <<journal, tail, synced, caching, lock, minted, acked, faults>>

\* Mutant of BeginMutation: the journal is not replayed under the lock.
BeginUnrefreshed(p) ==
    /\ At(p, "idle") /\ p \in opened
    /\ lock = NoProc
    /\ minted < MaxEvents /\ Room
    /\ Readable
    /\ \E e \in Requests :
          /\ Permits(Replay(view[p]), e)
          /\ req' = [req EXCEPT ![p] =
                        [id |-> minted + 1, type |-> e.type,
                         target |-> e.target, records |-> e.records]]
    /\ lock' = p
    /\ minted' = minted + 1
    /\ Goto(p, "append")
    /\ UNCHANGED <<disk, caching, view, opened, acked, faults>>

\* transition, close, revise_charter, record_artifact up to the write.
BeginMutation(p) ==
    /\ At(p, "idle") /\ p \in opened
    /\ lock = NoProc
    /\ minted < MaxEvents /\ Room
    /\ Readable
    /\ \E e \in Requests :
          /\ Permits(Replay(journal), e)
          /\ req' = [req EXCEPT ![p] =
                        [id |-> minted + 1, type |-> e.type,
                         target |-> e.target, records |-> e.records]]
    /\ lock' = p
    /\ view' = [view EXCEPT ![p] = journal]
    /\ minted' = minted + 1
    /\ Goto(p, "append")
    /\ UNCHANGED <<disk, caching, opened, acked, faults>>

-----------------------------------------------------------------------------
(* _append.                                                                 *)

\* The line follows whatever the file ends with: after an event without its
\* newline both make one line that no longer parses.
Written(e) ==
    IF tail = "open" THEN [lines |-> Front(journal), end |-> "torn"]
                     ELSE [lines |-> Append(journal, e), end |-> "clean"]

Leaves(file) == journal' = file.lines /\ tail' = file.end

\* Mutant of AppendLine: the sidecar is published before the sync.
AppendAndPublish(p) ==
    /\ At(p, "append")
    /\ Leaves(Written(req[p]))
    /\ synced' = IF tail = "open" /\ synced = Len(journal)
                 THEN synced - 1 ELSE synced
    /\ head' = HeadOf(journal')
    /\ Goto(p, "sync")
    /\ UNCHANGED <<caching, lock, view, opened, req, minted, acked, faults>>

AppendLine(p) ==
    /\ At(p, "append")
    /\ Leaves(Written(req[p]))
    /\ synced' = IF tail = "open" /\ synced = Len(journal)
                 THEN synced - 1 ELSE synced
    /\ Goto(p, "sync")
    /\ UNCHANGED <<head, caching, lock, view, opened, req, minted, acked, faults>>

\* The call raises: the lock is released, whatever was written stays.
Raise(p) ==
    /\ opened' = IF req[p] = NoFile THEN opened \ {p} ELSE opened
    /\ lock' = IF lock = p THEN NoProc ELSE lock
    /\ req' = [req EXCEPT ![p] = NoFile]
    /\ Goto(p, "idle")
    /\ UNCHANGED acked

\* Mutant of SyncFails: the error path does not release the lock.
SyncFailsHolding(p) ==
    /\ At(p, "sync") /\ tail = "torn"
    /\ synced' = Len(journal)
    /\ req' = [req EXCEPT ![p] = NoFile]
    /\ Goto(p, "idle")
    /\ UNCHANGED <<journal, tail, head, caching, lock, view, opened, minted,
                   acked, faults>>

\* fsync, and the replay that follows finds a line it cannot parse.
SyncFails(p) ==
    /\ At(p, "sync") /\ tail = "torn"
    /\ synced' = Len(journal)
    /\ Raise(p)
    /\ UNCHANGED <<journal, tail, head, caching, view, minted, faults>>

\* fsync and the replay succeed.
Sync(p) ==
    /\ At(p, "sync") /\ tail # "torn"
    /\ synced' = Len(journal)
    /\ view' = [view EXCEPT ![p] = journal]
    /\ Goto(p, "publish")
    /\ UNCHANGED <<journal, tail, head, caching, lock, opened, req, minted,
                   acked, faults>>

\* _write_committed_head: a temporary file replaces the sidecar, both synced.
WriteCommittedHead(p) ==
    /\ At(p, "publish")
    /\ head' = HeadOf(view[p])
    /\ Goto(p, "cache")
    /\ UNCHANGED <<journal, tail, synced, caching, lock, view, opened, req,
                   minted, acked, faults>>

-----------------------------------------------------------------------------
(* _write_cache, by _append under the lock, by _load without it.            *)

WriteTmp(p) ==
    /\ At(p, "cache")
    /\ tmp' = LastId(view[p])
    /\ Goto(p, "replace")
    /\ UNCHANGED <<disk, cache, lock, view, opened, req, minted, acked, faults>>

\* The call returns.
ReplaceCache(p) ==
    /\ At(p, "replace") /\ tmp # NoFile
    /\ cache' = tmp
    /\ tmp' = NoFile
    /\ acked' = IF req[p] = NoFile THEN acked ELSE acked \cup {req[p].id}
    /\ opened' = opened \cup {p}
    /\ lock' = IF lock = p THEN NoProc ELSE lock
    /\ req' = [req EXCEPT ![p] = NoFile]
    /\ Goto(p, "idle")
    /\ UNCHANGED <<disk, view, minted, faults>>

\* Another process has replaced the same temporary file.
ReplaceFails(p) ==
    /\ At(p, "replace") /\ tmp = NoFile
    /\ Raise(p)
    /\ UNCHANGED <<disk, caching, view, minted, faults>>

-----------------------------------------------------------------------------
(* Faults.                                                                  *)

Forget(procs) ==
    /\ pc' = [p \in Procs |-> IF p \in procs THEN "idle" ELSE pc[p]]
    /\ view' = [p \in Procs |-> IF p \in procs THEN <<>> ELSE view[p]]
    /\ req' = [p \in Procs |-> IF p \in procs THEN NoFile ELSE req[p]]
    /\ opened' = opened \ procs
    /\ lock' = IF lock \in procs THEN NoProc ELSE lock

\* What an interrupted write of e leaves: the file just created, a fragment, or
\* all of the line but its newline.
CutShort(e) ==
    {[lines |-> journal, end |-> IF tail = "absent" THEN "clean" ELSE tail]}
    \cup {[lines |-> IF tail = "open" THEN Front(journal) ELSE journal,
           end |-> cut] : cut \in Cuts \cap {"torn"}}
    \cup {[lines |-> Append(journal, e), end |-> cut] :
              cut \in {c \in Cuts : c = "open" /\ tail # "open"}}

\* A process is killed; the operating system drops its lock, and what it has
\* written stays in the file.
Kill(p) ==
    /\ ~At(p, "idle")
    /\ faults.kills < MaxKills /\ Room
    /\ faults' = [faults EXCEPT !.kills = @ + 1]
    /\ IF At(p, "append") THEN \E file \in CutShort(req[p]) : Leaves(file)
                          ELSE UNCHANGED <<journal, tail>>
    /\ synced' = IF synced > Len(journal') THEN Len(journal') ELSE synced
    /\ Forget({p})
    /\ UNCHANGED <<head, caching, minted, acked>>

\* Power is lost: lines that nobody synced may be gone, the first of them cut.
LosePower ==
    /\ faults.power < MaxPowerLosses /\ Room
    /\ faults' = [faults EXCEPT !.power = @ + 1]
    /\ \/ UNCHANGED <<journal, tail>>
       \/ \E n \in synced..(Len(journal) - 1) :
             \/ journal' = SubSeq(journal, 1, n)
                /\ tail' \in {"clean"} \cup (Cuts \cap {"torn"})
             \/ journal' = SubSeq(journal, 1, n + 1)
                /\ tail' \in Cuts \cap {"open"}
    /\ synced' = Len(journal')
    /\ Forget(Procs)
    /\ UNCHANGED <<head, caching, minted, acked>>

\* An outsider removes the last complete event, or the sidecar, of a session
\* nobody is working on.
LoseLine ==
    /\ lock = NoProc /\ Len(journal) > 1 /\ tail = "clean"
    /\ faults.outside < MaxLosses /\ Room
    /\ faults' = [faults EXCEPT !.outside = @ + 1]
    /\ journal' = Front(journal)
    /\ synced' = IF synced > Len(journal') THEN Len(journal') ELSE synced
    /\ UNCHANGED <<tail, head, caching, lock, local, minted, acked>>

LoseHead ==
    /\ lock = NoProc /\ head # NoFile
    /\ faults.outside < MaxLosses /\ Room
    /\ faults' = [faults EXCEPT !.outside = @ + 1]
    /\ head' = NoFile
    /\ UNCHANGED <<journal, tail, synced, caching, lock, local, minted, acked>>

-----------------------------------------------------------------------------
InCall(p) ==
    \/ AppendLine(p) \/ SyncFails(p) \/ Sync(p) \/ WriteCommittedHead(p)
    \/ WriteTmp(p) \/ ReplaceCache(p) \/ ReplaceFails(p)

Step(p) == BeginCreate(p) \/ Open(p) \/ BeginMutation(p) \/ InCall(p)

Next ==
    \/ \E p \in Procs : Step(p) \/ Kill(p)
    \/ LosePower \/ LoseLine \/ LoseHead

Spec == Init /\ [][Next]_vars

\* A call once begun runs on; nobody has to begin one.
FairSpec == Spec /\ \A p \in Procs : WF_vars(InCall(p))

-----------------------------------------------------------------------------
(* Safety.                                                                  *)

\* An event whose call returned is in every journal that a load accepts:
\* whatever crashed or was removed, the loss is reported.
AckKept == Readable => acked \subseteq Ids(journal)

\* A synced line is safe from every fault but an outsider.  A line that was not
\* synced survives a kill or is never seen by another process; it takes both, a
\* kill and then a power loss, to take back a line that others have read.
Kept == faults.outside = 0 /\ (faults.kills = 0 \/ faults.power = 0)

\* Once the genesis has committed, a crash that leaves whole lines leaves a
\* session that opens: the journal is never behind its sidecar.
CrashReadable == Kept /\ head # NoFile /\ tail # "torn" => Readable

\* "it can never claim an event that is not durably in the journal", as long
\* as no process was killed between its write and its sync and no line broken.
HeadDurable ==
    faults.kills = 0 /\ faults.outside = 0 /\ head # NoFile /\ tail # "torn"
        => head.count <= synced

\* The sidecar neither locks out what a crash has left nor vouches for what a
\* crash may still take (_write_committed_head, _validate_committed_head).
SidecarSound == CrashReadable /\ HeadDurable

\* What a mutation has appended to a journal it accepted reads back.
LineReadsBack == \A p \in Procs : At(p, "sync") => tail # "torn"

-----------------------------------------------------------------------------
(* Staleness, as the journal alone defines it.                              *)

\* The records of a journal in their order, and those of one node.
RecordsOf(events) ==
    LET upTo[k \in 0..Len(events)] ==
            IF k = 0 THEN <<>> ELSE upTo[k - 1] \o events[k].records
    IN  upTo[Len(events)]

\* The last record of node n among the first k.
LastOf(records, n, k) ==
    LET mine == {i \in 1..k : records[i].node = n}
    IN  IF mine = {} THEN 0 ELSE CHOOSE i \in mine : \A j \in mine : j <= i

\* n depended, through any number of others, on the node of record k then.
DependedOn(records, n, k) ==
    \A S \in SUBSET Nodes :
        (\A m \in Nodes :
            LET last == LastOf(records, m, k)
                deps == IF last = 0 THEN {} ELSE records[last].deps
            IN  deps \cap (S \cup {records[k].node}) # {} => m \in S)
        => n \in S

Revision(records, k) ==
    LET last == LastOf(records, records[k].node, k - 1)
    IN  last # 0 /\ records[last].hash # records[k].hash

\* The nodes that depended on one when its content was revised, and those of them
\* that nobody has recorded since.
StaleOf(records) ==
    {n \in Nodes : \E k \in 1..Len(records) :
        Revision(records, k) /\ DependedOn(records, n, k)}

Outdated(records) ==
    {n \in Nodes : \E k \in 1..Len(records) :
        /\ Revision(records, k) /\ DependedOn(records, n, k)
        /\ LastOf(records, n, Len(records)) <= k}

\* "every transitive dependent" of a node whose content changed is stale at least
\* until it is recorded again, and nothing else ever is.
StaleSound ==
    LET records == RecordsOf(journal)
        stale == Replay(journal).stale
    IN  Outdated(records) \subseteq stale /\ stale \subseteq StaleOf(records)

\* "It must be reconstructed or rerun from current inputs": what is stale has not
\* been recorded since an input of it was revised, or rests on what is stale.
RebuiltCurrent ==
    LET records == RecordsOf(journal)
        index == Replay(journal)
    IN  \A n \in index.stale \ Outdated(records) :
            index.deps[n] \cap index.stale # {}

-----------------------------------------------------------------------------
(* Refinement: an event joins the log when its line is synced, or when a    *)
(* crash before that has left the whole line in the file.                   *)

Committed == IF tail # "torn" /\ \E p \in Procs : At(p, "sync")
             THEN Front(journal) ELSE journal

\* Where the last event that moved the session has taken it.
PhaseOf(events) ==
    LET moves == {i \in 1..Len(events) :
                     events[i].type \in {"charter_recorded", "transition", "closed"}}
    IN  IF moves = {} THEN Absent
        ELSE events[CHOOSE i \in moves : \A j \in moves : j <= i].target

Log == INSTANCE SessionLog WITH
          log <- Committed, sure <- synced,
          phase <- PhaseOf(Committed), removed <- faults.outside

\* A write behind a line without its newline makes one unreadable line of both.
Joined == tail = "open" /\ tail' = "torn" /\ Log!TakeLast /\ UNCHANGED faults.outside

\* One log that grows in the order of the primary states and loses no line that
\* was synced but to an outsider, or where two lines are joined.
LogSpec == Log!LogInit /\ [][Log!LogNext \/ Joined]_Log!logVars

-----------------------------------------------------------------------------
(* Liveness, under FairSpec.                                                *)

\* Whoever takes the session lock gives it back.
LockReturns == lock # NoProc ~> lock = NoProc
=============================================================================
