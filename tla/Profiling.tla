------------------------------- MODULE Profiling -------------------------------
(***************************************************************************)
(* Profile scans and context exports of one source in one session           *)
(* (ProfileRunner of profiling.py, the profile commands of cli.py).         *)
(*                                                                         *)
(* A scan reads a stream batch by batch, spills every batch to a file and   *)
(* aggregates what lies in the spill; its watchdog cancels the stream at    *)
(* the deadline.  A file is opened under its final name and written after   *)
(* that, and the spill is emptied file by file.  A policy is proposed,      *)
(* activated by the approver and used by exports.  The commands of a        *)
(* session share its directory - the spill, the salt, the activation and    *)
(* the exports - and take no lock.                                          *)
(***************************************************************************)
EXTENDS Sampling

CONSTANTS
    Procs,          \* processes
    Scanners,       \* those that scan
    Versions,       \* versions of the data
    Content(_),     \* the batches of a version
    Token(_),       \* its snapshot token; equal tokens promise equal data
    Reopenable,     \* a token can be opened again
    Grain,          \* grain of the scans and the policies
    Policies(_),    \* the transforms a developer may put into a policy
    Approvers,      \* actors of the charter
    First,          \* the version and the approver at first
    Stops,          \* numbers of batches a run may stop after; 0 for never
    MaxScans,       \* bound: scans begun
    MaxCommands,    \* bound: commands begun, the scans among them
    MaxChanges      \* bound: changes of data or charter, processes killed

Batches == UNION {ToSet(Content(v)) : v \in Versions}

ASSUME ProfilingAssumption ==
    /\ First.data \in Versions /\ First.approver \in Approvers
    /\ \A v \in Versions : Content(v) \in Seq(Batches)
    /\ \A b \in Batches : b \in Seq(ToSet(b))
    /\ Grain \in Seq(ToSet(Grain))
    /\ Stops \subseteq Nat

VARIABLES
    data,           \* the version the source holds
    approver,       \* the charter's approver
    spill,          \* files of the spill: [index, batch, whole]
    salt,           \* the salt file: Null, Empty or the salt
    profiles,       \* the profiles printed, kept by the developer
    activation,     \* the activation file
    artifact,       \* the policy artifact of the session
    exports,        \* the context exports, by number
    job,            \* what each process is doing
    published,      \* history: every export written
    activations,    \* history: every activation written, with the approver then
    count           \* commands and changes so far

workspace == <<spill, salt, activation, artifact, exports>>
history == <<profiles, published, activations>>
vars == <<data, approver, workspace, job, history, count>>

Idle == [at |-> "idle"]
Empty == "empty"
TheSalt == "salt"
Scanning ==
    {p \in Procs : job[p].at \in {"clear", "read", "spill", "aggregate", "drop"}}
Exporting == {p \in Procs : job[p].at \in {"build", "name", "write"}}

TypeOK ==
    /\ \A f \in spill : f.index \in Nat
    /\ salt \in {Null, Empty, TheSalt}
    /\ \A r \in profiles : r.profile.outcome \in {"completed", "partial"}
    /\ activation # Null => activation.approver \in Approvers
    /\ DOMAIN exports = 1 .. Cardinality(DOMAIN exports)
    /\ \A n \in DOMAIN exports : exports[n].bytes <= Caps.source

Init ==
    /\ data = First.data
    /\ approver = First.approver
    /\ spill = {}
    /\ salt = Null
    /\ profiles = {}
    /\ activation = Null
    /\ artifact = Null
    /\ exports = <<>>
    /\ job = [p \in Procs |-> Idle]
    /\ published = {}
    /\ activations = {}
    /\ count = [scans |-> 0, commands |-> 0, changes |-> 0]

Free(p) == job[p] = Idle /\ count.commands < MaxCommands
Begins(p, j) ==
    /\ job' = [job EXCEPT ![p] = j]
    /\ count' = [count EXCEPT !.commands = @ + 1]
Goes(p, j) == job' = [job EXCEPT ![p] = j]

-----------------------------------------------------------------------------
(* The scan.                                                                *)

\* A file is known by its name: an index and the digest of a batch.
Named(f, index, batch) == f.index = index /\ f.batch = batch
Without(index, batch) == {f \in spill : ~Named(f, index, batch)}

\* The files of the spill in the order of their names, in which the digests
\* order batches in no way of interest.
ByName(order) ==
    \A i, j \in DOMAIN order :
        i < j => order[i] # order[j] /\ order[i].index <= order[j].index
Files == CHOOSE f \in [1 .. Cardinality(spill) -> spill] : ByName(f)

\* A partial profile is the checkpoint of a later run, if it is of the same
\* token and the files of the spill have just the names of its batches.
Resumable(checkpoint) ==
    /\ checkpoint # Null
    /\ Reopenable
    /\ checkpoint.token = Token(data)
    /\ Cardinality(spill) = Len(checkpoint.hashes)
    /\ \A i \in DOMAIN checkpoint.hashes :
          \E f \in spill : Named(f, i - 1, checkpoint.hashes[i])

\* A profile of the scan j, and what the scan was made of.
Report(j, profile) ==
    [profile |-> profile, batches |-> j.batches,
     alone |-> j.alone, honest |-> j.honest, intact |-> j.intact]

\* History: a scan under way no longer runs alone.
BeginsScan(p, j) ==
    /\ job' = [q \in Procs |-> CASE q = p -> j
                                 [] q \in Scanning -> [job[q] EXCEPT !.alone = FALSE]
                                 [] OTHER -> job[q]]
    /\ count' = [count EXCEPT !.scans = @ + 1, !.commands = @ + 1]

\* The stream is what the source holds when the session is opened.  A fresh
\* run lists the spill to empty it; stop asks for a partial profile.
BeginScan(p, checkpoint, stop) ==
    /\ Free(p)
    /\ p \in Scanners /\ count.scans < MaxScans
    /\ Supported
    /\ LET resumes == Resumable(checkpoint)
           known == IF resumes THEN checkpoint.hashes ELSE <<>>
       IN  BeginsScan(p, [at |-> "clear", doomed |-> IF resumes THEN {} ELSE spill,
                          batches |-> Content(data), token |-> Token(data),
                          known |-> known, index |-> 0, hashes |-> <<>>,
                          stop |-> stop, late |-> FALSE, closed |-> FALSE,
                          alone |-> Scanning = {},
                          honest |-> Len(known) <= Len(Content(data)),
                          intact |-> resumes => \A f \in spill : f.whole])
    /\ UNCHANGED <<data, approver, workspace, history>>

\* The files listed are removed one by one, and those that are left counted.
Clear(p) ==
    LET j == job[p] IN
    /\ j.at = "clear"
    /\ \/ \E f \in j.doomed :
             /\ spill' = Without(f.index, f.batch)
             /\ Goes(p, [j EXCEPT !.doomed = @ \ {f}])
       \/ /\ j.doomed = {}
          /\ Goes(p, [j EXCEPT !.at = "read", !.index = Cardinality(spill)])
          /\ UNCHANGED spill
    /\ UNCHANGED <<data, approver, salt, activation, artifact, exports, history, count>>

\* A run ends by emptying the spill; report is Null when its profile is
\* unavailable, which no command takes.
Finishes(p, report) ==
    Goes(p, [at |-> "drop", doomed |-> spill, report |-> report, alone |-> job[p].alone])

\* After a batch the run stops with a partial profile or goes on.
Proceeds(p, hashes, index) ==
    LET j == job[p] IN
    IF Reopenable /\ Len(hashes) = j.stop
      THEN /\ profiles' = profiles \cup {Report(j, Partial(j.token, hashes))}
           /\ Goes(p, Idle)
      ELSE /\ Goes(p, [j EXCEPT !.at = "read", !.hashes = hashes, !.index = index])
           /\ UNCHANGED profiles

\* One turn of the loop.  A closed stream ends like an exhausted one; whether
\* it was the deadline is asked before the read and at the end of the stream.
\* A batch beyond the checkpoint has its file created, or not even that.
Read(p) ==
    LET j == job[p]
        pos == Len(j.hashes) + 1
        ended == j.closed \/ pos > Len(j.batches)
        batch == j.batches[pos]
    IN
    /\ j.at = "read"
    /\ \/ /\ j.late      \* timeout
          /\ Finishes(p, Null)
          /\ UNCHANGED <<profiles, spill>>
       \/ /\ ~j.late /\ ended
          /\ Goes(p, [j EXCEPT !.at = "aggregate"])
          /\ UNCHANGED <<profiles, spill>>
       \/ /\ ~j.late /\ ~ended      \* iterator_failure
          /\ Finishes(p, Null)
          /\ UNCHANGED <<profiles, spill>>
       \/ /\ ~j.late /\ ~ended      \* checkpoint_mismatch
          /\ pos <= Len(j.known) /\ batch # j.known[pos]
          /\ Finishes(p, Null)
          /\ UNCHANGED <<profiles, spill>>
       \/ /\ ~j.late /\ ~ended
          /\ pos <= Len(j.known) /\ batch = j.known[pos]
          /\ Proceeds(p, Append(j.hashes, batch), j.index)
          /\ UNCHANGED spill
       \/ /\ ~j.late /\ ~ended
          /\ pos > Len(j.known)
          /\ \/ /\ spill' = Without(j.index, batch) \cup
                      {[index |-> j.index, batch |-> batch, whole |-> FALSE]}
                /\ Goes(p, [j EXCEPT !.at = "spill"])
             \/ Goes(p, Idle) /\ UNCHANGED spill
          /\ UNCHANGED profiles
    /\ UNCHANGED <<data, approver, salt, activation, artifact, exports, published,
                   activations, count>>

\* The batch is written into the file, or the run fails and leaves it torn.
Spill(p) ==
    LET j == job[p]
        batch == j.batches[Len(j.hashes) + 1]
    IN
    /\ j.at = "spill"
    /\ \/ /\ spill' = {IF Named(f, j.index, batch) THEN [f EXCEPT !.whole = TRUE]
                      ELSE f : f \in spill}
          /\ Proceeds(p, Append(j.hashes, batch), j.index + 1)
       \/ Goes(p, Idle) /\ UNCHANGED <<profiles, spill>>
    /\ UNCHANGED <<data, approver, salt, activation, artifact, exports, published,
                   activations, count>>

\* The loop runs, between two reads or in one, or writes a file.
Streaming(p) == job[p].at \in {"read", "spill"}

\* Mutant: the stream is closed before the deadline is flagged.
CloseFirst(p) ==
    /\ Streaming(p) /\ ~job[p].late
    /\ Goes(p, [job[p] EXCEPT !.closed = TRUE])
    /\ UNCHANGED <<data, approver, workspace, history, count>>
\* The watchdog flags the deadline and then closes the stream.
Deadline(p) ==
    /\ Streaming(p) /\ ~job[p].late
    /\ Goes(p, [job[p] EXCEPT !.late = TRUE])
    /\ UNCHANGED <<data, approver, workspace, history, count>>

\* Mutant: the loop is to notice the flag between two reads.
CancelNever(p) == FALSE /\ UNCHANGED vars
Cancel(p) ==
    /\ Streaming(p) /\ job[p].late /\ ~job[p].closed
    /\ Goes(p, [job[p] EXCEPT !.closed = TRUE])
    /\ UNCHANGED <<data, approver, workspace, history, count>>

\* The schema is that of the first file: if it cannot be read, the run fails.
Aggregate(p) ==
    LET j == job[p] IN
    /\ j.at = "aggregate"
    /\ IF Unreadable(Files) THEN Goes(p, Idle)
       ELSE Finishes(p, Report(j, Aggregated(j.token, j.hashes, Files, Grain)))
    /\ UNCHANGED <<data, approver, workspace, history, count>>

\* A profile is printed once the files listed are removed.
Drop(p) ==
    LET j == job[p] IN
    /\ j.at = "drop"
    /\ \/ \E f \in j.doomed :
             /\ spill' = Without(f.index, f.batch)
             /\ Goes(p, [j EXCEPT !.doomed = @ \ {f}])
             /\ UNCHANGED profiles
       \/ /\ j.doomed = {}
          /\ profiles' = IF j.report = Null THEN profiles ELSE profiles \cup {j.report}
          /\ Goes(p, Idle)
          /\ UNCHANGED spill
    /\ UNCHANGED <<data, approver, salt, activation, artifact, exports, published,
                   activations, count>>

-----------------------------------------------------------------------------
(* The policy.                                                              *)

\* The file of a new salt exists before its bytes are written.
BeginPropose(p) ==
    /\ Free(p)
    /\ salt = Null
    /\ salt' = Empty
    /\ Begins(p, [at |-> "salt"])
    /\ UNCHANGED <<data, approver, spill, activation, artifact, exports, history>>

WriteSalt(p) ==
    /\ job[p].at = "salt"
    /\ salt' = TheSalt
    /\ Goes(p, Idle)
    /\ UNCHANGED <<data, approver, spill, activation, artifact, exports, history, count>>

PolicyOf(fields) == [Proposed(Grain, salt) EXCEPT !.fields = fields]

Activate(p, profile, fields) ==
    /\ Free(p)
    /\ salt # Null
    /\ LET policy == PolicyOf(fields)
           a == Activation(policy, profile, approver)
       IN  /\ Activatable(policy, profile)
           /\ activation' = a
           /\ activations' = activations \cup {a}
           /\ Begins(p, [at |-> "record", activation |-> a])
    /\ UNCHANGED <<data, approver, spill, salt, artifact, exports, profiles, published>>

RecordPolicy(p) ==
    /\ job[p].at = "record"
    /\ artifact' = job[p].activation
    /\ Goes(p, Idle)
    /\ UNCHANGED <<data, approver, spill, salt, activation, exports, history, count>>

-----------------------------------------------------------------------------
(* Context exports.                                                         *)

\* Mutant: the exports are looked for under another name.
UsedNothing == 0
Used == Total([n \in DOMAIN exports |-> exports[n].bytes])

\* The salt, the activation, the charter and the bytes exported so far are
\* read; the source is opened after them.
BeginExport(p, profile, fields) ==
    /\ Free(p)
    /\ salt # Null
    /\ activation # Null
    /\ Verified(activation, PolicyOf(fields), profile, approver)
    /\ Begins(p, [at |-> "build", policy |-> PolicyOf(fields), profile |-> profile,
                  salt |-> salt, used |-> Used, approver |-> approver,
                  alone |-> Exporting = {}])
    /\ UNCHANGED <<data, approver, workspace, history>>

Build(p) ==
    LET j == job[p]
        e == Export(FlattenSeq(Content(data)), j.policy, j.profile, j.salt, j.used)
    IN
    /\ j.at = "build"
    /\ Goes(p, IF e = Refused THEN Idle
               ELSE [at |-> "name", export |-> e, approver |-> j.approver,
                     alone |-> j.alone])
    /\ UNCHANGED <<data, approver, workspace, history, count>>

\* The next free number of the directory; whatever has it by the time of the
\* write is overwritten.
Name(p) ==
    /\ job[p].at = "name"
    /\ Goes(p, [at |-> "write", export |-> job[p].export, approver |-> job[p].approver,
                alone |-> job[p].alone, number |-> Len(exports) + 1])
    /\ UNCHANGED <<data, approver, workspace, history, count>>

Write(p) ==
    LET j == job[p] IN
    /\ j.at = "write"
    /\ exports' = [n \in DOMAIN exports \cup {j.number} |->
                     IF n = j.number THEN j.export ELSE exports[n]]
    /\ published' = published \cup
          {[export |-> j.export, number |-> j.number, approver |-> j.approver,
            alone |-> j.alone]}
    /\ Goes(p, Idle)
    /\ UNCHANGED <<data, approver, spill, salt, activation, artifact, profiles,
                   activations, count>>

-----------------------------------------------------------------------------
(* The environment.                                                         *)

Changes ==
    /\ count.changes < MaxChanges
    /\ count' = [count EXCEPT !.changes = @ + 1]

NewData(v) ==
    /\ v # data
    /\ Changes
    /\ data' = v
    /\ UNCHANGED <<approver, workspace, job, history>>

Revise(a) ==
    /\ a # approver
    /\ Changes
    /\ approver' = a
    /\ UNCHANGED <<data, workspace, job, history>>

Kill(p) ==
    /\ job[p] # Idle
    /\ Changes
    /\ Goes(p, Idle)
    /\ UNCHANGED <<data, approver, workspace, history>>

Checkpoints == {r.profile : r \in {x \in profiles : x.profile.outcome = "partial"}}
Made == {r.profile : r \in {x \in profiles : Available(x.profile)}}

Run(p) ==
    \/ Clear(p) \/ Read(p) \/ Spill(p) \/ Aggregate(p) \/ Drop(p)
    \/ WriteSalt(p) \/ RecordPolicy(p) \/ Build(p) \/ Name(p) \/ Write(p)

Next ==
    \/ \E p \in Procs :
          \/ \E c \in Checkpoints \cup {Null}, stop \in Stops : BeginScan(p, c, stop)
          \/ Deadline(p) \/ Cancel(p)
          \/ BeginPropose(p)
          \/ \E profile \in Made : \E f \in Policies(profile) :
                Activate(p, profile, f) \/ BeginExport(p, profile, f)
          \/ Run(p) \/ Kill(p)
    \/ \E v \in Versions : NewData(v)
    \/ \E a \in Approvers : Revise(a)

\* A read may never return, but the watchdog's thread runs; a late read
\* is ended by the closed stream.
Spec ==
    /\ Init /\ [][Next]_vars
    /\ \A p \in Procs :
          /\ WF_vars(Deadline(p)) /\ WF_vars(Cancel(p))
          /\ WF_vars(job[p].at = "read" /\ job[p].closed /\ Read(p))
          /\ WF_vars(Clear(p)) /\ WF_vars(Spill(p))
          /\ WF_vars(Aggregate(p)) /\ WF_vars(Drop(p))

-----------------------------------------------------------------------------
\* A completed profile counts every row of the snapshot its scan opened once
\* and no other: whatever an earlier run, killed or stopped, left in the
\* spill, and whether it was resumed or not.  A scan that resumes over a file
\* which a killed or failed run left half written under the name of the
\* checkpoint's batch counts nothing, rather than a part of the rows.  Only two
\* scans at once, and a token that lies about the number of its batches, are
\* excepted.
ScanExact ==
    \A r \in profiles :
        Available(r.profile) /\ r.alone /\ r.honest =>
            r.profile = IF r.intact
                          THEN Completed(r.profile.token, r.batches, r.batches, Grain)
                          ELSE Uncounted(r.profile.token, r.batches)

\* Every export rests on an activation of the approver the charter named when
\* the export began, for that policy and that profile, and shows no value the
\* policy does not reveal, none of a denied column and none that looks like a
\* credential: whatever was activated, revised or profiled again since.
ExportApproved ==
    \A x \in published :
        /\ Activation(x.export.policy, x.export.profile, x.approver) \in activations
        /\ \A i \in DOMAIN x.export.rows : \A c \in DOMAIN x.export.rows[i] :
              LET v == x.export.rows[i][c] IN
              /\ x.export.policy.fields[c] # "omit"
              /\ "value" \in DOMAIN v =>
                    /\ x.export.policy.fields[c] = "reveal"
                    /\ c \notin Denied /\ v.value \notin Secret
                    /\ x.export.profile.columns[c].distinct <= Caps.revealed

\* As long as no export written began while another was under way, none is
\* overwritten and together they stay below the cap of the session.
BudgetKept ==
    (\A x \in published : x.alone) =>
        /\ \A x \in published : exports[x.number] = x.export
        /\ Total([n \in DOMAIN exports |-> exports[n].bytes]) <= Caps.session

\* The exports of a session are numbered without a gap, each within its own cap
\* and all within the session's (_next_context_export_path).
ExportsSound == TypeOK /\ BudgetKept

\* A scan ends although a read of the source never returns: the watchdog
\* closes the stream.
ScanEnds == \A p \in Procs : p \in Scanning ~> p \notin Scanning
=============================================================================
