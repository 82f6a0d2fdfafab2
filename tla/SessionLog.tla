------------------------------ MODULE SessionLog ------------------------------
(***************************************************************************)
(* What the session store promises: one sequence of events that grows at   *)
(* its end, one event at a time, while the session moves through its       *)
(* primary states in order, back to the interview from a draft or a        *)
(* review, or to its end.  Only events that are not sure yet can be lost   *)
(* again, but for those that an outsider removes, which is counted.  There *)
(* is no file, lock or process here.                                       *)
(***************************************************************************)
EXTENDS Integers, Sequences

VARIABLES log,        \* the committed events
          sure,       \* how many of them no crash can take back
          phase,      \* the state of the session
          removed     \* how often an outsider has removed something

logVars == <<log, sure, phase, removed>>

\* The primary states in their order.
Primary == <<"initialized", "intake", "sample_policy_pending", "interviewing",
             "drafting", "review_ready", "approved", "applied", "closed">>

Open == {Primary[i] : i \in 1..(Len(Primary) - 1)}

Moves ==
    {<<"absent", "initialized">>}
    \cup {<<Primary[i], Primary[i + 1]>> : i \in 1..(Len(Primary) - 1)}
    \cup {"drafting", "review_ready"} \X {"interviewing"}
    \cup Open \X {"closed"}
    \cup {<<s, s>> : s \in Open}

LogInit == log = <<>> /\ sure = 0 /\ phase = "absent" /\ removed = 0

Grow ==
    /\ Len(log') = Len(log) + 1
    /\ SubSeq(log', 1, Len(log)) = log
    /\ sure' \in {sure, Len(log')}
    /\ <<phase, phase'>> \in Moves
    /\ UNCHANGED removed

Settle == sure' = Len(log) /\ UNCHANGED <<log, phase, removed>>

Lose ==
    \E n \in sure..(Len(log) - 1) :
        /\ log' = SubSeq(log, 1, n)
        /\ sure' = n
        /\ (n = 0) <=> (phase' = "absent")
        /\ UNCHANGED removed

TakeLast ==
    /\ log # <<>>
    /\ log' = SubSeq(log, 1, Len(log) - 1)
    /\ sure' = IF sure < Len(log) THEN sure ELSE Len(log')

\* The last event of a session that stays one, or something beside the log.
Remove ==
    /\ removed' = removed + 1
    /\ \/ UNCHANGED <<log, sure, phase>>
       \/ TakeLast /\ phase' # "absent"

LogNext == Grow \/ Settle \/ Lose \/ Remove

LogSpec == LogInit /\ [][LogNext]_logVars
=============================================================================
