---------------------------- MODULE InterviewIndex ----------------------------
(***************************************************************************)
(* What an interview journal means: interview.py of selayer-discovery.     *)
(* The code has it twice: a command under the interview lock changes the   *)
(* index it has just replayed, partly before it writes its event and       *)
(* partly after (Prepared, Live); every later command replays the events   *)
(* (Applied).                                                              *)
(***************************************************************************)
EXTENDS Integers, Sequences

CONSTANTS
    Gates,      \* gates of the interview
    Texts       \* answers, each with its author

\* Nothing answers an open question, nothing supersedes a current answer.
None == 0

Open == "undisposed"
Dispositions == {"answered", "not_applicable", "blocked"}

Question == [gate : Gates, answered_by : Nat]
Answer == [gate : Gates, text : Texts, question : Nat, superseded_by : Nat]

InterviewIndex ==
    [questions : Seq(Question), answers : Seq(Answer), corrections : Nat,
     disposition : [Gates -> Dispositions \cup {Open}],
     current : [Gates -> Nat], open : Nat]

Empty ==
    [questions |-> <<>>, answers |-> <<>>, corrections |-> 0,
     disposition |-> [g \in Gates |-> Open],
     current |-> [g \in Gates |-> None], open |-> None]

\* The four events, and their payloads.
Event ==
    [type : {"question_asked"}, id : Nat, gate : Gates]
    \cup [type : {"answer_recorded"}, id : Nat, gate : Gates, text : Texts,
          question : Nat]
    \cup [type : {"correction_recorded"}, id : Nat, gate : Gates, text : Texts,
          old : Nat]
    \cup [type : {"gate_disposition"}, gate : Gates,
          disposition : Dispositions]

\* Questions and answers are kept by id, and ids count from one.
Put(s, id, r) == IF id <= Len(s) THEN [s EXCEPT ![id] = r] ELSE Append(s, r)

NewQuestion(e) == [gate |-> e.gate, answered_by |-> None]
NewAnswer(e, question) ==
    [gate |-> e.gate, text |-> e.text, question |-> question,
     superseded_by |-> None]

Asks(x, e) ==
    [x EXCEPT !.questions = Put(@, e.id, NewQuestion(e)), !.open = e.id]

Disposes(x, e) == [x EXCEPT !.disposition[e.gate] = e.disposition]

\* The answers of an index with one more of them, the current one of its gate.
Says(x, e, question) ==
    [x EXCEPT !.answers = Put(@, e.id, NewAnswer(e, question)),
              !.current[e.gate] = e.id]

Closes(x, question, id) ==
    [x EXCEPT !.questions[question].answered_by = id, !.open = None]

Supersedes(x, old, id) == [x EXCEPT !.answers[old].superseded_by = id]

-----------------------------------------------------------------------------
\* Mutant of AppliedAnswer: replaying an answer leaves its question open.
AppliedAnswerOnly(x, e) == Says(x, e, e.question)

\* _apply_answer.
AppliedAnswer(x, e) ==
    IF /\ e.question \in 1..Len(x.questions)
       /\ x.questions[e.question].answered_by = None
    THEN Closes(Says(x, e, e.question), e.question, e.id)
    ELSE Says(x, e, e.question)

\* _apply_correction.
AppliedCorrection(x, e) ==
    LET y == IF e.old \in 1..Len(x.answers) THEN Supersedes(x, e.old, e.id)
                                            ELSE x
    IN  [Says(y, e, None) EXCEPT !.corrections = @ + 1]

\* _apply_event.
Applied(x, e) ==
    CASE e.type = "question_asked" -> Asks(x, e)
      [] e.type = "answer_recorded" -> AppliedAnswer(x, e)
      [] e.type = "correction_recorded" -> AppliedCorrection(x, e)
      [] e.type = "gate_disposition" -> Disposes(x, e)

-----------------------------------------------------------------------------
\* What a command changes before its event is written: answer closes the open
\* question, correct supersedes the answer it cites.
Prepared(x, e) ==
    CASE e.type = "answer_recorded" /\ e.question # None ->
            Closes(x, e.question, e.id)
      [] e.type = "correction_recorded" -> Supersedes(x, e.old, e.id)
      [] OTHER -> x

\* ... and once it is.
Live(x, e) ==
    CASE e.type = "question_asked" -> Asks(x, e)
      [] e.type = "answer_recorded" -> Says(x, e, e.question)
      [] e.type = "correction_recorded" ->
            [Says(x, e, None) EXCEPT !.corrections = @ + 1]
      [] e.type = "gate_disposition" -> Disposes(x, e)

-----------------------------------------------------------------------------
\* group_gate_ready.
GatesReady(x, gates) ==
    \A g \in gates : x.disposition[g] \notin {Open, "blocked"}

IsOpen(x, i) == x.questions[i].answered_by = None
IsCurrent(x, i) == x.answers[i].superseded_by = None
=============================================================================
