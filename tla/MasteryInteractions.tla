-------------------------- MODULE MasteryInteractions --------------------------
(***************************************************************************)
(* The questions that tutors put to the learner of one mastery path        *)
(* (learning/service.py over the transactions of learning/storage.py).  An *)
(* interaction row holds the state of each question; the path's aggregate  *)
(* repeats the open one in pending_question, which older aggregates have   *)
(* without a row.  A transaction is atomic (BEGIN IMMEDIATE); the tools    *)
(* and the pause and resume hooks of capabilities/mastery read the store,  *)
(* await, and write in a second transaction.                               *)
(*                                                                         *)
(* A question is a choice card: an answer either picks an option or is     *)
(* prose that picks none.  Of a short question every answer is readable.   *)
(***************************************************************************)
EXTENDS Naturals

CONSTANTS
  Question,      \* question ids, each of which is registered at most once
  Objective,     \* knowledge points
  About,         \* the knowledge point that each question tests
  Quizzer,       \* turns that teach the path
  Pick,          \* readable answers
  Prose,         \* an answer that picks no option
  NoAnswer, NoQuestion

ASSUME AboutIsMap == About \in [Question -> Objective]
ASSUME AnswersDiffer == Prose \notin Pick /\ NoAnswer \notin Pick /\ NoAnswer # Prose
ASSUME NoQuestionIsNone == NoQuestion \notin Question

VARIABLES
  status,        \* the status of each interaction row
  answer,        \* the answer stored in it
  pending,       \* progress.pending_question
  route,         \* the knowledge points of the path's modules
  attempts,      \* progress.quiz_attempts, counted by question
  doing,         \* what each turn is at
  said,          \* the answer it is about to submit
  target,        \* the question id it grades, NoQuestion when omitted
  keyOf          \* the question whose expected answer it grades against

quizVars == <<status, answer, pending, route, attempts, doing, said, target, keyOf>>
rowVars == <<status, answer, pending, route, attempts>>
turnVars == <<doing, said, target, keyOf>>

Live == {"registered", "awaiting", "answered"}
Final == {"graded", "abandoned"}
Answer == Pick \cup {Prose}

Open == {q \in Question : status[q] \in Live}

\* _interaction_from_legacy_pending: a pending question without a row.
Legacy == {q \in Question : q = pending /\ status[q] = "absent"}

\* What a transaction without an id works on.
Current == IF Open # {} THEN Open ELSE Legacy

\* It would write the row of a question that is over: the store refuses.
Refused == Open = {} /\ pending # NoQuestion /\ status[pending] \in Final

QuizTypeOK ==
  /\ status \in [Question -> Live \cup Final \cup {"absent"}]
  /\ answer \in [Question -> Answer \cup {NoAnswer}]
  /\ pending \in Question \cup {NoQuestion}
  /\ route \subseteq Objective
  /\ attempts \in [Question -> Nat]
  /\ doing \in [Quizzer -> {"teaching", "paused", "committing", "grading"}]
  /\ said \in [Quizzer -> Answer \cup {NoAnswer}]
  /\ target \in [Quizzer -> Question \cup {NoQuestion}]
  /\ keyOf \in [Quizzer -> Question \cup {NoQuestion}]
  /\ \A t \in Quizzer : doing[t] \in {"committing", "grading"} <=> said[t] # NoAnswer

(***************************************************************************)
(* A path that may come from an older aggregate: its pending question has  *)
(* no row, or outlived the completion of its interaction.                  *)
(***************************************************************************)
QuizInit ==
  /\ pending \in Question \cup {NoQuestion}
  /\ status \in [Question -> {"absent", "graded"}]
  /\ \A q \in Question : status[q] = "graded" => q = pending
  /\ answer = [q \in Question |-> NoAnswer]
  /\ route = Objective
  /\ attempts = [q \in Question |-> IF status[q] = "graded" THEN 1 ELSE 0]
  /\ doing = [t \in Quizzer |-> "teaching"]
  /\ said = [t \in Quizzer |-> NoAnswer]
  /\ target = [t \in Quizzer |-> NoQuestion]
  /\ keyOf = [t \in Quizzer |-> NoQuestion]

\* The turn leaves a tool or a hook.
Back(t) ==
  /\ doing' = [doing EXCEPT ![t] = "teaching"]
  /\ said' = [said EXCEPT ![t] = NoAnswer]
  /\ target' = [target EXCEPT ![t] = NoQuestion]
  /\ keyOf' = [keyOf EXCEPT ![t] = NoQuestion]

\* Mutation: a new question replaces the one that is open.
PoseOver(t, q) ==
  /\ doing[t] = "teaching" /\ status[q] = "absent" /\ q # pending
  /\ About[q] \in route /\ Legacy = {}
  /\ status' = [status EXCEPT ![q] = "registered"] /\ pending' = q
  /\ UNCHANGED <<answer, route, attempts, turnVars>>

\* mastery_quiz, register_question: nothing is open, so the question is.
Pose(t, q) ==
  /\ doing[t] = "teaching" /\ status[q] = "absent" /\ q # pending
  /\ About[q] \in route /\ Current = {}
  /\ status' = [status EXCEPT ![q] = "registered"]
  /\ pending' = q
  /\ UNCHANGED <<answer, route, attempts, turnVars>>

\* register_question finds a legacy question instead, and gives it a row.
Adopt(t) ==
  /\ doing[t] = "teaching" /\ Open = {}
  /\ \E q \in Legacy : status' = [status EXCEPT ![q] = "registered"]
  /\ UNCHANGED <<answer, pending, route, attempts, turnVars>>

\* ask_user: on_user_pause, mark_question_awaiting without an id.
Pause(t) ==
  /\ doing[t] = "teaching" /\ ~Refused
  /\ status' = [q \in Question |->
                 IF q \in Current /\ status[q] \in {"absent", "registered"}
                   THEN "awaiting" ELSE status[q]]
  /\ doing' = [doing EXCEPT ![t] = "paused"]
  /\ UNCHANGED <<answer, pending, route, attempts, said, target, keyOf>>

(***************************************************************************)
(* on_user_resume looks at the open question first: prose that does not    *)
(* come from the card is conversation, not an answer to it.                *)
(***************************************************************************)
Resume(t, a, fromCard) ==
  /\ doing[t] = "paused"
  /\ IF ~fromCard /\ Open # {} /\ a = Prose
       THEN Back(t)
       ELSE /\ doing' = [doing EXCEPT ![t] = "committing"]
            /\ said' = [said EXCEPT ![t] = a]
            /\ UNCHANGED <<target, keyOf>>
  /\ UNCHANGED rowVars

\* Whether the answer a takes the place of what is stored.
Takes(q, a) ==
  \/ status[q] \in {"absent", "registered", "awaiting"}
  \/ status[q] = "answered" /\ answer[q] = Prose /\ a # Prose

\* Mutation: a second reply overwrites the recorded one.
RecordAgain(t) ==
  /\ doing[t] = "committing"
  /\ LET asked == {q \in Current : ~Refused} IN
     /\ status' = [q \in Question |-> IF q \in asked THEN "answered" ELSE status[q]]
     /\ answer' = [q \in Question |-> IF q \in asked THEN said[t] ELSE answer[q]]
  /\ Back(t)
  /\ UNCHANGED <<pending, route, attempts>>

\* record_question_answer without an id; where the store refuses, the turn fails.
Record(t) ==
  /\ doing[t] = "committing"
  /\ LET asked == {q \in Current : ~Refused /\ Takes(q, said[t])} IN
     /\ status' = [q \in Question |-> IF q \in asked THEN "answered" ELSE status[q]]
     /\ answer' = [q \in Question |-> IF q \in asked THEN said[t] ELSE answer[q]]
  /\ Back(t)
  /\ UNCHANGED <<pending, route, attempts>>

\* The question that a call of mastery_grade with this id looks up.
Looked(id) ==
  CASE id # NoQuestion /\ status[id] # "absent" -> {id}
    [] id = NoQuestion /\ Open # {} -> Open
    [] OTHER -> {q \in Question : q = pending}

(***************************************************************************)
(* mastery_grade reads the question and its expected answer before it      *)
(* awaits; prose on a question that is not graded yet is sent back.  The   *)
(* model knows the ids of the questions that were posed.                   *)
(***************************************************************************)
OpenGrade(t, id, a) ==
  /\ doing[t] = "teaching"
  /\ id \in {NoQuestion, pending} \cup {q \in Question : status[q] # "absent"}
  /\ \E q \in Looked(id) :
       LET kept == status[q] = "answered" /\ answer[q] # Prose
           submitted == IF kept THEN answer[q] ELSE a
       IN  /\ submitted # Prose \/ status[q] = "graded"
           /\ said' = [said EXCEPT ![t] = submitted]
           /\ keyOf' = [keyOf EXCEPT ![t] = q]
  /\ target' = [target EXCEPT ![t] = id]
  /\ doing' = [doing EXCEPT ![t] = "grading"]
  /\ UNCHANGED rowVars

\* Mutation: the id of the call is not looked at.
GradableOpen(id) == {q \in Current : ~Refused}

\* The questions that grade_interaction may grade.
Gradable(id) ==
  IF id = NoQuestion THEN {q \in Current : ~Refused}
    ELSE {q \in {id} : status[q] \in Live} \cup {q \in Legacy : q = id}

Stored(q, a) == IF status[q] = "answered" /\ (answer[q] # Prose \/ a = Prose)
                  THEN answer[q] ELSE a

\* Mutation: a retried call grades the question again.
GradeTwice(t) ==
  /\ doing[t] = "grading"
  /\ LET graded == Gradable(target[t]) \cup {q \in Question : q = target[t]} IN
     /\ status' = [q \in Question |-> IF q \in graded THEN "graded" ELSE status[q]]
     /\ answer' = [q \in Question |-> IF q \in graded THEN Stored(q, said[t]) ELSE answer[q]]
     /\ attempts' = [q \in Question |-> attempts[q] + IF q \in graded THEN 1 ELSE 0]
     /\ pending' = IF pending \in graded THEN NoQuestion ELSE pending
  /\ Back(t)
  /\ UNCHANGED route

(***************************************************************************)
(* grade_interaction.  A question that was graded is replayed, one that    *)
(* was abandoned, or is not the pending one, is an error.                  *)
(***************************************************************************)
Grade(t) ==
  /\ doing[t] = "grading"
  /\ LET graded == Gradable(target[t]) IN
     /\ status' = [q \in Question |-> IF q \in graded THEN "graded" ELSE status[q]]
     /\ answer' = [q \in Question |-> IF q \in graded THEN Stored(q, said[t]) ELSE answer[q]]
     /\ attempts' = [q \in Question |-> attempts[q] + IF q \in graded THEN 1 ELSE 0]
     /\ pending' = IF pending \in graded THEN NoQuestion ELSE pending
  /\ Back(t)
  /\ UNCHANGED route

\* abandon_active_interactions on the questions in gone.
Abandon(gone) ==
  status' = [q \in Question |-> IF q \in gone /\ status[q] \in Live
                                  THEN "abandoned" ELSE status[q]]

\* mastery_skip_question and the skip-question route: abandon_active_question.
Skip ==
  /\ Abandon(Question)
  /\ pending' = NoQuestion
  /\ UNCHANGED <<answer, route, attempts, turnVars>>

\* reset_path.
Reset ==
  /\ Abandon(Question)
  /\ pending' = NoQuestion
  /\ attempts' = [q \in Question |-> 0]
  /\ UNCHANGED <<answer, route, turnVars>>

\* replace_modules_for_path: a question about an objective that is gone goes.
Rebuild(objectives) ==
  /\ route' = objectives
  /\ Abandon({q \in Question : About[q] \notin objectives})
  /\ pending' = IF pending # NoQuestion /\ About[pending] \in objectives
                  THEN pending ELSE NoQuestion
  /\ attempts' = [q \in Question |-> IF About[q] \in objectives THEN attempts[q] ELSE 0]
  /\ UNCHANGED <<answer, turnVars>>

\* The same with append, which keeps everything.
Extend(objectives) ==
  /\ route' = route \cup objectives
  /\ UNCHANGED <<status, answer, pending, attempts, turnVars>>

QuizNext ==
  \/ \E t \in Quizzer :
       \/ \E q \in Question : Pose(t, q)
       \/ Adopt(t) \/ Pause(t) \/ Record(t) \/ Grade(t)
       \/ \E a \in Answer, fromCard \in BOOLEAN : Resume(t, a, fromCard)
       \/ \E id \in Question \cup {NoQuestion}, a \in Answer : OpenGrade(t, id, a)
  \/ Skip \/ Reset
  \/ \E objectives \in SUBSET Objective : Rebuild(objectives) \/ Extend(objectives)

QuizSpec == QuizInit /\ [][QuizNext]_quizVars

-----------------------------------------------------------------------------
(***************************************************************************)
(* At most one question is open on the path, and it is the pending one:    *)
(* whatever turns, retries, skips, resets and rebuilds do, the learner is  *)
(* never asked two things (learning/service.py register_question).         *)
(***************************************************************************)
OneQuestionOpen == \A q \in Open : pending = q /\ Open = {q}

(***************************************************************************)
(* A question counts for mastery once at most, and only when it is graded: *)
(* a retried mastery_grade adds no attempt (grade_interaction).            *)
(***************************************************************************)
AttemptOnce ==
  \A q \in Question : attempts[q] <= 1 /\ (attempts[q] = 1 => status[q] = "graded")

(***************************************************************************)
(* A readable answer, once recorded, is the one that is graded: no later   *)
(* reply of any turn, and no answer that the model passes to mastery_grade *)
(* replaces it (record_question_answer, grade_interaction).                *)
(***************************************************************************)
ReplyKept ==
  [][\A q \in Question :
       status[q] = "answered" /\ answer[q] \in Pick => answer'[q] = answer[q]]_quizVars

(***************************************************************************)
(* A call of mastery_grade that names its question grades it against its   *)
(* own expected answer, although the tool reads that before it awaits      *)
(* and grades afterwards (capabilities/mastery/tools.py).  A call without  *)
(* an id would grade whatever is open by then.                             *)
(***************************************************************************)
GradedByItsKey ==
  [][\A t \in Quizzer, q \in Question :
       target[t] # NoQuestion /\ doing'[t] # "grading" /\ attempts'[q] > attempts[q]
         => keyOf[t] = q]_quizVars
=============================================================================
