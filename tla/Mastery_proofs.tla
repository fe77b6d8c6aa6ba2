---------------------------- MODULE Mastery_proofs -----------------------------
(***************************************************************************)
(* Proofs about the leases of the mastery paths, for any paths, turns and  *)
(* requests, with every interleaving, cancellation and death of the model; *)
(* and about the questions of one path, for any sets of questions,         *)
(* objectives, turns and answers.                                          *)
(*                                                                         *)
(* PathsGivenBack is not inductive: that Finish, which releases by turn,   *)
(* and GiveBack and Check, which release by path, leave nothing behind     *)
(* needs HeldByTheLiving, which says at which steps a turn or a request    *)
(* can hold a path and which one.  WorkersHoldPaths needs Holding: a turn  *)
(* already has its path when it is checked, and keeps it while it is       *)
(* parked, unless it was deprived of it.                                   *)
(*                                                                         *)
(* OneQuestionOpen and AttemptOnce are inductive with the types.           *)
(* GradedByItsKey needs one fact more, IdNamesKey: the question a turn     *)
(* names is the one whose expected answer it holds, and only while it      *)
(* grades.  That a grading turn has an answer needs AnsweredHasOne.        *)
(***************************************************************************)
EXTENDS PathLeases, MasteryInteractions, TLAPS

-----------------------------------------------------------------------------
(* The leases of the paths                                                 *)

Keeping == {"checking", "working", "parked", "closing"}

HeldByTheLiving ==
  \A p \in Path, x \in Holder \ broken :
    holder[p] = x =>
      IF x \in Tutor THEN step[x] \in Keeping /\ (step[x] = "checking" => p = on[x])
                     ELSE step[x] = "working" /\ p = on[x]

Holding ==
  \A x \in Holder \ strayed :
    step[x] \in {"checking", "working", "parked"} => holder[on[x]] = x

\* Where turns and requests are bound, and to whom they look.
Bound ==
  /\ \A x \in Holder :
       /\ step[x] # "new" => on[x] \in Path
       /\ step[x] \in {"judging", "freeing", "cancelling"} => saw[x] \in Tutor
  /\ \A t \in Tutor :
       /\ step[t] \in {"switching", "returning"} =>
            aim[t] \in Path /\ left[t] \in {on[t], NoPath}
       /\ late[t] # NoPath => t \in broken

PathInv == PathTypeOK /\ HeldByTheLiving /\ Holding /\ Bound

LEMMA PathTypeStep ==
  ASSUME PathInv, [PathNext]_pathVars
  PROVE  PathTypeOK'
<1> USE HoldersDiffer, NoPathIsNoPath DEF PathInv, PathTypeOK, Holder, To, SetRow, Give, CanTake, fixed, Bound, TutorStep, AdminStep, RowStatus
<1>1. ASSUME NEW t \in Tutor, Look(t)
      PROVE  PathTypeOK'
  BY <1>1 DEF Look
<1>2. ASSUME NEW t \in Tutor, Judge(t)
      PROVE  PathTypeOK'
  BY <1>2 DEF Judge
<1>3. ASSUME NEW t \in Tutor, FreeSuperseded(t)
      PROVE  PathTypeOK'
  BY <1>3 DEF FreeSuperseded, ReleaseOf
<1>4. ASSUME NEW t \in Tutor, Take(t)
      PROVE  PathTypeOK'
  BY <1>4 DEF Take
<1>5. ASSUME NEW t \in Tutor, Check(t)
      PROVE  PathTypeOK'
  BY <1>5 DEF Check, ReleaseOf
<1>6. ASSUME NEW t \in Tutor, EnterPath(t)
      PROVE  PathTypeOK'
  BY <1>6 DEF EnterPath
<1>7. ASSUME NEW t \in Tutor, Return(t)
      PROVE  PathTypeOK'
  BY <1>7 DEF Return
<1>8. ASSUME NEW t \in Tutor, Finish(t)
      PROVE  PathTypeOK'
  BY <1>8 DEF Finish, Freed, DropSwitch
<1>9. ASSUME NEW t \in Tutor, Park(t)
      PROVE  PathTypeOK'
  BY <1>9 DEF Park
<1>10. ASSUME NEW t \in Tutor, Unpark(t)
      PROVE  PathTypeOK'
  BY <1>10 DEF Unpark
<1>11. ASSUME NEW t \in Tutor, Stop(t)
      PROVE  PathTypeOK'
  BY <1>11 DEF Stop
<1>12. ASSUME NEW t \in Tutor, ThreadTakes(t)
      PROVE  PathTypeOK'
  BY <1>12 DEF ThreadTakes
<1>13. ASSUME NEW t \in Tutor, Die(t)
      PROVE  PathTypeOK'
  BY <1>13 DEF Die, DropSwitch
<1>14. ASSUME NEW t \in Tutor, Recover(t)
      PROVE  PathTypeOK'
  BY <1>14 DEF Recover
<1>15. ASSUME NEW t \in Tutor, NEW p \in Path, Begin(t, p)
      PROVE  PathTypeOK'
  BY <1>15 DEF Begin
<1>16. ASSUME NEW t \in Tutor, NEW p \in Path, LeavePath(t, p)
      PROVE  PathTypeOK'
  BY <1>16 DEF LeavePath, Freed
<1>17. ASSUME NEW a \in Admin, CancelTutor(a)
      PROVE  PathTypeOK'
  BY <1>17 DEF CancelTutor
<1>18. ASSUME NEW a \in Admin, FreeTutor(a)
      PROVE  PathTypeOK'
  BY <1>18 DEF FreeTutor, ReleaseOf
<1>19. ASSUME NEW a \in Admin, TakeOver(a)
      PROVE  PathTypeOK'
  BY <1>19 DEF TakeOver
<1>20. ASSUME NEW a \in Admin, GiveBack(a)
      PROVE  PathTypeOK'
  BY <1>20 DEF GiveBack, ReleaseOf
<1>21. ASSUME NEW a \in Admin, DieAsking(a)
      PROVE  PathTypeOK'
  BY <1>21 DEF DieAsking
<1>22. ASSUME NEW a \in Admin, NEW p \in Path, Ask(a, p)
      PROVE  PathTypeOK'
  BY <1>22 DEF Ask, Sweep
<1>23. CASE UNCHANGED pathVars
  BY <1>23 DEF pathVars
<1> QED
  BY <1>1, <1>2, <1>3, <1>4, <1>5, <1>6, <1>7, <1>8, <1>9, <1>10, <1>11, <1>12, <1>13, <1>14, <1>15, <1>16, <1>17, <1>18, <1>19, <1>20, <1>21, <1>22, <1>23
     DEF PathNext, Proceed, ProceedAdmin

LEMMA BoundStep ==
  ASSUME PathInv, [PathNext]_pathVars
  PROVE  Bound'
<1> USE HoldersDiffer, NoPathIsNoPath DEF PathInv, PathTypeOK, Holder, To, SetRow, Give, CanTake, fixed, Bound
<1>1. ASSUME NEW t \in Tutor, Look(t)
      PROVE  Bound'
  BY <1>1 DEF Look
<1>2. ASSUME NEW t \in Tutor, Judge(t)
      PROVE  Bound'
  BY <1>2 DEF Judge
<1>3. ASSUME NEW t \in Tutor, FreeSuperseded(t)
      PROVE  Bound'
  BY <1>3 DEF FreeSuperseded, ReleaseOf
<1>4. ASSUME NEW t \in Tutor, Take(t)
      PROVE  Bound'
  BY <1>4 DEF Take
<1>5. ASSUME NEW t \in Tutor, Check(t)
      PROVE  Bound'
  BY <1>5 DEF Check, ReleaseOf
<1>6. ASSUME NEW t \in Tutor, EnterPath(t)
      PROVE  Bound'
  <2>1. CASE CanTake(aim[t], t)
    <3>1. /\ on' = [on EXCEPT ![t] = aim[t]] /\ aim[t] \in Path
          /\ step' = [step EXCEPT ![t] = "working"]
          /\ UNCHANGED <<saw, aim, left, late, broken>>
      BY <1>6, <2>1 DEF EnterPath
    <3> QED
      BY <3>1
  <2>2. CASE ~CanTake(aim[t], t)
    BY <1>6, <2>2 DEF EnterPath
  <2> QED
    BY <2>1, <2>2
<1>7. ASSUME NEW t \in Tutor, Return(t)
      PROVE  Bound'
  BY <1>7 DEF Return
<1>8. ASSUME NEW t \in Tutor, Finish(t)
      PROVE  Bound'
  BY <1>8 DEF Finish, Freed, DropSwitch
<1>9. ASSUME NEW t \in Tutor, Park(t)
      PROVE  Bound'
  BY <1>9 DEF Park
<1>10. ASSUME NEW t \in Tutor, Unpark(t)
      PROVE  Bound'
  BY <1>10 DEF Unpark
<1>11. ASSUME NEW t \in Tutor, Stop(t)
      PROVE  Bound'
  BY <1>11 DEF Stop
<1>12. ASSUME NEW t \in Tutor, ThreadTakes(t)
      PROVE  Bound'
  BY <1>12 DEF ThreadTakes
<1>13. ASSUME NEW t \in Tutor, Die(t)
      PROVE  Bound'
  BY <1>13 DEF Die, DropSwitch
<1>14. ASSUME NEW t \in Tutor, Recover(t)
      PROVE  Bound'
  BY <1>14 DEF Recover
<1>15. ASSUME NEW t \in Tutor, NEW p \in Path, Begin(t, p)
      PROVE  Bound'
  BY <1>15 DEF Begin
<1>16. ASSUME NEW t \in Tutor, NEW p \in Path, LeavePath(t, p)
      PROVE  Bound'
  BY <1>16 DEF LeavePath, Freed
<1>17. ASSUME NEW a \in Admin, CancelTutor(a)
      PROVE  Bound'
  BY <1>17 DEF CancelTutor
<1>18. ASSUME NEW a \in Admin, FreeTutor(a)
      PROVE  Bound'
  BY <1>18 DEF FreeTutor, ReleaseOf
<1>19. ASSUME NEW a \in Admin, TakeOver(a)
      PROVE  Bound'
  BY <1>19 DEF TakeOver
<1>20. ASSUME NEW a \in Admin, GiveBack(a)
      PROVE  Bound'
  BY <1>20 DEF GiveBack, ReleaseOf
<1>21. ASSUME NEW a \in Admin, DieAsking(a)
      PROVE  Bound'
  BY <1>21 DEF DieAsking
<1>22. ASSUME NEW a \in Admin, NEW p \in Path, Ask(a, p)
      PROVE  Bound'
  BY <1>22 DEF Ask, Sweep
<1>23. CASE UNCHANGED pathVars
  BY <1>23 DEF pathVars
<1> QED
  BY <1>1, <1>2, <1>3, <1>4, <1>5, <1>6, <1>7, <1>8, <1>9, <1>10, <1>11, <1>12, <1>13, <1>14, <1>15, <1>16, <1>17, <1>18, <1>19, <1>20, <1>21, <1>22, <1>23
     DEF PathNext, Proceed, ProceedAdmin

LEMMA HeldStep ==
  ASSUME PathInv, [PathNext]_pathVars
  PROVE  HeldByTheLiving'
<1> USE HoldersDiffer, NoPathIsNoPath DEF PathInv, PathTypeOK, Holder, To, SetRow, Give, CanTake, fixed, Bound, HeldByTheLiving, Keeping
<1>1. ASSUME NEW t \in Tutor, Look(t)
      PROVE  HeldByTheLiving'
  BY <1>1 DEF Look
<1>2. ASSUME NEW t \in Tutor, Judge(t)
      PROVE  HeldByTheLiving'
  BY <1>2 DEF Judge
<1>3. ASSUME NEW t \in Tutor, FreeSuperseded(t)
      PROVE  HeldByTheLiving'
  BY <1>3 DEF FreeSuperseded, ReleaseOf
<1>4. ASSUME NEW t \in Tutor, Take(t)
      PROVE  HeldByTheLiving'
  BY <1>4 DEF Take
<1>5. ASSUME NEW t \in Tutor, Check(t)
      PROVE  HeldByTheLiving'
  BY <1>5 DEF Check, ReleaseOf
<1>6. ASSUME NEW t \in Tutor, EnterPath(t)
      PROVE  HeldByTheLiving'
  BY <1>6 DEF EnterPath
<1>7. ASSUME NEW t \in Tutor, Return(t)
      PROVE  HeldByTheLiving'
  BY <1>7 DEF Return
<1>8. ASSUME NEW t \in Tutor, Finish(t)
      PROVE  HeldByTheLiving'
  BY <1>8 DEF Finish, Freed, DropSwitch
<1>9. ASSUME NEW t \in Tutor, Park(t)
      PROVE  HeldByTheLiving'
  BY <1>9 DEF Park
<1>10. ASSUME NEW t \in Tutor, Unpark(t)
      PROVE  HeldByTheLiving'
  BY <1>10 DEF Unpark
<1>11. ASSUME NEW t \in Tutor, Stop(t)
      PROVE  HeldByTheLiving'
  BY <1>11 DEF Stop
<1>12. ASSUME NEW t \in Tutor, ThreadTakes(t)
      PROVE  HeldByTheLiving'
  BY <1>12 DEF ThreadTakes
<1>13. ASSUME NEW t \in Tutor, Die(t)
      PROVE  HeldByTheLiving'
  BY <1>13 DEF Die, DropSwitch
<1>14. ASSUME NEW t \in Tutor, Recover(t)
      PROVE  HeldByTheLiving'
  BY <1>14 DEF Recover
<1>15. ASSUME NEW t \in Tutor, NEW p \in Path, Begin(t, p)
      PROVE  HeldByTheLiving'
  BY <1>15 DEF Begin
<1>16. ASSUME NEW t \in Tutor, NEW p \in Path, LeavePath(t, p)
      PROVE  HeldByTheLiving'
  BY <1>16 DEF LeavePath, Freed
<1>17. ASSUME NEW a \in Admin, CancelTutor(a)
      PROVE  HeldByTheLiving'
  BY <1>17 DEF CancelTutor
<1>18. ASSUME NEW a \in Admin, FreeTutor(a)
      PROVE  HeldByTheLiving'
  BY <1>18 DEF FreeTutor, ReleaseOf
<1>19. ASSUME NEW a \in Admin, TakeOver(a)
      PROVE  HeldByTheLiving'
  BY <1>19 DEF TakeOver
<1>20. ASSUME NEW a \in Admin, GiveBack(a)
      PROVE  HeldByTheLiving'
  BY <1>20 DEF GiveBack, ReleaseOf
<1>21. ASSUME NEW a \in Admin, DieAsking(a)
      PROVE  HeldByTheLiving'
  BY <1>21 DEF DieAsking
<1>22. ASSUME NEW a \in Admin, NEW p \in Path, Ask(a, p)
      PROVE  HeldByTheLiving'
  BY <1>22 DEF Ask, Sweep
<1>23. CASE UNCHANGED pathVars
  BY <1>23 DEF pathVars
<1> QED
  BY <1>1, <1>2, <1>3, <1>4, <1>5, <1>6, <1>7, <1>8, <1>9, <1>10, <1>11, <1>12, <1>13, <1>14, <1>15, <1>16, <1>17, <1>18, <1>19, <1>20, <1>21, <1>22, <1>23
     DEF PathNext, Proceed, ProceedAdmin

LEMMA HoldingStep ==
  ASSUME PathInv, [PathNext]_pathVars
  PROVE  Holding'
<1> USE HoldersDiffer, NoPathIsNoPath DEF PathInv, PathTypeOK, Holder, To, SetRow, Give, CanTake, fixed, Bound, Holding
<1>1. ASSUME NEW t \in Tutor, Look(t)
      PROVE  Holding'
  BY <1>1 DEF Look
<1>2. ASSUME NEW t \in Tutor, Judge(t)
      PROVE  Holding'
  BY <1>2 DEF Judge
<1>3. ASSUME NEW t \in Tutor, FreeSuperseded(t)
      PROVE  Holding'
  BY <1>3 DEF FreeSuperseded, ReleaseOf
<1>4. ASSUME NEW t \in Tutor, Take(t)
      PROVE  Holding'
  BY <1>4 DEF Take
<1>5. ASSUME NEW t \in Tutor, Check(t)
      PROVE  Holding'
  BY <1>5 DEF Check, ReleaseOf
<1>6. ASSUME NEW t \in Tutor, EnterPath(t)
      PROVE  Holding'
  BY <1>6 DEF EnterPath
<1>7. ASSUME NEW t \in Tutor, Return(t)
      PROVE  Holding'
  BY <1>7 DEF Return
<1>8. ASSUME NEW t \in Tutor, Finish(t)
      PROVE  Holding'
  BY <1>8 DEF Finish, Freed, DropSwitch
<1>9. ASSUME NEW t \in Tutor, Park(t)
      PROVE  Holding'
  BY <1>9 DEF Park
<1>10. ASSUME NEW t \in Tutor, Unpark(t)
      PROVE  Holding'
  BY <1>10 DEF Unpark
<1>11. ASSUME NEW t \in Tutor, Stop(t)
      PROVE  Holding'
  BY <1>11 DEF Stop
<1>12. ASSUME NEW t \in Tutor, ThreadTakes(t)
      PROVE  Holding'
  BY <1>12 DEF ThreadTakes
<1>13. ASSUME NEW t \in Tutor, Die(t)
      PROVE  Holding'
  BY <1>13 DEF Die, DropSwitch
<1>14. ASSUME NEW t \in Tutor, Recover(t)
      PROVE  Holding'
  BY <1>14 DEF Recover
<1>15. ASSUME NEW t \in Tutor, NEW p \in Path, Begin(t, p)
      PROVE  Holding'
  BY <1>15 DEF Begin
<1>16. ASSUME NEW t \in Tutor, NEW p \in Path, LeavePath(t, p)
      PROVE  Holding'
  BY <1>16 DEF LeavePath, Freed
<1>17. ASSUME NEW a \in Admin, CancelTutor(a)
      PROVE  Holding'
  BY <1>17 DEF CancelTutor
<1>18. ASSUME NEW a \in Admin, FreeTutor(a)
      PROVE  Holding'
  BY <1>18 DEF FreeTutor, ReleaseOf
<1>19. ASSUME NEW a \in Admin, TakeOver(a)
      PROVE  Holding'
  BY <1>19 DEF TakeOver
<1>20. ASSUME NEW a \in Admin, GiveBack(a)
      PROVE  Holding'
  BY <1>20 DEF GiveBack, ReleaseOf
<1>21. ASSUME NEW a \in Admin, DieAsking(a)
      PROVE  Holding'
  BY <1>21 DEF DieAsking
<1>22. ASSUME NEW a \in Admin, NEW p \in Path, Ask(a, p)
      PROVE  Holding'
  BY <1>22 DEF Ask, Sweep
<1>23. CASE UNCHANGED pathVars
  BY <1>23 DEF pathVars
<1> QED
  BY <1>1, <1>2, <1>3, <1>4, <1>5, <1>6, <1>7, <1>8, <1>9, <1>10, <1>11, <1>12, <1>13, <1>14, <1>15, <1>16, <1>17, <1>18, <1>19, <1>20, <1>21, <1>22, <1>23
     DEF PathNext, Proceed, ProceedAdmin

LEMMA PathInitInv == PathInit => PathInv
<1> SUFFICES ASSUME PathInit PROVE PathInv
  OBVIOUS
<1> USE HoldersDiffer DEF PathInit, Holder
<1>1. PathTypeOK
  BY DEF PathTypeOK, TutorStep, AdminStep, RowStatus
<1>2. HeldByTheLiving /\ Holding
  BY DEF HeldByTheLiving, Holding
<1>3. Bound
  BY DEF Bound
<1> QED
  BY <1>1, <1>2, <1>3 DEF PathInv

LEMMA PathNextInv == PathInv /\ [PathNext]_pathVars => PathInv'
BY PathTypeStep, BoundStep, HeldStep, HoldingStep DEF PathInv

(***************************************************************************)
(* Paths are held by turns and requests that are at work on them, and the  *)
(* ones at work hold them, but for the histories strayed and broken.       *)
(***************************************************************************)
THEOREM PathInvariant == PathSpec => []PathInv
BY PathInitInv, PathNextInv, PTL DEF PathSpec

\* The lease table and its callers are always well typed (learning/storage.py).
THEOREM PathTypeCorrect == PathSpec => []PathTypeOK
<1>1. PathInv => PathTypeOK
  BY DEF PathInv
<1> QED
  BY <1>1, PathInvariant, PTL

(***************************************************************************)
(* Whoever works on a path holds its lease, unless it was deprived of it   *)
(* (learning_adapter.py, binding.py, api/routers/mastery_path.py).         *)
(***************************************************************************)
THEOREM WorkersAreHolders == PathSpec => []WorkersHoldPaths
<1>1. PathInv => WorkersHoldPaths
  BY DEF PathInv, Holding, WorkersHoldPaths, Working
<1> QED
  BY <1>1, PathInvariant, PTL

\* What is over holds no path (executor.py, _run_turn's finally; mastery_path.py).
THEOREM PathsAreGivenBack == PathSpec => []PathsGivenBack
<1>1. PathInv => PathsGivenBack
  BY DEF PathInv, HeldByTheLiving, Keeping, PathsGivenBack
<1> QED
  BY <1>1, PathInvariant, PTL

-----------------------------------------------------------------------------
(* The questions of a path                                                 *)

IdNamesKey ==
  \A t \in Quizzer :
    target[t] # NoQuestion => doing[t] = "grading" /\ keyOf[t] = target[t]

AnsweredHasOne ==
  \A q \in Question : status[q] = "answered" => answer[q] # NoAnswer

QuizInv ==
  QuizTypeOK /\ OneQuestionOpen /\ AttemptOnce /\ IdNamesKey /\ AnsweredHasOne

\* What a transaction without an id works on is the pending question.
LEMMA CurrentIsPending ==
  ASSUME QuizInv
  PROVE  /\ \A q \in Current : q = pending /\ q \in Question
         /\ \A q \in Question : status[q] \in Live => q \in Current
         /\ \A q \in Current : status[q] \in Live \cup {"absent"}
BY NoQuestionIsNone DEF QuizInv, OneQuestionOpen, Current, Open, Legacy

\* A turn that leaves a tool keeps the types and the names of the others.
LEMMA BackKeeps ==
  ASSUME QuizInv, NEW t \in Quizzer, Back(t)
  PROVE  /\ doing' \in [Quizzer -> {"teaching", "paused", "committing", "grading"}]
         /\ said' \in [Quizzer -> Answer \cup {NoAnswer}]
         /\ target' \in [Quizzer -> Question \cup {NoQuestion}]
         /\ keyOf' \in [Quizzer -> Question \cup {NoQuestion}]
         /\ \A u \in Quizzer : doing'[u] \in {"committing", "grading"} <=> said'[u] # NoAnswer
         /\ IdNamesKey'
BY DEF QuizInv, QuizTypeOK, Back, IdNamesKey

\* grade_interaction grades only a question that is not over, and the one named.
LEMMA GradableFacts ==
  ASSUME QuizInv, NEW id \in Question \cup {NoQuestion}
  PROVE  /\ \A q \in Gradable(id) : q \in Question /\ status[q] \in Live \cup {"absent"}
         /\ id # NoQuestion => Gradable(id) \subseteq {id}
BY CurrentIsPending, NoQuestionIsNone DEF Gradable, Legacy

LEMMA QuizInitInv == QuizInit => QuizInv
<1> SUFFICES ASSUME QuizInit PROVE QuizInv
  OBVIOUS
<1>1. QuizTypeOK
  BY DEF QuizInit, QuizTypeOK, Answer, Final
<1>2. OneQuestionOpen
  BY DEF QuizInit, OneQuestionOpen, Open, Live
<1>3. AttemptOnce
  <2> SUFFICES ASSUME NEW q \in Question
               PROVE  attempts[q] <= 1 /\ (attempts[q] = 1 => status[q] = "graded")
    BY DEF AttemptOnce
  <2>1. attempts[q] = IF status[q] = "graded" THEN 1 ELSE 0
    BY DEF QuizInit
  <2> QED
    BY <2>1
<1>4. IdNamesKey /\ AnsweredHasOne
  BY DEF QuizInit, IdNamesKey, AnsweredHasOne
<1> QED
  BY <1>1, <1>2, <1>3, <1>4 DEF QuizInv

LEMMA PoseKeeps ==
  ASSUME QuizInv, NEW t \in Quizzer, NEW q \in Question, Pose(t, q)
  PROVE  QuizInv'
<1>1. QuizTypeOK'
  BY DEF QuizInv, QuizTypeOK, Pose, turnVars, Live
<1>2. OneQuestionOpen'
  <2>1. Open = {}
    BY DEF Pose, Current
  <2>2. Open' = {q}
    BY <2>1 DEF Pose, QuizInv, QuizTypeOK, Open, Live
  <2> QED
    BY <2>2 DEF Pose, OneQuestionOpen
<1>3. AttemptOnce' /\ IdNamesKey' /\ AnsweredHasOne'
  BY DEF QuizInv, QuizTypeOK, Pose, turnVars, AttemptOnce, IdNamesKey, AnsweredHasOne, Live
<1> QED
  BY <1>1, <1>2, <1>3 DEF QuizInv

LEMMA AdoptKeeps ==
  ASSUME QuizInv, NEW t \in Quizzer, Adopt(t)
  PROVE  QuizInv'
<1>1. PICK q \in Legacy : status' = [status EXCEPT ![q] = "registered"]
  BY DEF Adopt
<1>2. q \in Question /\ q = pending /\ status[q] = "absent"
  BY DEF Legacy
<1>3. QuizTypeOK'
  BY <1>1, <1>2 DEF QuizInv, QuizTypeOK, Adopt, turnVars, Live
<1>4. OneQuestionOpen'
  <2>1. Open = {}
    BY DEF Adopt
  <2>2. Open' = {q}
    BY <1>1, <1>2, <2>1 DEF QuizInv, QuizTypeOK, Open, Live
  <2> QED
    BY <1>2, <2>2 DEF Adopt, OneQuestionOpen
<1>5. AttemptOnce' /\ IdNamesKey' /\ AnsweredHasOne'
  BY <1>1, <1>2
     DEF QuizInv, QuizTypeOK, Adopt, turnVars, AttemptOnce, IdNamesKey, AnsweredHasOne
<1> QED
  BY <1>3, <1>4, <1>5 DEF QuizInv

LEMMA PauseKeeps ==
  ASSUME QuizInv, NEW t \in Quizzer, Pause(t)
  PROVE  QuizInv'
<1>1. QuizTypeOK'
  BY DEF QuizInv, QuizTypeOK, Pause, Live
<1>2. OneQuestionOpen'
  <2>1. \A q \in Question : status'[q] \in Live => q = pending
    BY CurrentIsPending DEF Pause, Live
  <2> QED
    BY <2>1 DEF Pause, OneQuestionOpen, Open
<1>3. AttemptOnce' /\ IdNamesKey' /\ AnsweredHasOne'
  BY DEF QuizInv, QuizTypeOK, Pause, AttemptOnce, IdNamesKey, AnsweredHasOne
<1> QED
  BY <1>1, <1>2, <1>3 DEF QuizInv

LEMMA ResumeKeeps ==
  ASSUME QuizInv, NEW t \in Quizzer, NEW a \in Answer, NEW fromCard \in BOOLEAN,
         Resume(t, a, fromCard)
  PROVE  QuizInv'
<1>1. UNCHANGED rowVars
  BY DEF Resume
<1>2. OneQuestionOpen' /\ AttemptOnce' /\ AnsweredHasOne'
  BY <1>1 DEF QuizInv, rowVars, OneQuestionOpen, AttemptOnce, AnsweredHasOne, Open
<1>3. CASE Back(t)
  BY <1>1, <1>2, <1>3, BackKeeps DEF QuizInv, QuizTypeOK, rowVars
<1>4. CASE /\ doing' = [doing EXCEPT ![t] = "committing"]
           /\ said' = [said EXCEPT ![t] = a]
           /\ UNCHANGED <<target, keyOf>>
  <2>1. a # NoAnswer
    BY AnswersDiffer DEF Answer
  <2>2. IdNamesKey'
    BY <1>4 DEF Resume, QuizInv, QuizTypeOK, IdNamesKey
  <2> QED
    BY <1>1, <1>2, <1>4, <2>1, <2>2 DEF QuizInv, QuizTypeOK, rowVars
<1> QED
  BY <1>3, <1>4 DEF Resume

LEMMA RecordKeeps ==
  ASSUME QuizInv, NEW t \in Quizzer, Record(t)
  PROVE  QuizInv'
<1> DEFINE asked == {q \in Current : ~Refused /\ Takes(q, said[t])}
<1>1. /\ status' = [q \in Question |-> IF q \in asked THEN "answered" ELSE status[q]]
      /\ answer' = [q \in Question |-> IF q \in asked THEN said[t] ELSE answer[q]]
      /\ Back(t)
      /\ UNCHANGED <<pending, route, attempts>>
  BY DEF Record
<1>2. \A q \in asked : q = pending /\ q \in Question /\ status[q] # "graded"
  BY CurrentIsPending DEF Live
<1> HIDE DEF asked
<1>3. QuizTypeOK' /\ IdNamesKey'
  BY <1>1, BackKeeps DEF QuizInv, QuizTypeOK, Live
<1>4. OneQuestionOpen'
  <2>1. \A q \in Question : status'[q] \in Live => q = pending
    BY <1>1, <1>2, CurrentIsPending
  <2> QED
    BY <1>1, <2>1 DEF OneQuestionOpen, Open
<1>5. AttemptOnce'
  BY <1>1, <1>2 DEF QuizInv, AttemptOnce
<1>6. AnsweredHasOne'
  BY <1>1 DEF Record, QuizInv, QuizTypeOK, AnsweredHasOne
<1> QED
  BY <1>3, <1>4, <1>5, <1>6 DEF QuizInv

LEMMA OpenGradeKeeps ==
  ASSUME QuizInv, NEW t \in Quizzer, NEW id \in Question \cup {NoQuestion},
         NEW a \in Answer, OpenGrade(t, id, a)
  PROVE  QuizInv'
<1>1. UNCHANGED rowVars
  BY DEF OpenGrade
<1>2. OneQuestionOpen' /\ AttemptOnce' /\ AnsweredHasOne'
  BY <1>1 DEF QuizInv, rowVars, OneQuestionOpen, AttemptOnce, AnsweredHasOne, Open
<1> DEFINE Submitted(q) ==
             IF status[q] = "answered" /\ answer[q] # Prose THEN answer[q] ELSE a
<1>3. PICK q \in Looked(id) : /\ said' = [said EXCEPT ![t] = Submitted(q)]
                              /\ keyOf' = [keyOf EXCEPT ![t] = q]
  BY DEF OpenGrade
<1>4. q \in Question /\ (id # NoQuestion => q = id)
  BY DEF Looked, Open, OpenGrade
<1>5. Submitted(q) \in Answer
  BY <1>4 DEF QuizInv, QuizTypeOK, AnsweredHasOne
<1>6. Submitted(q) # NoAnswer
  BY <1>5, AnswersDiffer DEF Answer
<1> HIDE DEF Submitted
<1>7. IdNamesKey'
  BY <1>3, <1>4 DEF QuizInv, QuizTypeOK, OpenGrade, IdNamesKey
<1>8. QuizTypeOK'
  BY <1>1, <1>3, <1>4, <1>5, <1>6 DEF QuizInv, QuizTypeOK, OpenGrade, rowVars
<1> QED
  BY <1>2, <1>7, <1>8 DEF QuizInv

LEMMA GradeKeeps ==
  ASSUME QuizInv, NEW t \in Quizzer, Grade(t)
  PROVE  QuizInv'
<1> DEFINE graded == Gradable(target[t])
<1>1. /\ status' = [q \in Question |-> IF q \in graded THEN "graded" ELSE status[q]]
      /\ answer' = [q \in Question |-> IF q \in graded THEN Stored(q, said[t]) ELSE answer[q]]
      /\ attempts' = [q \in Question |-> attempts[q] + IF q \in graded THEN 1 ELSE 0]
      /\ pending' = IF pending \in graded THEN NoQuestion ELSE pending
      /\ Back(t)
      /\ UNCHANGED route
  BY DEF Grade
<1>2. \A q \in graded : q \in Question /\ status[q] \in Live \cup {"absent"}
  BY GradableFacts DEF QuizInv, QuizTypeOK
<1> HIDE DEF graded
<1>3. \A q \in Question : Stored(q, said[t]) \in Answer \cup {NoAnswer}
  BY DEF QuizInv, QuizTypeOK, Stored
<1>4. QuizTypeOK'
  <2>1. attempts' \in [Question -> Nat]
    BY <1>1 DEF QuizInv, QuizTypeOK
  <2> QED
    BY <1>1, <1>3, <2>1, BackKeeps DEF QuizInv, QuizTypeOK, Final
<1>5. OneQuestionOpen'
  <2>1. \A q \in Question : status'[q] \in Live => q = pending /\ q \notin graded
    BY <1>1, CurrentIsPending DEF Live
  <2> QED
    BY <1>1, <2>1 DEF OneQuestionOpen, Open
<1>6. AttemptOnce'
  <2>1. \A q \in graded : attempts[q] = 0
    <3> SUFFICES ASSUME NEW q \in graded PROVE attempts[q] = 0
      OBVIOUS
    <3>1. q \in Question /\ status[q] # "graded"
      BY <1>2 DEF Live
    <3>2. attempts[q] \in Nat /\ attempts[q] <= 1 /\ attempts[q] # 1
      BY <3>1 DEF QuizInv, QuizTypeOK, AttemptOnce
    <3> QED
      BY <3>2
  <2> QED
    BY <1>1, <2>1 DEF QuizInv, QuizTypeOK, AttemptOnce
<1>7. IdNamesKey' /\ AnsweredHasOne'
  BY <1>1, BackKeeps DEF QuizInv, QuizTypeOK, AnsweredHasOne
<1> QED
  BY <1>4, <1>5, <1>6, <1>7 DEF QuizInv

\* Skip, Reset and Rebuild abandon questions and forget attempts.
LEMMA AbandonKeeps ==
  ASSUME QuizInv, NEW gone, Abandon(gone), UNCHANGED <<answer, turnVars>>,
         pending' \in Question \cup {NoQuestion}, route' \subseteq Objective,
         attempts' \in [Question -> Nat],
         \A q \in Question : attempts'[q] \in {0, attempts[q]},
         \A q \in Question \ gone : q = pending => pending' = pending
  PROVE  QuizInv'
<1>1. QuizTypeOK' /\ IdNamesKey' /\ AnsweredHasOne'
  BY DEF QuizInv, QuizTypeOK, IdNamesKey, AnsweredHasOne, Abandon, turnVars, Live, Final
<1>2. OneQuestionOpen'
  <2>1. \A q \in Question : status'[q] \in Live => q = pending /\ q \notin gone
    BY CurrentIsPending DEF Abandon, Live, QuizInv, QuizTypeOK
  <2> QED
    BY <2>1 DEF OneQuestionOpen, Open
<1>3. AttemptOnce'
  BY DEF QuizInv, QuizTypeOK, AttemptOnce, Abandon, Live
<1> QED
  BY <1>1, <1>2, <1>3 DEF QuizInv

LEMMA QuizNextInv == QuizInv /\ [QuizNext]_quizVars => QuizInv'
<1> SUFFICES ASSUME QuizInv, [QuizNext]_quizVars
             PROVE  QuizInv'
  OBVIOUS
<1>1. CASE Skip
  BY <1>1, AbandonKeeps DEF Skip, QuizInv, QuizTypeOK
<1>2. CASE Reset
  BY <1>2, AbandonKeeps DEF Reset, QuizInv, QuizTypeOK
<1>3. ASSUME NEW objectives \in SUBSET Objective, Rebuild(objectives)
      PROVE  QuizInv'
  <2> DEFINE gone == {q \in Question : About[q] \notin objectives}
  <2>1. attempts' \in [Question -> Nat] /\ \A q \in Question : attempts'[q] \in {0, attempts[q]}
    BY <1>3 DEF Rebuild, QuizInv, QuizTypeOK
  <2>2. pending' \in Question \cup {NoQuestion}
    BY <1>3 DEF Rebuild, QuizInv, QuizTypeOK
  <2>3. \A q \in Question \ gone : q = pending => pending' = pending
    BY <1>3, NoQuestionIsNone DEF Rebuild
  <2> QED
    BY <1>3, <2>1, <2>2, <2>3, AbandonKeeps DEF Rebuild
<1>4. ASSUME NEW objectives \in SUBSET Objective, Extend(objectives)
      PROVE  QuizInv'
  BY <1>4 DEF Extend, QuizInv, QuizTypeOK, OneQuestionOpen, Open, AttemptOnce,
              IdNamesKey, AnsweredHasOne, turnVars
<1>5. CASE UNCHANGED quizVars
  BY <1>5 DEF quizVars, QuizInv, QuizTypeOK, OneQuestionOpen, Open, AttemptOnce,
              IdNamesKey, AnsweredHasOne
<1> QED
  BY <1>1, <1>2, <1>3, <1>4, <1>5, PoseKeeps, AdoptKeeps, PauseKeeps, ResumeKeeps,
     RecordKeeps, OpenGradeKeeps, GradeKeeps DEF QuizNext

(***************************************************************************)
(* The rows and the aggregate of a path are well typed, at most one        *)
(* question is open, and it is the pending one, and no question counts     *)
(* twice: for any turns that teach the path, at any point of their tools.  *)
(***************************************************************************)
THEOREM QuizInvariant == QuizSpec => []QuizInv
BY QuizInitInv, QuizNextInv, PTL DEF QuizSpec

\* The state of the questions is always well typed (learning/storage.py).
THEOREM QuizTypeCorrect == QuizSpec => []QuizTypeOK
<1>1. QuizInv => QuizTypeOK
  BY DEF QuizInv
<1> QED
  BY <1>1, QuizInvariant, PTL

\* The learner is never asked two things (learning/service.py register_question).
THEOREM QuestionIsSingle == QuizSpec => []OneQuestionOpen
<1>1. QuizInv => OneQuestionOpen
  BY DEF QuizInv
<1> QED
  BY <1>1, QuizInvariant, PTL

\* A retried mastery_grade adds no attempt (learning/service.py grade_interaction).
THEOREM AttemptIsSingle == QuizSpec => []AttemptOnce
<1>1. QuizInv => AttemptOnce
  BY DEF QuizInv
<1> QED
  BY <1>1, QuizInvariant, PTL

\* A recorded answer keeps its place (record_question_answer, grade_interaction).
THEOREM RecordedReplyStays == QuizSpec => ReplyKept
<1>1. ASSUME QuizInv, QuizNext, NEW q \in Question,
             status[q] = "answered", answer[q] \in Pick
      PROVE  answer'[q] = answer[q]
  <2>1. answer[q] # Prose
    BY <1>1, AnswersDiffer
  <2>2. ASSUME NEW t \in Quizzer, Record(t)
        PROVE  answer'[q] = answer[q]
    BY <1>1, <2>1, <2>2 DEF Record, Takes
  <2>3. ASSUME NEW t \in Quizzer, Grade(t)
        PROVE  answer'[q] = answer[q]
    BY <1>1, <2>1, <2>3 DEF Grade, Stored
  <2> QED
    BY <1>1, <2>2, <2>3 DEF QuizNext, Pose, Adopt, Pause, Resume, OpenGrade, Skip,
                            Reset, Rebuild, Extend, rowVars
<1>2. QuizInv /\ [QuizNext]_quizVars
      => [\A q \in Question :
            status[q] = "answered" /\ answer[q] \in Pick => answer'[q] = answer[q]]_quizVars
  BY <1>1
<1> QED
  BY <1>2, QuizInvariant, PTL DEF QuizSpec, ReplyKept

(***************************************************************************)
(* A mastery_grade that names its question grades it against its own       *)
(* expected answer, whatever happened to the path since the tool read it.  *)
(***************************************************************************)
THEOREM NamedGradeHasItsKey == QuizSpec => GradedByItsKey
<1>1. ASSUME QuizInv, QuizNext, NEW t \in Quizzer, NEW q \in Question,
             target[t] # NoQuestion, doing'[t] # "grading", attempts'[q] > attempts[q]
      PROVE  keyOf[t] = q
  <2>1. doing[t] = "grading" /\ keyOf[t] = target[t]
    BY <1>1 DEF QuizInv, IdNamesKey
  <2>2. attempts[q] \in Nat
    BY <1>1 DEF QuizInv, QuizTypeOK
  <2>3. ASSUME NEW u \in Quizzer, Grade(u)
        PROVE  keyOf[t] = q
    <3>1. u = t
      BY <1>1, <2>1, <2>3 DEF Grade, Back, QuizInv, QuizTypeOK
    <3>2. q \in Gradable(target[t])
      BY <1>1, <2>2, <2>3, <3>1 DEF Grade
    <3>3. q = target[t]
      BY <1>1, <3>2, GradableFacts DEF QuizInv, QuizTypeOK
    <3> QED
      BY <2>1, <3>3
  <2>4. CASE Skip \/ Reset
    BY <1>1, <2>1, <2>4 DEF Skip, Reset, turnVars
  <2>5. ASSUME NEW objectives \in SUBSET Objective,
               Rebuild(objectives) \/ Extend(objectives)
        PROVE  keyOf[t] = q
    BY <1>1, <2>1, <2>5 DEF Rebuild, Extend, turnVars
  <2>6. CASE attempts' = attempts
    BY <1>1, <2>2, <2>6
  <2> QED
    BY <1>1, <2>3, <2>4, <2>5, <2>6
       DEF QuizNext, Pose, Adopt, Pause, Record, Resume, OpenGrade, rowVars
<1>2. QuizInv /\ [QuizNext]_quizVars
      => [\A t \in Quizzer, q \in Question :
            target[t] # NoQuestion /\ doing'[t] # "grading" /\ attempts'[q] > attempts[q]
              => keyOf[t] = q]_quizVars
  BY <1>1
<1> QED
  BY <1>2, QuizInvariant, PTL DEF QuizSpec, GradedByItsKey
=============================================================================
