------------------------------ MODULE MCServices ------------------------------
(***************************************************************************)
(* Instances of the components that share no state with each other, for    *)
(* one run of TLC: the leader of the background services, the in-process   *)
(* coordinator, the commands of a turn, the leases of the mastery paths,   *)
(* the questions of one of them, the compilation of a book, an update of   *)
(* the application, and the log streams of tasks.  The variable part,      *)
(* which no step changes, says which of them acts; the others stay as they *)
(* are at first.  The states of the run are those of the components, side  *)
(* by side.                                                                *)
(***************************************************************************)
EXTENDS TurnCoordinator, BackgroundLeader, TurnCommands, PathLeases,
        MasteryInteractions, BookCompilation, ManagedUpdates, TaskLogs

VARIABLE part

CONSTANTS w1, w2, partner, broke, t1, t2, t3, t4, s1, s2, p1, p2, a1,
          q1, q2, o1, o2, A, B, r1, r2, x1, x2, b1, b2, c1, c2,
          j1, j2, f1

TwoWorkers == {w1, w2}
Kinds == {partner, broke}
Broke == {broke}
FourTurns == {t1, t2, t3, t4}
TwoSessions == {s1, s2}
LastApart == [t \in FourTurns |-> IF t = t4 THEN s2 ELSE s1]
TwoPaths == {p1, p2}
TwoTutors == {t1, t2}
OneAdmin == {a1}
SomeDie == {t1, a1}
TwoQuestions == {q1, q2}
TwoObjectives == {o1, o2}
OneEach == [q \in TwoQuestions |-> IF q = q1 THEN o1 ELSE o2]
TwoAnswers == {A, B}
TwoRuntimes == {r1, r2}
TwoTabs == {x1, x2}
TwoBackends == {b1, b2}
TwoChats == {c1, c2}
TwoJobs == {j1, j2}
OneLost == {j2}
OneFollower == {f1}

suiteVars == <<part, leaderVars, coordVars, commandVars, pathVars,
               quizVars, bookVars, updateVars, logVars>>

SuiteInit ==
  /\ part \in {"leader", "memory", "commands", "paths", "quiz", "book", "updates",
              "logs"}
  /\ LeaderInit /\ CoordInit /\ CommandInit /\ PathInit /\ BookInit
  /\ UpdateInit /\ LogInit
  /\ QuizInit /\ (part # "quiz" => pending = NoQuestion)

SuiteNext ==
  \/ /\ part = "leader" /\ LeaderNext
     /\ UNCHANGED <<part, coordVars, commandVars, pathVars, quizVars, bookVars, updateVars, logVars>>
  \/ /\ part = "memory" /\ CoordNext
     /\ UNCHANGED <<part, leaderVars, commandVars, pathVars, quizVars, bookVars, updateVars, logVars>>
  \/ /\ part = "commands" /\ CommandNext
     /\ UNCHANGED <<part, leaderVars, coordVars, pathVars, quizVars, bookVars, updateVars, logVars>>
  \/ /\ part = "paths" /\ PathNext
     /\ UNCHANGED <<part, leaderVars, coordVars, commandVars, quizVars, bookVars, updateVars, logVars>>
  \/ /\ part = "quiz" /\ QuizNext
     /\ UNCHANGED <<part, leaderVars, coordVars, commandVars, pathVars, bookVars, updateVars, logVars>>
  \/ /\ part = "book" /\ BookNext
     /\ UNCHANGED <<part, leaderVars, coordVars, commandVars, pathVars, quizVars, updateVars, logVars>>
  \/ /\ part = "updates" /\ UpdateNext
     /\ UNCHANGED <<part, leaderVars, coordVars, commandVars, pathVars, quizVars, bookVars, logVars>>
  \/ /\ part = "logs" /\ LogNext
     /\ UNCHANGED <<part, leaderVars, coordVars, commandVars, pathVars, quizVars, bookVars,
                    updateVars>>

(***************************************************************************)
(* The fairness of each component, asked of the one that acts.             *)
(***************************************************************************)
SuiteFairness ==
  /\ \A w \in Worker : /\ WF_leaderVars(part = "leader" /\ Start(w))
                       /\ WF_leaderVars(part = "leader" /\ Supervise(w))
                       /\ WF_leaderVars(part = "leader" /\ Notice(w))
  /\ WF_leaderVars(part = "leader" /\ ExpireAbandoned)
  /\ \A x \in Tab : WF_commandVars(part = "commands" /\ Carry(x))
  /\ \A s \in Slot : /\ WF_bookVars(part = "book" /\ Compile(s))
                     /\ WF_bookVars(part = "book" /\ WakeForced(s))
  /\ \A r \in BookRuntime : /\ WF_bookVars(part = "book" /\ Work(r))
                            /\ WF_bookVars(part = "book" /\ Retire(r))
                            /\ WF_bookVars(part = "book" /\ TripEnds(r))
  /\ WF_bookVars(part = "book" /\ OpenBook)
  /\ WF_bookVars(part = "book" /\ PauseEnds)
  /\ WF_bookVars(part = "book" /\ Regenerated)
  /\ WF_updateVars(part = "updates" /\ Progress)
  /\ \A e \in Emitter : WF_logVars(part = "logs" /\ PassOn(e))
  /\ \A j \in Job : WF_logVars(part = "logs" /\ EndCapture(j))
  /\ \A f \in Follower : WF_logVars(part = "logs" /\ Streaming(f))

SuiteSpec == SuiteInit /\ [][SuiteNext]_suiteVars /\ SuiteFairness

(***************************************************************************)
(* The type invariants of the components.                                  *)
(***************************************************************************)
SuiteTypeOK ==
  /\ LeaderTypeOK /\ CoordTypeOK /\ CommandTypeOK
  /\ PathTypeOK /\ QuizTypeOK /\ BookTypeOK
  /\ UpdateTypeOK /\ LogTypeOK

(***************************************************************************)
(* Some process ends up running all the services for good                  *)
(* (BackgroundLeader!ServicesSettle), where the leader acts.               *)
(***************************************************************************)
LeaderSettles == part = "leader" => ServicesSettle

(***************************************************************************)
(* A book that is being compiled becomes ready or is paused                *)
(* (BookCompilation!BookSettles), where the book acts.                     *)
(***************************************************************************)
CompilationSettles == part = "book" => BookSettles
=============================================================================
