---------------------------- MODULE MCTurnRuntime ----------------------------
(***************************************************************************)
(* Instances of TurnRuntime for TLC: turns of one session, which is where  *)
(* turns compete, on one or two workers.                                   *)
(***************************************************************************)
EXTENDS TurnRuntime, TLC

CONSTANTS t1, t2, s1, w1, w2

OneTurn == {t1}
TwoTurns == {t1, t2}
OneSession == {s1}
AllInOne == [t \in Turn |-> s1]
OneWorker == {w1}
TwoWorkers == {w1, w2}

Symmetry == Permutations(Turn) \cup Permutations(Worker)
=============================================================================
