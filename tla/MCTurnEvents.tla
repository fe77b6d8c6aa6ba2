----------------------------- MODULE MCTurnEvents -----------------------------
(***************************************************************************)
(* Instances of TurnEvents for TLC: one turn and one client of it.         *)
(***************************************************************************)
EXTENDS TurnEvents

CONSTANTS t1, s1, w1, w2

OneTurn == {t1}
OneSession == {s1}
TheSession == [t \in Turn |-> s1]
OneWorker == {w1}
TwoWorkers == {w1, w2}
=============================================================================
