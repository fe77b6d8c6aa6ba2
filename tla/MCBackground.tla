----------------------------- MODULE MCBackground -----------------------------
(***************************************************************************)
(* Instances of BackgroundServices for TLC: two worker processes, the      *)
(* partners and the scheduler as their services.                           *)
(***************************************************************************)
EXTENDS BackgroundServices

CONSTANTS w1, w2, every, hourly, at, reload, partner, broken

TwoWorkers == {w1, w2}
Repeating == {every}
OneOfEach == {every, at}
TwoRepeating == {every, hourly}
TheOneShot == {at}
None == {}
Kinds == {reload, partner, broken}
Reloads == {reload}
Broken == {broken}

(***************************************************************************)
(* One mishap: a process closes or crashes, or it is too slow for its      *)
(* lease, which then leaves one operation on jobs.  No step that Fairness  *)
(* asks for counts.                                                        *)
(***************************************************************************)
OneMishap == stalls + exits <= 1 /\ stalls + ops <= MaxOps

MishapSpec == Init /\ [][Next /\ OneMishap']_vars /\ Fairness
=============================================================================
