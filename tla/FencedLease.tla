------------------------------ MODULE FencedLease ------------------------------
(***************************************************************************)
(* What a turn coordinator promises its callers (runtime/coordination/     *)
(* protocol.py and types.py): a session is held by at most one turn, it    *)
(* passes from one turn to the next only after a moment in which nobody    *)
(* holds it, and a turn that gave its session up never holds it again.     *)
(***************************************************************************)
CONSTANTS Turn, Session, SessionOf

VARIABLES
  holders,   \* the turns that hold each session
  past       \* the turns that hold or held their session

vars == <<holders, past>>

Init ==
  /\ holders = [s \in Session |-> {}]
  /\ past = {}

Grant(t) ==
  /\ t \notin past
  /\ holders[SessionOf[t]] = {}
  /\ holders' = [holders EXCEPT ![SessionOf[t]] = {t}]
  /\ past' = past \cup {t}

GiveUp(s) ==
  /\ holders[s] # {}
  /\ holders' = [holders EXCEPT ![s] = {}]
  /\ UNCHANGED past

\* Every lease is gone at once: the coordinator itself restarted.
GiveUpAll ==
  /\ holders' = [s \in Session |-> {}]
  /\ UNCHANGED past

Next ==
  \/ \E t \in Turn : Grant(t)
  \/ \E s \in Session : GiveUp(s)
  \/ GiveUpAll

Spec == Init /\ [][Next]_vars
=============================================================================
