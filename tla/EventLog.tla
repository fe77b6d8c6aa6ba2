------------------------------- MODULE EventLog -------------------------------
(***************************************************************************)
(* What the event stream of a turn promises a client: the events form one  *)
(* log that only grows, and the client is shown a prefix of it that only   *)
(* grows, whichever process serves it, however often it connects again,    *)
(* and whoever writes the log.                                             *)
(***************************************************************************)
EXTENDS Sequences, Naturals

CONSTANT Turn

VARIABLES
  log,      \* the events of each turn
  shown     \* what its client was shown

LogInit ==
  /\ log = [t \in Turn |-> <<>>]
  /\ shown = [t \in Turn |-> <<>>]

Publish(t) ==
  /\ Len(log'[t]) = Len(log[t]) + 1
  /\ log' = [log EXCEPT ![t] = Append(@, log'[t][Len(@) + 1])]
  /\ UNCHANGED shown

Show(t) ==
  /\ \E n \in Len(shown[t]) .. Len(log[t]) :
       shown' = [shown EXCEPT ![t] = SubSeq(log[t], 1, n)]
  /\ UNCHANGED log

LogNext == \E t \in Turn : Publish(t) \/ Show(t)

LogSpec == LogInit /\ [][LogNext]_<<log, shown>>
=============================================================================
