------------------------------ MODULE TurnStore ------------------------------
(***************************************************************************)
(* The turn rows of the session database (services/session/                *)
(* sqlite_store.py): every operation is one BEGIN IMMEDIATE transaction,   *)
(* so it is one atomic step whichever worker, recovery leader or           *)
(* administrative request runs it.                                         *)
(***************************************************************************)
EXTENDS Turns

VARIABLES
  status,     \* status column of a turn's row, "none" when there is no row
  rowToken,   \* fencing_token column
  open        \* sessions that exist

storeVars == <<status, rowToken, open>>

NonterminalStatus == {"queued", "running", "waiting_input"}
TerminalStatus == {"completed", "failed", "cancelled"}
Status == NonterminalStatus \cup TerminalStatus

StoreTypeOK ==
  /\ status \in [Turn -> Status \cup {"none"}]
  /\ rowToken \in [Turn -> Nat]
  /\ open \subseteq Session

StoreInit ==
  /\ status = [t \in Turn |-> "none"]
  /\ rowToken = [t \in Turn |-> 0]
  /\ open = Session

HasRow(t) == status[t] # "none"
Nonterminal(t) == status[t] \in NonterminalStatus
Terminal(t) == status[t] \in TerminalStatus

\* Mutation: the check for another unfinished turn is missing.
CanBeginBusy(t) ==
  /\ ~HasRow(t)
  /\ SessionOf[t] \in open

(***************************************************************************)
(* begin_turn: the session must exist and have no unfinished turn; the     *)
(* partial unique index on unfinished turns enforces the same.             *)
(***************************************************************************)
CanBegin(t) ==
  /\ ~HasRow(t)
  /\ SessionOf[t] \in open
  /\ \A u \in Turn : SessionOf[u] = SessionOf[t] => ~Nonterminal(u)

Begin(t, token) ==
  /\ CanBegin(t)
  /\ status' = [status EXCEPT ![t] = "running"]
  /\ rowToken' = [rowToken EXCEPT ![t] = token]
  /\ UNCHANGED open

\* Mutation: a terminal row accepts any status.
AdmitsTerminal(t, to, expected, token) ==
  /\ HasRow(t)
  /\ expected \in {"any", status[t]}
  /\ token \in {0, rowToken[t]}

(***************************************************************************)
(* transition_turn: the compare-and-set on a row.  expected = "any" and    *)
(* token = 0 stand for the two arguments left at None.  A terminal row     *)
(* only accepts its own status again.                                      *)
(***************************************************************************)
Admits(t, to, expected, token) ==
  /\ HasRow(t)
  /\ expected \in {"any", status[t]}
  /\ token \in {0, rowToken[t]}
  /\ Terminal(t) => to = status[t]

Transition(t, to, expected, token) ==
  /\ status' = IF Admits(t, to, expected, token)
                 THEN [status EXCEPT ![t] = to]
                 ELSE status
  /\ UNCHANGED <<rowToken, open>>

\* delete_session: the rows of its turns go with it (ON DELETE CASCADE).
DeleteSession(s) ==
  /\ s \in open
  /\ open' = open \ {s}
  /\ status' = [t \in Turn |-> IF SessionOf[t] = s THEN "none" ELSE status[t]]
  /\ rowToken' = [t \in Turn |-> IF SessionOf[t] = s THEN 0 ELSE rowToken[t]]

(***************************************************************************)
(* The store under arbitrary callers.                                      *)
(***************************************************************************)
StoreNext ==
  \/ \E t \in Turn, token \in Nat : Begin(t, token)
  \/ \E t \in Turn, to \in Status, expected \in Status \cup {"any"}, token \in Nat :
       Transition(t, to, expected, token)
  \/ \E s \in Session : DeleteSession(s)

StoreSpec == StoreInit /\ [][StoreNext]_storeVars

-----------------------------------------------------------------------------
(***************************************************************************)
(* A session never has two unfinished turns (begin_turn's check and the    *)
(* partial unique index), whichever workers race to start one and whatever *)
(* late writers do to older rows.                                          *)
(***************************************************************************)
OneActiveTurn ==
  \A t, u \in Turn :
    /\ SessionOf[t] = SessionOf[u]
    /\ Nonterminal(t)
    /\ Nonterminal(u)
    => t = u

(***************************************************************************)
(* The outcome of a turn is decided once: until its session is deleted, a  *)
(* terminal row keeps its status, whoever writes after (a zombie owner,    *)
(* recovery, a cancel racing completion).                                  *)
(***************************************************************************)
OutcomeIsFinal ==
  [][\A t \in Turn : Terminal(t) => status'[t] \in {status[t], "none"}]_storeVars
=============================================================================
