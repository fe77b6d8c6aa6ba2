----------------------------- MODULE TurnRuntime -----------------------------
(***************************************************************************)
(* The life of a turn across worker processes: start_turn                  *)
(* (turns/request_preparer.py), the turn task _run_turn                    *)
(* (turns/executor.py), its coordination task (turns/lifecycle.py) and the *)
(* leader's recovery of lost turns (runtime/coordination/recovery.py),     *)
(* over the leases of TurnCoordinator and the rows of TurnStore.           *)
(*                                                                         *)
(* A step lies between two awaits of the code.  A cancellation is thrown   *)
(* into the task at an await; a database transaction that runs in its      *)
(* thread at that moment still commits, so an interrupted step may have    *)
(* had its effect or not.                                                  *)
(***************************************************************************)
EXTENDS TurnCoordinator, TurnStore

CONSTANTS
  Worker,       \* worker processes
  MayStall,     \* an owner may stop renewing for longer than the TTL
  MayPause,     \* the engine may ask the user
  MayCancel,    \* users and administrators cancel turns
  MaxShutdowns, \* bound on graceful shutdowns
  MaxCrashes,   \* bound on worker crashes
  MaxFaults     \* bound on failing coordinator calls (Redis only)

ASSUME RuntimeConstants ==
  /\ {MayStall, MayPause, MayCancel} \subseteq BOOLEAN
  /\ {MaxShutdowns, MaxCrashes, MaxFaults} \subseteq Nat
  /\ Worker # {}
\* settings.validate: several workers need the Redis backend.
ASSUME MemoryIsOneProcess == Redis \/ \A v, w \in Worker : v = w

VARIABLES
  pc,         \* where the start, then the task, of a turn stands
  worker,     \* the process that executes the turn, chosen in advance
  stop,       \* a cancellation of the task that is not delivered yet
  lost,       \* execution.lease_lost
  coord,      \* the coordination task is running
  outcome,    \* terminal status the task is about to write
  cmd,        \* a cancel command is in the turn's command stream
  rec,        \* the recovery loop of each process
  shutdowns, crashes, faults    \* how often each of these happened

taskVars == <<pc, worker, stop, lost, coord, outcome>>
budgetVars == <<shutdowns, crashes, faults>>
vars == <<coordVars, storeVars, taskVars, cmd, rec, budgetVars>>

(***************************************************************************)
(* Phases.  "acquired" and "launch" belong to start_turn; the others to    *)
(* the task, and those of Unwinding to its except and finally blocks.      *)
(***************************************************************************)
Running == {"run", "wait", "restore", "unwind", "settle", "announce", "post"}
Unwinding == {"cancelPublish", "cancelSettle", "cancelAnnounce",
              "failPublish", "failSettle", "cleanup"}
TaskPhase == Running \cup Unwinding
Phase == {"idle", "acquired", "launch", "ended"} \cup TaskPhase

RecIdle == [pc |-> "scan", todo |-> {}, turn |-> NoTurn, seen |-> "none", token |-> 0]
Recovery == [pc : {"scan", "publish", "append", "settle", "ack"},
             todo : SUBSET Turn,
             turn : Turn \cup {NoTurn},
             seen : NonterminalStatus \cup {"none"},
             token : Nat]

TaskTypeOK ==
  /\ pc \in [Turn -> Phase]
  /\ worker \in [Turn -> Worker]
  /\ stop \in [Turn -> {"none", "cancel", "shutdown"}]
  /\ lost \in [Turn -> BOOLEAN]
  /\ coord \in [Turn -> BOOLEAN]
  /\ outcome \in [Turn -> TerminalStatus]
  /\ cmd \in [Turn -> BOOLEAN]

RecTypeOK ==
  /\ rec \in [Worker -> Recovery]
  /\ \A w \in Worker : /\ rec[w].pc = "scan" <=> rec[w].turn = NoTurn
                       /\ rec[w].pc \in {"publish", "append", "settle"}
                            => rec[w].seen # "none"

BudgetTypeOK == shutdowns \in Nat /\ crashes \in Nat /\ faults \in Nat

TypeOK == CoordTypeOK /\ StoreTypeOK /\ TaskTypeOK /\ RecTypeOK /\ BudgetTypeOK

Init ==
  /\ CoordInit
  /\ StoreInit
  /\ pc = [t \in Turn |-> "idle"]
  /\ worker \in [Turn -> Worker]
  /\ stop = [t \in Turn |-> "none"]
  /\ lost = [t \in Turn |-> FALSE]
  /\ coord = [t \in Turn |-> FALSE]
  /\ outcome = [t \in Turn |-> "completed"]
  /\ cmd = [t \in Turn |-> FALSE]
  /\ rec = [w \in Worker |-> RecIdle]
  /\ shutdowns = 0 /\ crashes = 0 /\ faults = 0

At(t, p) == pc[t] = p
Goto(t, p) == pc' = [pc EXCEPT ![t] = p]

\* One coordinator call raises CoordinationUnavailableError.
Fault ==
  /\ Redis
  /\ faults < MaxFaults
  /\ faults' = faults + 1
NoFault == UNCHANGED faults

\* contextlib.suppress(Exception): release_turn
TryRelease(t) ==
  \/ Release(t) /\ NoFault
  \/ UNCHANGED coordVars /\ Fault

-----------------------------------------------------------------------------
(* start_turn *)

StartTurn(t) ==
  /\ At(t, "idle")
  /\ SessionOf[t] \in open
  /\ Acquire(t)
  /\ Goto(t, "acquired")
  /\ UNCHANGED <<storeVars, worker, stop, lost, coord, outcome, cmd, rec, budgetVars>>

\* Building the preferences raises: the lease is left to its TTL.
AbandonStart(t) ==
  /\ At(t, "acquired")
  /\ Goto(t, "ended")
  /\ UNCHANGED <<coordVars, storeVars, worker, stop, lost, coord, outcome, cmd, rec,
                 budgetVars>>

BeginTurn(t) ==
  /\ At(t, "acquired")
  /\ IF CanBegin(t)
       THEN /\ Begin(t, claim[t])
            /\ Goto(t, "launch")
            /\ NoFault
            /\ UNCHANGED coordVars
       ELSE /\ TryRelease(t)
            /\ Goto(t, "ended")
            /\ UNCHANGED storeVars
  /\ UNCHANGED <<worker, stop, lost, coord, outcome, cmd, rec, shutdowns, crashes>>

\* A managed update or a lost mastery lease refuses the turn after begin_turn;
\* the coordinator lease is left to its TTL.
RejectLaunch(t) ==
  /\ At(t, "launch")
  /\ Transition(t, "failed", "any", 0)
  /\ Goto(t, "ended")
  /\ UNCHANGED <<coordVars, worker, stop, lost, coord, outcome, cmd, rec, budgetVars>>

\* The SESSION event is published and both tasks are created.
Launch(t) ==
  /\ At(t, "launch")
  /\ Goto(t, "run")
  /\ coord' = [coord EXCEPT ![t] = TRUE]
  /\ UNCHANGED <<coordVars, storeVars, worker, stop, lost, outcome, cmd, rec, budgetVars>>

\* Publishing the SESSION event raises.
LaunchFails(t) ==
  /\ At(t, "launch")
  /\ Fault
  /\ Transition(t, "failed", "any", 0)
  /\ Release(t) \/ UNCHANGED coordVars
  /\ Goto(t, "ended")
  /\ UNCHANGED <<worker, stop, lost, coord, outcome, cmd, rec, shutdowns, crashes>>

-----------------------------------------------------------------------------
(* _run_turn: the body of the try block *)

\* The task continues after its await only if no cancellation is waiting there.
Continues(t, p) == At(t, p) /\ stop[t] = "none"

\* _wait_for_user_reply: a refused transition counts as a lost lease.
Pause(t) ==
  /\ MayPause
  /\ Continues(t, "run")
  /\ Transition(t, "waiting_input", "running", claim[t])
  /\ IF Admits(t, "waiting_input", "running", claim[t])
       THEN Goto(t, "wait") /\ UNCHANGED lost
       ELSE Goto(t, "cleanup") /\ lost' = [lost EXCEPT ![t] = TRUE]
  /\ UNCHANGED <<coordVars, worker, stop, coord, outcome, cmd, rec, budgetVars>>

\* A submit_user_reply command reaches the reply queue.
Reply(t) ==
  /\ Continues(t, "wait")
  /\ coord[t]
  /\ Goto(t, "restore")
  /\ UNCHANGED <<coordVars, storeVars, worker, stop, lost, coord, outcome, cmd, rec,
                 budgetVars>>

\* A cancellation leaves reply_queue.get() through its finally block.
InterruptWait(t) ==
  /\ At(t, "wait")
  /\ stop[t] # "none"
  /\ Goto(t, "restore")
  /\ UNCHANGED <<coordVars, storeVars, worker, stop, lost, coord, outcome, cmd, rec,
                 budgetVars>>

\* The shielded transition back to running, lease lost or not.
Restore(t) ==
  /\ At(t, "restore")
  /\ Transition(t, "running", "waiting_input", claim[t])
  /\ Goto(t, IF stop[t] = "none" THEN "run" ELSE "unwind")
  /\ UNCHANGED <<coordVars, worker, stop, lost, coord, outcome, cmd, rec, budgetVars>>

\* The engine is done: the answer is stored, the events are flushed and the
\* outcome is resolved from them.
Finish(t) ==
  /\ Continues(t, "run")
  /\ SessionOf[t] \in open
  /\ \E o \in TerminalStatus : outcome' = [outcome EXCEPT ![t] = o]
  /\ Goto(t, "settle")
  /\ UNCHANGED <<coordVars, storeVars, worker, stop, lost, coord, cmd, rec, budgetVars>>

\* Mutation: the result of the compare-and-set is ignored.
SettleUnchecked(t) ==
  /\ Continues(t, "settle")
  /\ Transition(t, outcome[t], "running", claim[t])
  /\ Goto(t, "announce")
  /\ UNCHANGED <<coordVars, worker, stop, lost, coord, outcome, cmd, rec, budgetVars>>

Settle(t) ==
  /\ Continues(t, "settle")
  /\ Transition(t, outcome[t], "running", claim[t])
  /\ IF Admits(t, outcome[t], "running", claim[t])
       THEN Goto(t, "announce") /\ UNCHANGED lost
       ELSE Goto(t, "cleanup") /\ lost' = [lost EXCEPT ![t] = TRUE]
  /\ UNCHANGED <<coordVars, worker, stop, coord, outcome, cmd, rec, budgetVars>>

\* DONE is published and flushed; then only the title is left.
Announce(t) ==
  /\ Continues(t, "announce")
  /\ Goto(t, "post")
  /\ UNCHANGED <<coordVars, storeVars, worker, stop, lost, coord, outcome, cmd, rec,
                 budgetVars>>

\* An exception of the title step is only logged.
AfterDone(t) ==
  /\ Continues(t, "post")
  /\ NoFault \/ Fault
  /\ Goto(t, "cleanup")
  /\ UNCHANGED <<coordVars, storeVars, worker, stop, lost, coord, outcome, cmd, rec,
                 shutdowns, crashes>>

-----------------------------------------------------------------------------
(* _run_turn: except asyncio.CancelledError *)

\* The database call of the interrupted await that may still commit.
InFlight(t) ==
  \/ /\ At(t, "run") /\ MayPause
     /\ Transition(t, "waiting_input", "running", claim[t])
  \/ /\ pc[t] \in {"settle", "cancelSettle", "failSettle"}
     /\ Transition(t, outcome[t], "running", claim[t])

\* An exception inside an except block, and any once the lease is lost, leads
\* to the finally block; after DONE no ERROR event is published.
UnwindTo(t) ==
  IF lost[t] \/ pc[t] \in Unwinding THEN "cleanup"
  ELSE IF pc[t] = "post" THEN "cancelSettle"
  ELSE "cancelPublish"

\* terminal_status of the cancellation handler
StopOutcome(t) == IF stop[t] = "shutdown" THEN "failed" ELSE "cancelled"

Interrupt(t) ==
  /\ stop[t] # "none"
  /\ pc[t] \in TaskPhase \ {"wait", "restore", "cleanup"}
  /\ UNCHANGED storeVars \/ InFlight(t)
  /\ Goto(t, UnwindTo(t))
  /\ outcome' = [outcome EXCEPT ![t] =
                   IF UnwindTo(t) = "cleanup" THEN @ ELSE StopOutcome(t)]
  /\ stop' = [stop EXCEPT ![t] = "none"]
  /\ UNCHANGED <<coordVars, worker, lost, coord, cmd, rec, budgetVars>>

\* The ERROR event, a flush and the partial answer; if publishing raises, the
\* rest of the handler is skipped.
CancelPublish(t) ==
  /\ Continues(t, "cancelPublish")
  /\ \/ NoFault /\ Goto(t, "cancelSettle")
     \/ Fault /\ Goto(t, "cleanup")
  /\ UNCHANGED <<coordVars, storeVars, worker, stop, lost, coord, outcome, cmd, rec,
                 shutdowns, crashes>>

CancelSettle(t) ==
  /\ Continues(t, "cancelSettle")
  /\ Transition(t, outcome[t], "running", claim[t])
  /\ Goto(t, IF Admits(t, outcome[t], "running", claim[t])
               THEN "cancelAnnounce" ELSE "cleanup")
  /\ UNCHANGED <<coordVars, worker, stop, lost, coord, outcome, cmd, rec, budgetVars>>

\* DONE is published, or publishing it raises.
CancelAnnounce(t) ==
  /\ Continues(t, "cancelAnnounce")
  /\ NoFault \/ Fault
  /\ Goto(t, "cleanup")
  /\ UNCHANGED <<coordVars, storeVars, worker, stop, lost, coord, outcome, cmd, rec,
                 shutdowns, crashes>>

-----------------------------------------------------------------------------
(* _run_turn: except Exception *)

\* The engine or a publication raises, or that of DONE with a terminal row.
Fail(t) ==
  /\ \/ Continues(t, "run") /\ (NoFault \/ Fault)
     \/ Continues(t, "announce") /\ Fault
  /\ Goto(t, "failPublish")
  /\ outcome' = [outcome EXCEPT ![t] = "failed"]
  /\ UNCHANGED <<coordVars, storeVars, worker, stop, lost, coord, cmd, rec,
                 shutdowns, crashes>>

\* ERROR and DONE are published before the row is written.
FailPublish(t) ==
  /\ Continues(t, "failPublish")
  /\ \/ NoFault /\ Goto(t, "failSettle")
     \/ Fault /\ Goto(t, "cleanup")
  /\ UNCHANGED <<coordVars, storeVars, worker, stop, lost, coord, outcome, cmd, rec,
                 shutdowns, crashes>>

FailSettle(t) ==
  /\ Continues(t, "failSettle")
  /\ Transition(t, "failed", "running", claim[t])
  /\ Goto(t, "cleanup")
  /\ UNCHANGED <<coordVars, worker, stop, lost, coord, outcome, cmd, rec, budgetVars>>

-----------------------------------------------------------------------------
(* _run_turn: finally *)

\* The tasks of these turns are gone, and what their executions remembered.
Exit(T) ==
  /\ pc' = [t \in Turn |-> IF t \in T THEN "ended" ELSE pc[t]]
  /\ stop' = [t \in Turn |-> IF t \in T THEN "none" ELSE stop[t]]
  /\ lost' = [t \in Turn |-> IF t \in T THEN FALSE ELSE lost[t]]
  /\ coord' = [t \in Turn |-> IF t \in T THEN FALSE ELSE coord[t]]
  /\ outcome' = [t \in Turn |-> IF t \in T THEN "completed" ELSE outcome[t]]
  /\ UNCHANGED worker

\* The coordination task is stopped and the lease released.
Cleanup(t) ==
  /\ Continues(t, "cleanup")
  /\ TryRelease(t)
  /\ Exit({t})
  /\ UNCHANGED <<storeVars, cmd, rec, shutdowns, crashes>>

\* A cancellation inside the finally block: the lease may not be released.
InterruptCleanup(t) ==
  /\ At(t, "cleanup")
  /\ stop[t] # "none"
  /\ Release(t) \/ UNCHANGED coordVars
  /\ Exit({t})
  /\ UNCHANGED <<storeVars, cmd, rec, budgetVars>>

-----------------------------------------------------------------------------
(* _coordinate_execution *)

\* Mutation: the command is consumed but the task is not told.
CancelTaskUntold(t) ==
  /\ coord' = [coord EXCEPT ![t] = FALSE]
  /\ UNCHANGED stop

\* execution.task.cancel() on behalf of the coordination task, which ends.
CancelTask(t) ==
  /\ stop' = [stop EXCEPT ![t] = IF @ = "none" THEN "cancel" ELSE @]
  /\ coord' = [coord EXCEPT ![t] = FALSE]

ObserveCancel(t) ==
  /\ coord[t]
  /\ cmd[t]
  /\ CancelTask(t)
  /\ UNCHANGED <<coordVars, storeVars, pc, worker, lost, outcome, cmd, rec, budgetVars>>

Heartbeat(t) ==
  /\ coord[t]
  /\ IF CanRenew(t)
       THEN Renew(t) /\ UNCHANGED <<stop, lost, coord>>
       ELSE /\ UNCHANGED coordVars
            /\ lost' = [lost EXCEPT ![t] = TRUE]
            /\ CancelTask(t)
  /\ UNCHANGED <<storeVars, pc, worker, outcome, cmd, rec, budgetVars>>

\* Reading commands or renewing raises.
CoordinationFails(t) ==
  /\ coord[t]
  /\ Fault
  /\ lost' = [lost EXCEPT ![t] = TRUE]
  /\ CancelTask(t)
  /\ UNCHANGED <<coordVars, storeVars, pc, worker, outcome, cmd, rec, shutdowns, crashes>>

-----------------------------------------------------------------------------
(* Requests from outside *)

\* TurnApplicationService.cancel_turn
RequestCancel(t) ==
  /\ MayCancel
  /\ Nonterminal(t)
  /\ Active(t)
  /\ cmd' = [cmd EXCEPT ![t] = TRUE]
  /\ UNCHANGED <<coordVars, storeVars, taskVars, rec, budgetVars>>

\* cancel_turn in the process of the task: a turn of another session takes over
\* the mastery path of this one, which is parked in ask_user.
LocalCancel(t) ==
  /\ MayCancel
  /\ pc[t] \in {"wait", "restore"}
  /\ stop' = [stop EXCEPT ![t] = IF @ = "none" THEN "cancel" ELSE @]
  /\ UNCHANGED <<coordVars, storeVars, pc, worker, lost, coord, outcome, cmd, rec,
                 budgetVars>>

\* cancel_turn of the runtime that has no coordinator, which the mastery and
\* session routers use: it writes the row of a turn that another runtime runs.
\* The row it read as running may be paused by the time it writes.
AdminCancel(t) ==
  /\ MayCancel
  /\ Nonterminal(t)
  /\ Transition(t, "cancelled", "any", 0)
  /\ UNCHANGED <<coordVars, taskVars, cmd, rec, budgetVars>>

RemoveSession(s) ==
  /\ MayCancel
  /\ DeleteSession(s)
  /\ UNCHANGED <<coordVars, taskVars, cmd, rec, budgetVars>>

\* TurnLifecycle.close after its drain timeout.  A start_turn that comes later
\* makes the process accept turns again (_turns_blocked_for_update_locked).
Shutdown(w) ==
  /\ shutdowns < MaxShutdowns
  /\ shutdowns' = shutdowns + 1
  /\ stop' = [t \in Turn |-> IF worker[t] = w /\ pc[t] \in TaskPhase
                               THEN "shutdown" ELSE stop[t]]
  /\ UNCHANGED <<coordVars, storeVars, pc, worker, lost, coord, outcome, cmd, rec,
                 crashes, faults>>

\* The process dies with its tasks; in memory the coordinator dies with it.
Crash(w) ==
  /\ crashes < MaxCrashes
  /\ crashes' = crashes + 1
  /\ Exit({t \in Turn : worker[t] = w /\ pc[t] # "idle"})
  /\ rec' = [rec EXCEPT ![w] = RecIdle]
  /\ IF Redis THEN UNCHANGED coordVars ELSE Forget
  /\ UNCHANGED <<storeVars, cmd, shutdowns, faults>>

\* The task is gone and nobody renews the lease; or its owner is alive but the
\* TTL passes between two renewals, or before the first, or after the last one.
LeaseExpires(t) ==
  /\ At(t, "ended") \/ MayStall
  /\ Expire(t)
  /\ UNCHANGED <<storeVars, taskVars, cmd, rec, budgetVars>>

-----------------------------------------------------------------------------
(* TurnRecoveryService.recover_once, in the process that leads.  Leadership *)
(* is not exclusive when a leader stalls, so every process may run it.      *)

RecGoto(w, p) == rec' = [rec EXCEPT ![w].pc = p]

\* On to the next listed turn, whatever became of this one.
RecNext(w) == rec' = [rec EXCEPT ![w] = [RecIdle EXCEPT !.todo = rec[w].todo]]

\* A pass starts with a snapshot of the expired turns.
RecList(w) ==
  /\ rec[w].pc = "scan"
  /\ rec[w].todo = {}
  /\ Expired # {}
  /\ rec' = [rec EXCEPT ![w].todo = Expired]
  /\ UNCHANGED <<coordVars, storeVars, taskVars, cmd, budgetVars>>

\* get_turn.  A turn without a row belongs to another user's store and is not
\* acknowledged; a terminal one is.
RecRead(w) ==
  /\ rec[w].pc = "scan"
  /\ \E t \in rec[w].todo :
       LET rest == rec[w].todo \ {t}
       IN  \/ ~HasRow(t) /\ rec' = [rec EXCEPT ![w].todo = rest]
           \/ Terminal(t) /\ rec' = [rec EXCEPT ![w] =
                  [RecIdle EXCEPT !.pc = "ack", !.todo = rest, !.turn = t]]
           \/ Nonterminal(t) /\ rec' = [rec EXCEPT ![w] =
                  [pc |-> "publish", todo |-> rest, turn |-> t,
                   seen |-> status[t], token |-> rowToken[t]]]
  /\ UNCHANGED <<coordVars, storeVars, taskVars, cmd, budgetVars>>

RecPublish(w) ==
  /\ rec[w].pc = "publish"
  /\ RecGoto(w, "append")
  /\ UNCHANGED <<coordVars, storeVars, taskVars, cmd, budgetVars>>

\* append_events raises for a missing row or another token.
RecAppend(w) ==
  /\ rec[w].pc = "append"
  /\ LET t == rec[w].turn
     IN  IF HasRow(t) /\ rowToken[t] = rec[w].token
           THEN RecGoto(w, "settle")
           ELSE RecNext(w)
  /\ UNCHANGED <<coordVars, storeVars, taskVars, cmd, budgetVars>>

\* Mutation: the expected status is not the one that was read.
RecSettleRunning(w) ==
  /\ rec[w].pc = "settle"
  /\ Transition(rec[w].turn, "failed", "running", rec[w].token)
  /\ RecGoto(w, "ack")
  /\ UNCHANGED <<coordVars, taskVars, cmd, budgetVars>>

\* A refused transition is not recovered, yet acknowledged all the same.
RecSettle(w) ==
  /\ rec[w].pc = "settle"
  /\ Transition(rec[w].turn, "failed", rec[w].seen, rec[w].token)
  /\ RecGoto(w, "ack")
  /\ UNCHANGED <<coordVars, taskVars, cmd, budgetVars>>

RecAck(w) ==
  /\ rec[w].pc = "ack"
  /\ Acknowledge(rec[w].turn)
  /\ RecNext(w)
  /\ UNCHANGED <<storeVars, taskVars, cmd, budgetVars>>

\* A coordinator call raises: logged, and the turn stays listed.
RecFails(w) ==
  /\ rec[w].pc \in {"publish", "append", "ack"}
  /\ Fault
  /\ RecNext(w)
  /\ UNCHANGED <<coordVars, storeVars, taskVars, cmd, shutdowns, crashes>>

-----------------------------------------------------------------------------
TurnStep(t) ==
  \/ StartTurn(t) \/ AbandonStart(t) \/ BeginTurn(t)
  \/ RejectLaunch(t) \/ Launch(t) \/ LaunchFails(t)
  \/ Pause(t) \/ Reply(t) \/ InterruptWait(t) \/ Restore(t)
  \/ Finish(t) \/ Settle(t) \/ Announce(t) \/ AfterDone(t)
  \/ Interrupt(t) \/ CancelPublish(t) \/ CancelSettle(t) \/ CancelAnnounce(t)
  \/ Fail(t) \/ FailPublish(t) \/ FailSettle(t)
  \/ Cleanup(t) \/ InterruptCleanup(t)
  \/ ObserveCancel(t) \/ Heartbeat(t) \/ CoordinationFails(t)
  \/ RequestCancel(t) \/ LocalCancel(t) \/ AdminCancel(t) \/ LeaseExpires(t)

ProcessStep(w) ==
  \/ Shutdown(w) \/ Crash(w)
  \/ RecList(w) \/ RecRead(w) \/ RecPublish(w) \/ RecAppend(w)
  \/ RecSettle(w) \/ RecAck(w) \/ RecFails(w)

Next ==
  \/ \E t \in Turn : TurnStep(t)
  \/ \E w \in Worker : ProcessStep(w)
  \/ \E s \in Session : RemoveSession(s)

Spec == Init /\ [][Next]_vars

-----------------------------------------------------------------------------
(***************************************************************************)
(* Recovery never works on a turn whose owner still holds a live lease: a  *)
(* turn that was listed as expired stays expired however late its          *)
(* owner's heartbeat comes (list_expired_turn_ids, renew_turn).            *)
(***************************************************************************)
RecoverySparesOwners ==
  \A w \in Worker : live \cap (rec[w].todo \cup {rec[w].turn}) = {}

(***************************************************************************)
(* The DONE event that a task publishes after its compare-and-set tells    *)
(* the status the row really has, whatever recovery, cancellation and      *)
(* administrators wrote in between (executor.py 911-916 and 1002-1024).    *)
(***************************************************************************)
DoneMatchesRow ==
  \A t \in Turn :
    pc[t] \in {"announce", "post", "cancelAnnounce"}
      => status[t] \in {outcome[t], "none"}

(***************************************************************************)
(* No turn is stranded: an unfinished row whose task is gone still has a   *)
(* live lease that will expire, or is in the registry of the recovery      *)
(* scan.  Without that nobody will ever finish it, and its session refuses *)
(* every later turn.                                                       *)
(***************************************************************************)
NoStrandedTurn ==
  \A t \in Turn :
    Nonterminal(t) /\ pc[t] = "ended" => Active(t) \/ t \in known

(***************************************************************************)
(* Fairness.  asyncio runs every ready task, so each step of a task, of    *)
(* its coordination task and of the recovery loop of a live process is     *)
(* taken eventually; a lease nobody renews runs out by itself.  The engine *)
(* (Finish, Fail, Pause), users, administrators, faults and crashes owe    *)
(* nothing: a turn may run forever.                                        *)
(***************************************************************************)
TaskProgress(t) ==
  \/ BeginTurn(t) \/ Launch(t) \/ InterruptWait(t) \/ Restore(t) \/ Settle(t)
  \/ Announce(t) \/ AfterDone(t) \/ Interrupt(t) \/ CancelPublish(t) \/ CancelSettle(t)
  \/ CancelAnnounce(t) \/ FailPublish(t) \/ FailSettle(t)
  \/ Cleanup(t) \/ InterruptCleanup(t)

RecProgress(w) ==
  \/ RecList(w) \/ RecRead(w) \/ RecPublish(w) \/ RecAppend(w) \/ RecSettle(w) \/ RecAck(w)

Fairness ==
  /\ \A t \in Turn : /\ WF_vars(TaskProgress(t))
                     /\ WF_vars(ObserveCancel(t))
                     /\ WF_vars(Heartbeat(t) /\ ~CanRenew(t))
                     /\ WF_vars(LeaseExpires(t) /\ At(t, "ended"))
  /\ \A w \in Worker : WF_vars(RecProgress(w))

FairSpec == Spec /\ Fairness

(***************************************************************************)
(* A turn whose task is gone without an outcome (its worker crashed, or    *)
(* lost its lease) gets one from recovery.                                 *)
(***************************************************************************)
LostTurnsSettle ==
  \A t \in Turn : pc[t] = "ended" /\ Nonterminal(t) ~> ~Nonterminal(t)

(***************************************************************************)
(* A task that stops because it cannot prove its lease any more leaves the *)
(* outcome to recovery, and recovery does write one (lifecycle.py 256-262, *)
(* executor.py 953-957).                                                   *)
(***************************************************************************)
LeaseLossSettles ==
  \A t \in Turn : lost[t] ~> ~Nonterminal(t)

(***************************************************************************)
(* Whoever started a turn and does not have its lease any more stops:      *)
(* stalled past the TTL, cancelled, interrupted in any handler or told by  *)
(* its own heartbeat, it does not go on beside the next turn of the        *)
(* session (lifecycle.py 244-263, executor.py 953-957).                    *)
(***************************************************************************)
StaleOwnersStop ==
  \A t \in Turn : pc[t] # "idle" /\ ~Active(t) ~> pc[t] = "ended"

(***************************************************************************)
(* An accepted cancel command takes effect: the turn reaches an outcome.   *)
(***************************************************************************)
CancelTakesEffect ==
  \A t \in Turn : cmd[t] ~> ~Nonterminal(t)
=============================================================================
