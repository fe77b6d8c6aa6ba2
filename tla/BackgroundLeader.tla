--------------------------- MODULE BackgroundLeader ---------------------------
(***************************************************************************)
(* deeptutor/runtime/background_leader.py over the leader lease and the    *)
(* background command stream of the coordinator: every worker process runs *)
(* a supervisor; the one that holds the lease starts the singleton         *)
(* services (partners, cron, GitHub sync), drains the commands that the    *)
(* workers submit, and hands everything over when it loses the lease.      *)
(*                                                                         *)
(* A token identifies a lease.  Both adapters treat an expired record as a *)
(* missing one in every leader operation, so one variable holds the token  *)
(* of the lease that is live.  A command is modelled by its kind, and its  *)
(* stream id by its position.                                              *)
(***************************************************************************)
EXTENDS Workers, Naturals, Sequences

CONSTANTS
  Kind,          \* kinds of background command
  Poison,        \* kinds whose handler always raises (unknown kind, no id)
  Services,      \* number of start and stop callbacks
  MaxLog,        \* bound on the commands submitted
  MaxStalls,     \* bound on the leases that expire under a running holder
  MaxFaults,     \* bound on failing calls and callbacks
  MaxExits,      \* bound on the closes and crashes of processes
  MaxTokens      \* bound on the leases issued

ASSUME ServicesIsCount == Services \in Nat
ASSUME LeaderBounds ==
  MaxLog \in Nat /\ MaxStalls \in Nat /\ MaxFaults \in Nat /\ MaxExits \in Nat
  /\ MaxTokens \in Nat

VARIABLES
  leader,        \* token of the live leader lease, 0 for none
  issued,        \* the last leader token issued
  log,           \* the background command stream
  acked,         \* the persisted cursor of the stream
  phase,         \* where each supervisor's _run or close is
  held,          \* token of each supervisor's lease object, 0 for none
  beating,       \* supervisors whose heartbeat task runs
  lost,          \* supervisors whose leadership-lost event is set
  cursor,        \* each supervisor's own cursor, 0 for "0-0"
  next, upto,    \* the rows it read and has not acknowledged: next..upto
  serving,       \* its count of started services
  timedOut,      \* tokens whose lease ran out (history)
  handled,       \* positions whose handler completed (history)
  stalls, faults, exits   \* events counted against the bounds

leaderVars == <<leader, issued, log, acked, phase, held, beating, lost, cursor,
                next, upto, serving, timedOut, handled, stalls, faults, exits>>

localVars == <<phase, held, beating, lost, cursor, next, upto, serving>>
counters == <<stalls, faults, exits>>

\* Phases in which _run holds a lease and runs under _while_leader.
Led == {"starting", "loop", "draining", "acking"}
Phase == Led \cup {"off", "electing", "losing", "closing"}

LeaderTypeOK ==
  /\ leader \in Nat /\ issued \in Nat /\ acked \in Nat
  /\ log \in Seq(Kind)
  /\ phase \in [Worker -> Phase]
  /\ held \in [Worker -> Nat]
  /\ beating \subseteq Worker /\ lost \subseteq Worker
  /\ cursor \in [Worker -> Nat]
  /\ next \in [Worker -> Nat] /\ upto \in [Worker -> Nat]
  /\ serving \in [Worker -> 0..Services]
  /\ timedOut \subseteq Nat /\ handled \subseteq Nat
  /\ stalls \in Nat /\ faults \in Nat /\ exits \in Nat

LeaderInit ==
  /\ leader = 0 /\ issued = 0 /\ acked = 0
  /\ log = <<>>
  /\ phase = [w \in Worker |-> "off"]
  /\ held = [w \in Worker |-> 0]
  /\ beating = {} /\ lost = {}
  /\ cursor = [w \in Worker |-> 0]
  /\ next = [w \in Worker |-> 0] /\ upto = [w \in Worker |-> 0]
  /\ serving = [w \in Worker |-> 0]
  /\ timedOut = {} /\ handled = {}
  /\ stalls = 0 /\ faults = 0 /\ exits = 0

Goto(w, p) == phase' = [phase EXCEPT ![w] = p]

\* A failing call or callback, charged to the bound.
Fault == faults < MaxFaults /\ faults' = faults + 1

\* submit_background_command, with the fresh id every caller leaves it.
Submit(k) ==
  /\ Len(log) < MaxLog
  /\ log' = Append(log, k)
  /\ UNCHANGED <<leader, issued, acked, localVars, timedOut, handled, counters>>

\* A worker process and its supervisor start.
Start(w) ==
  /\ phase[w] = "off"
  /\ Goto(w, "electing")
  /\ UNCHANGED <<leader, issued, log, acked, held, beating, lost, cursor, next,
                 upto, serving, timedOut, handled, counters>>

\* acquire_leader succeeds; the heartbeat starts before the services do.
AcquireLeader(w) ==
  /\ phase[w] = "electing" /\ leader = 0 /\ issued < MaxTokens
  /\ issued' = issued + 1
  /\ leader' = issued + 1
  /\ held' = [held EXCEPT ![w] = issued + 1]
  /\ beating' = beating \cup {w} /\ lost' = lost \ {w}
  /\ Goto(w, "starting")
  /\ UNCHANGED <<log, acked, cursor, next, upto, serving, timedOut, handled, counters>>

\* The script ran and its answer is lost: nobody knows that the lease is live.
AcquireUnanswered(w) ==
  /\ phase[w] = "electing" /\ leader = 0 /\ issued < MaxTokens /\ Fault
  /\ issued' = issued + 1
  /\ leader' = issued + 1
  /\ UNCHANGED <<log, acked, localVars, timedOut, handled, stalls, exits>>

\* _start_services counts a service before it awaits its callback.
StartService(w) ==
  /\ phase[w] = "starting" /\ serving[w] < Services
  /\ serving' = [serving EXCEPT ![w] = @ + 1]
  /\ UNCHANGED <<leader, issued, log, acked, phase, held, beating, lost, cursor,
                 next, upto, timedOut, handled, counters>>

Started(w) ==
  /\ phase[w] = "starting" /\ serving[w] = Services
  /\ Goto(w, "loop")
  /\ UNCHANGED <<leader, issued, log, acked, held, beating, lost, cursor, next,
                 upto, serving, timedOut, handled, counters>>

\* Mutation: a new leader reads from the end of the stream it last saw.
ReadFromEnd(w) ==
  /\ phase[w] = "loop" /\ w \notin lost /\ acked < Len(log)
  /\ next' = [next EXCEPT ![w] = IF cursor[w] = 0 THEN Len(log) ELSE cursor[w] + 1]
  /\ upto' = [upto EXCEPT ![w] = Len(log)]
  /\ Goto(w, "draining")
  /\ UNCHANGED <<leader, issued, log, acked, held, beating, lost, cursor, serving,
                 timedOut, handled, counters>>

\* Where a read begins: a fresh cursor falls back to the persisted one.
From(w) == IF cursor[w] = 0 THEN acked ELSE cursor[w]

\* read_background_commands: the rows after the cursor, if there are any.
Read(w) ==
  /\ phase[w] = "loop" /\ w \notin lost /\ From(w) < Len(log)
  /\ next' = [next EXCEPT ![w] = From(w) + 1]
  /\ upto' = [upto EXCEPT ![w] = Len(log)]
  /\ Goto(w, "draining")
  /\ UNCHANGED <<leader, issued, log, acked, held, beating, lost, cursor, serving,
                 timedOut, handled, counters>>

\* The control callback completes; one that raises ends the leadership.
Execute(w) ==
  /\ phase[w] = "draining"
  /\ IF log[next[w]] \in Poison
       THEN Goto(w, "losing") /\ UNCHANGED handled
       ELSE Goto(w, "acking") /\ handled' = handled \cup {next[w]}
  /\ UNCHANGED <<leader, issued, log, acked, held, beating, lost, cursor, next,
                 upto, serving, timedOut, counters>>

\* The cursors move past the row in hand, and the next row is taken.
Advance(w) ==
  /\ acked' = next[w]
  /\ cursor' = [cursor EXCEPT ![w] = next[w]]
  /\ next' = [next EXCEPT ![w] = @ + 1]
  /\ Goto(w, IF next[w] = upto[w] THEN "loop" ELSE "draining")

\* Mutation: the acknowledgement does not look at the lease.
AckUnfenced(w) ==
  /\ phase[w] = "acking" /\ Advance(w)
  /\ UNCHANGED <<leader, issued, log, held, beating, lost, upto, serving, timedOut,
                 handled, counters>>

\* acknowledge_background_command: refused unless the lease is the live one.
Ack(w) ==
  /\ phase[w] = "acking"
  /\ IF leader = held[w]
       THEN Advance(w)
       ELSE Goto(w, "losing") /\ UNCHANGED <<acked, cursor, next>>
  /\ UNCHANGED <<leader, issued, log, held, beating, lost, upto, serving, timedOut,
                 handled, counters>>

(***************************************************************************)
(* _while_leader: the lost event cancels the operation at its await; any   *)
(* exception of a callback or of a coordinator call ends the leadership    *)
(* the same way (_run).  A failing recovery callback is one of them.       *)
(***************************************************************************)
Interrupt(w) ==
  /\ phase[w] \in Led
  /\ \/ w \in lost /\ UNCHANGED faults
     \/ Fault
  /\ Goto(w, "losing")
  /\ UNCHANGED <<leader, issued, log, acked, held, beating, lost, cursor, next,
                 upto, serving, timedOut, handled, stalls, exits>>

\* Mutation: a service is stopped that was not started.
StopAgain(w) ==
  /\ phase[w] \in {"losing", "closing"}
  /\ serving' = [serving EXCEPT ![w] = @ - 1]
  /\ UNCHANGED <<leader, issued, log, acked, phase, held, beating, lost, cursor,
                 next, upto, timedOut, handled, counters>>

\* _stop_started_services; an exception of a stop callback is suppressed.
StopService(w) ==
  /\ phase[w] \in {"losing", "closing"} /\ serving[w] > 0
  /\ serving' = [serving EXCEPT ![w] = @ - 1]
  /\ UNCHANGED <<leader, issued, log, acked, phase, held, beating, lost, cursor,
                 next, upto, timedOut, handled, counters>>

\* The end of _lose_leadership and of close: the heartbeat and the lease go.
HandOver(w) ==
  /\ phase[w] \in {"losing", "closing"}
  /\ \/ leader' = (IF leader = held[w] THEN 0 ELSE leader) /\ UNCHANGED faults
     \/ Fault /\ UNCHANGED leader
  /\ held' = [held EXCEPT ![w] = 0]
  /\ beating' = beating \ {w} /\ lost' = lost \ {w}
  /\ cursor' = [cursor EXCEPT ![w] = 0]
  /\ next' = [next EXCEPT ![w] = 0] /\ upto' = [upto EXCEPT ![w] = 0]
  /\ Goto(w, IF phase[w] = "losing" THEN "electing" ELSE "off")
  /\ UNCHANGED <<issued, log, acked, serving, timedOut, handled, stalls, exits>>

\* Mutation: the lease is released first and the services are stopped after.
ReleaseEarly(w) == HandOver(w)

ReleaseLeader(w) == serving[w] = 0 /\ HandOver(w)

\* The heartbeat finds another lease, or none; or its call fails.
Heartbeat(w) ==
  /\ w \in beating
  /\ \/ leader # held[w] /\ UNCHANGED faults
     \/ Fault
  /\ lost' = lost \cup {w}
  /\ beating' = beating \ {w}
  /\ UNCHANGED <<leader, issued, log, acked, phase, held, cursor, next, upto,
                 serving, timedOut, handled, stalls, exits>>

\* Mutation: the key is written without an expiry, which renewals add.
ExpireHeld ==
  /\ \E w \in beating : held[w] = leader
  /\ stalls < MaxStalls /\ stalls' = stalls + 1
  /\ leader' = 0
  /\ timedOut' = timedOut \cup {leader}
  /\ UNCHANGED <<issued, log, acked, localVars, handled, faults, exits>>

(***************************************************************************)
(* The TTL runs out: at any time for a lease that nobody renews, and a     *)
(* bounded number of times under a holder too slow for its heartbeat.      *)
(***************************************************************************)
ExpireLeader ==
  /\ leader # 0
  /\ IF \E w \in beating : held[w] = leader
       THEN stalls < MaxStalls /\ stalls' = stalls + 1
       ELSE UNCHANGED stalls
  /\ leader' = 0
  /\ timedOut' = timedOut \cup {leader}
  /\ UNCHANGED <<issued, log, acked, localVars, handled, faults, exits>>

\* close(): _run is cancelled at whatever it awaits.
Close(w) ==
  /\ phase[w] \notin {"off", "closing"}
  /\ exits < MaxExits /\ exits' = exits + 1
  /\ Goto(w, "closing")
  /\ UNCHANGED <<leader, issued, log, acked, held, beating, lost, cursor, next,
                 upto, serving, timedOut, handled, stalls, faults>>

\* The process is killed; its services die with it and its lease stays.
Crash(w) ==
  /\ phase[w] # "off"
  /\ exits < MaxExits /\ exits' = exits + 1
  /\ Goto(w, "off")
  /\ held' = [held EXCEPT ![w] = 0]
  /\ beating' = beating \ {w} /\ lost' = lost \ {w}
  /\ cursor' = [cursor EXCEPT ![w] = 0]
  /\ next' = [next EXCEPT ![w] = 0] /\ upto' = [upto EXCEPT ![w] = 0]
  /\ serving' = [serving EXCEPT ![w] = 0]
  /\ UNCHANGED <<leader, issued, log, acked, timedOut, handled, stalls, faults>>

\* What a supervisor does by itself.
Supervise(w) ==
  \/ AcquireLeader(w) \/ StartService(w) \/ Started(w) \/ Read(w) \/ Execute(w)
  \/ Ack(w) \/ StopService(w) \/ ReleaseLeader(w)

LeaderNext ==
  \/ \E k \in Kind : Submit(k)
  \/ \E w \in Worker : \/ Start(w) \/ Supervise(w) \/ Interrupt(w)
                       \/ Heartbeat(w) \/ AcquireUnanswered(w)
                       \/ Close(w) \/ Crash(w)
  \/ ExpireLeader

\* The heartbeat and the interrupt that the state, not a fault, calls for.
Notice(w) ==
  \/ Heartbeat(w) /\ leader # held[w]
  \/ Interrupt(w) /\ w \in lost

\* The lease that runs out is one that nobody renews.
ExpireAbandoned == ExpireLeader /\ UNCHANGED stalls

(***************************************************************************)
(* Every process and its timers keep running, and a lease that nobody      *)
(* renews runs out.  Nothing makes a process crash, close, stall or fail.  *)
(***************************************************************************)
LeaderFairness ==
  /\ \A w \in Worker : /\ WF_leaderVars(Start(w))
                       /\ WF_leaderVars(Supervise(w))
                       /\ WF_leaderVars(Notice(w))
  /\ WF_leaderVars(ExpireAbandoned)

LeaderSpec == LeaderInit /\ [][LeaderNext]_leaderVars

LeaderFairSpec == LeaderSpec /\ LeaderFairness

-----------------------------------------------------------------------------
(***************************************************************************)
(* The singleton services run in two processes at once only when a lease   *)
(* ran out under one of them: an orderly handover stops them first         *)
(* (background_leader.py _lose_leadership and close).                      *)
(***************************************************************************)
SingletonServices ==
  \A v, w \in Worker :
    (v # w /\ serving[v] > 0 /\ serving[w] > 0)
      => held[v] \in timedOut \/ held[w] \in timedOut

(***************************************************************************)
(* No command is acknowledged that no handler completed, whoever leads and *)
(* whenever the leadership changes: a new leader resumes at the persisted  *)
(* cursor, and a command that fails holds back the ones behind it          *)
(* (_drain_background_commands).                                           *)
(***************************************************************************)
NothingSkipped == 1..acked \subseteq handled

(***************************************************************************)
(* A leader that lost its lease while it executed a command cannot move    *)
(* the persisted cursor back behind its successor's.                       *)
(***************************************************************************)
CursorNeverBack == [][acked' >= acked]_leaderVars

\* A command whose handler always raises was submitted at or before p.
PoisonedBy(p) == \E q \in 1..p : q <= Len(log) /\ log[q] \in Poison

(***************************************************************************)
(* Every command that no poisoned one precedes is acknowledged in the end, *)
(* through every change of leader, failure and crash: again and again none *)
(* of them is left.                                                        *)
(***************************************************************************)
CommandsSettle ==
  []<>(\A p \in 1..Len(log) : PoisonedBy(p) \/ acked >= p)

(***************************************************************************)
(* Some process ends up running all the services for good, unless a        *)
(* poisoned command makes every leader give up again and again.            *)
(***************************************************************************)
ServicesSettle ==
  \/ <>[](\E w \in Worker : serving[w] = Services)
  \/ <>PoisonedBy(MaxLog)
=============================================================================
