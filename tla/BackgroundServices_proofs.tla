----------------------- MODULE BackgroundServices_proofs -----------------------
(***************************************************************************)
(* Proofs about the leader of the background services and about its        *)
(* composition with the cron scheduler, for any number of processes,       *)
(* services, jobs and commands, with every crash, expiry and failing call  *)
(* the model has.                                                          *)
(*                                                                         *)
(* SingletonServices follows from HoldersOK: only the holder of a lease    *)
(* runs services, no two hold the same lease, and a lease object that is   *)
(* not the live lease has timed out.  NothingSkipped and CursorNeverBack   *)
(* need CursorsOK: whoever holds the live lease reads from the persisted   *)
(* cursor, and the row it acknowledges is the next one and was handled.    *)
(* It says nothing of a supervisor whose lease is gone, which is what the  *)
(* fence of the acknowledgement is for.                                    *)
(*                                                                         *)
(* A step of the composition is a step of the leader, or leaves the leader *)
(* alone, or is a notification, which appends to the command stream.  So   *)
(* what is shown of the leader holds of the composition as well.           *)
(* JobsRunUnderLeadership needs SchedulerIsService: a loop ticks only      *)
(* where the scheduler is counted among the started services.              *)
(*                                                                         *)
(* OneShotOnce spans leaders.  OneTime says that whatever is still on its  *)
(* way of a one-shot, in a row, a snapshot or a hand, is the one next run  *)
(* it had; LoopsForget, that no loop has one left that ended, because the  *)
(* loop that ended it is the only one and the next one loads the table.    *)
(*                                                                         *)
(* FirstLeaderPicksUp rests on FirstKnows: a snapshot that counts as       *)
(* loaded and is not the table is owed a reload, which no step takes from  *)
(* ahead of the leader's cursor without loading the table.                 *)
(***************************************************************************)
EXTENDS BackgroundServices, TLAPS

-----------------------------------------------------------------------------
(* The leader by itself                                                    *)

Idle == {"off", "electing"}

HoldersOK ==
  /\ leader <= issued
  /\ \A w \in Worker :
       /\ held[w] <= issued
       /\ phase[w] \in Idle => held[w] = 0 /\ serving[w] = 0 /\ cursor[w] = 0
       /\ phase[w] \in Led \cup {"losing"} => held[w] # 0
       /\ serving[w] > 0 => held[w] # 0
       /\ held[w] # 0 => held[w] = leader \/ held[w] \in timedOut
  /\ \A v, w \in Worker : held[v] = held[w] /\ held[v] # 0 => v = w

CursorsOK ==
  \A w \in Worker :
    /\ phase[w] \in Led /\ held[w] = leader => cursor[w] \in {0, acked}
    /\ phase[w] \in {"draining", "acking"} /\ held[w] = leader => next[w] = acked + 1
    /\ phase[w] = "acking" => next[w] \in handled

LeaderInv == LeaderTypeOK /\ HoldersOK /\ CursorsOK /\ NothingSkipped

\* The steps that only move a supervisor between phases, or count a service.
Quiet(w) == Start(w) \/ StartService(w) \/ Started(w) \/ Read(w) \/ Execute(w)
              \/ Interrupt(w) \/ StopService(w) \/ Heartbeat(w) \/ Close(w)

\* The steps of the leader's lease and of the cursor.
Leases(w) == AcquireLeader(w) \/ AcquireUnanswered(w) \/ Ack(w) \/ ReleaseLeader(w)
               \/ Crash(w)

LEMMA NextSplits ==
  LeaderNext => \/ \E k \in Kind : Submit(k)
                \/ \E w \in Worker : Quiet(w) \/ Leases(w)
                \/ ExpireLeader
BY DEF LeaderNext, Supervise, Quiet, Leases

LEMMA TypeStep ==
  ASSUME LeaderTypeOK, [LeaderNext]_leaderVars
  PROVE  LeaderTypeOK'
<1> USE ServicesIsCount DEF LeaderTypeOK, Phase, Led, Goto, Fault, localVars, counters
<1>1. ASSUME NEW k \in Kind, Submit(k)
      PROVE  LeaderTypeOK'
  BY <1>1 DEF Submit
<1>2. ASSUME NEW w \in Worker, Quiet(w)
      PROVE  LeaderTypeOK'
  <2>1. CASE Start(w) \/ Started(w)
    BY <2>1 DEF Start, Started
  <2>6. CASE Interrupt(w)
    BY <2>6 DEF Interrupt
  <2>7. CASE Heartbeat(w)
    BY <2>7 DEF Heartbeat
  <2>8. CASE Close(w)
    BY <2>8 DEF Close
  <2>2. CASE StartService(w)
    BY <1>2, <2>2 DEF StartService
  <2>3. CASE StopService(w)
    BY <1>2, <2>3 DEF StopService
  <2>4. CASE Read(w)
    BY <1>2, <2>4 DEF Read, From
  <2>5. CASE Execute(w)
    <3>1. phase' \in [Worker -> Phase]
      BY <2>5 DEF Execute
    <3>2. handled' \subseteq handled \cup {next[w]}
      BY <2>5 DEF Execute
    <3>3. next[w] \in Nat
      OBVIOUS
    <3> QED
      BY <2>5, <3>1, <3>2, <3>3 DEF Execute
  <2> QED
    BY <1>2, <2>1, <2>2, <2>3, <2>4, <2>5, <2>6, <2>7, <2>8 DEF Quiet
<1>3. ASSUME NEW w \in Worker, Leases(w)
      PROVE  LeaderTypeOK'
  <2>1. CASE AcquireLeader(w)
    BY <2>1 DEF AcquireLeader
  <2>5. CASE AcquireUnanswered(w)
    BY <2>5 DEF AcquireUnanswered
  <2>2. CASE Ack(w)
    <3>1. CASE leader = held[w]
      <4>1. next[w] \in Nat
        OBVIOUS
      <4>2. acked' \in Nat /\ cursor' \in [Worker -> Nat]
        BY <2>2, <3>1, <4>1 DEF Ack, Advance
      <4>3. next' \in [Worker -> Nat]
        BY <2>2, <3>1 DEF Ack, Advance
      <4>4. phase' \in [Worker -> Phase]
        BY <2>2, <3>1 DEF Ack, Advance
      <4> QED
        BY <2>2, <4>2, <4>3, <4>4 DEF Ack
    <3>2. CASE leader # held[w]
      BY <2>2, <3>2 DEF Ack
    <3> QED
      BY <3>1, <3>2
  <2>3. CASE ReleaseLeader(w)
    BY <1>3, <2>3 DEF ReleaseLeader, HandOver
  <2>4. CASE Crash(w)
    BY <1>3, <2>4 DEF Crash
  <2> QED
    BY <1>3, <2>1, <2>2, <2>3, <2>4, <2>5 DEF Leases
<1>4. CASE ExpireLeader
  BY <1>4 DEF ExpireLeader
<1>5. CASE UNCHANGED leaderVars
  BY <1>5 DEF leaderVars
<1> QED
  BY <1>1, <1>2, <1>3, <1>4, <1>5, NextSplits

LEMMA HoldersStep ==
  ASSUME LeaderTypeOK, HoldersOK, [LeaderNext]_leaderVars
  PROVE  HoldersOK'
<1> USE DEF LeaderTypeOK, HoldersOK, Idle, Led, Goto, Fault, localVars, counters
<1>1. ASSUME NEW k \in Kind, Submit(k)
      PROVE  HoldersOK'
  BY <1>1 DEF Submit
<1>2. ASSUME NEW w \in Worker, Quiet(w)
      PROVE  HoldersOK'
  <2>1. UNCHANGED <<leader, issued, held, cursor, timedOut>>
    BY <1>2 DEF Quiet, Start, StartService, Started, Read, Execute, Interrupt,
                StopService, Heartbeat, Close
  <2>2. /\ phase'[w] \in Idle => held[w] = 0 /\ serving'[w] = 0 /\ cursor[w] = 0
        /\ phase'[w] \in Led \cup {"losing"} => held[w] # 0
        /\ serving'[w] > 0 => held[w] # 0
    BY <1>2 DEF Quiet, Start, StartService, Started, Read, Execute, Interrupt,
                StopService, Heartbeat, Close, Phase
  <2>3. \A v \in Worker \ {w} : phase'[v] = phase[v] /\ serving'[v] = serving[v]
    BY <1>2 DEF Quiet, Start, StartService, Started, Read, Execute, Interrupt,
                StopService, Heartbeat, Close
  <2> QED
    BY <2>1, <2>2, <2>3
<1>3. ASSUME NEW w \in Worker, Leases(w)
      PROVE  HoldersOK'
  <2>1. CASE AcquireLeader(w)
    <3>1. \A v \in Worker : held[v] # issued + 1 /\ (held[v] # 0 => held[v] \in timedOut)
      BY <2>1 DEF AcquireLeader
    <3> QED
      BY <2>1, <3>1 DEF AcquireLeader
  <2>2. CASE AcquireUnanswered(w)
    BY <2>2 DEF AcquireUnanswered
  <2>3. CASE Ack(w)
    BY <2>3 DEF Ack, Advance
  <2>4. CASE ReleaseLeader(w)
    <3>1. \A v \in Worker : held'[v] = IF v = w THEN 0 ELSE held[v]
      BY <2>4 DEF ReleaseLeader, HandOver
    <3>2. \A v \in Worker \ {w} : held[v] # 0 /\ held[v] = leader => leader' = leader
      BY <2>4 DEF ReleaseLeader, HandOver
    <3>3. leader' \in {0, leader} /\ UNCHANGED <<issued, timedOut, serving>>
      BY <2>4 DEF ReleaseLeader, HandOver
    <3>4. serving[w] = 0 /\ cursor'[w] = 0 /\ phase'[w] \in Idle
      BY <2>4 DEF ReleaseLeader, HandOver
    <3>5. \A v \in Worker \ {w} : phase'[v] = phase[v] /\ cursor'[v] = cursor[v]
      BY <2>4 DEF ReleaseLeader, HandOver
    <3> QED
      BY <3>1, <3>2, <3>3, <3>4, <3>5
  <2>5. CASE Crash(w)
    BY <2>5 DEF Crash
  <2> QED
    BY <1>3, <2>1, <2>2, <2>3, <2>4, <2>5 DEF Leases
<1>4. CASE ExpireLeader
  BY <1>4 DEF ExpireLeader
<1>5. CASE UNCHANGED leaderVars
  BY <1>5 DEF leaderVars
<1> QED
  BY <1>1, <1>2, <1>3, <1>4, <1>5, NextSplits

\* An acknowledgement that passes the fence moves the cursor by one handled row.
LEMMA AckStep ==
  ASSUME LeaderTypeOK, HoldersOK, CursorsOK, NEW w \in Worker, Ack(w)
  PROVE  \/ acked' = acked
         \/ leader = held[w] /\ acked' = acked + 1 /\ acked + 1 \in handled
BY DEF LeaderTypeOK, CursorsOK, Ack, Advance

LEMMA CursorsStep ==
  ASSUME LeaderTypeOK, HoldersOK, CursorsOK, [LeaderNext]_leaderVars
  PROVE  CursorsOK'
<1> USE DEF LeaderTypeOK, CursorsOK, Led, Goto, Fault, localVars, counters
<1>1. ASSUME NEW k \in Kind, Submit(k)
      PROVE  CursorsOK'
  BY <1>1 DEF Submit
<1>2. ASSUME NEW w \in Worker, Quiet(w)
      PROVE  CursorsOK'
  <2>1. CASE Start(w) \/ StartService(w) \/ Started(w) \/ Interrupt(w)
             \/ StopService(w) \/ Heartbeat(w) \/ Close(w)
    BY <2>1 DEF Start, StartService, Started, Interrupt, StopService, Heartbeat, Close,
                HoldersOK, Idle
  <2>2. CASE Read(w)
    BY <2>2 DEF Read, From
  <2>3. CASE Execute(w)
    BY <2>3 DEF Execute
  <2> QED
    BY <1>2, <2>1, <2>2, <2>3 DEF Quiet
<1>3. ASSUME NEW w \in Worker, Leases(w)
      PROVE  CursorsOK'
  <2>1. CASE AcquireLeader(w)
    BY <2>1 DEF AcquireLeader, HoldersOK, Idle
  <2>2. CASE AcquireUnanswered(w)
    BY <2>2 DEF AcquireUnanswered, HoldersOK, Idle
  <2>3. CASE Ack(w)
    <3>1. CASE leader = held[w]
      <4>1. held[w] # 0
        BY <2>3 DEF Ack, HoldersOK
      <4>2. \A v \in Worker \ {w} : held[v] # leader
        BY <3>1, <4>1 DEF HoldersOK
      <4>3. /\ acked' = next[w] /\ cursor'[w] = next[w] /\ next'[w] = next[w] + 1
            /\ phase'[w] \in {"loop", "draining"}
        BY <2>3, <3>1 DEF Ack, Advance
      <4>4. \A v \in Worker \ {w} : /\ phase'[v] = phase[v] /\ next'[v] = next[v]
                                    /\ cursor'[v] = cursor[v]
        BY <2>3, <3>1 DEF Ack, Advance
      <4>5. UNCHANGED <<leader, held, handled>>
        BY <2>3 DEF Ack
      <4> QED
        BY <4>2, <4>3, <4>4, <4>5
    <3>2. CASE leader # held[w]
      BY <2>3, <3>2 DEF Ack
    <3> QED
      BY <3>1, <3>2
  <2>4. CASE ReleaseLeader(w)
    <3>1. /\ \A v \in Worker \ {w} : /\ held'[v] = held[v] /\ phase'[v] = phase[v]
                                     /\ next'[v] = next[v] /\ cursor'[v] = cursor[v]
          /\ phase'[w] \in {"electing", "off"}
          /\ leader' \in {0, leader} /\ UNCHANGED <<acked, handled>>
      BY <2>4 DEF ReleaseLeader, HandOver
    <3>2. \A v \in Worker : phase[v] \in Led => held[v] # 0
      BY DEF HoldersOK
    <3> QED
      BY <3>1, <3>2
  <2>5. CASE Crash(w)
    BY <2>5 DEF Crash
  <2> QED
    BY <1>3, <2>1, <2>2, <2>3, <2>4, <2>5 DEF Leases
<1>4. CASE ExpireLeader
  BY <1>4 DEF ExpireLeader, HoldersOK
<1>5. CASE UNCHANGED leaderVars
  BY <1>5 DEF leaderVars
<1> QED
  BY <1>1, <1>2, <1>3, <1>4, <1>5, NextSplits

\* What happens to the persisted cursor, and to the history of handled rows.
LEMMA AckedStep ==
  ASSUME LeaderInv, [LeaderNext]_leaderVars
  PROVE  /\ acked' = acked \/ (acked' = acked + 1 /\ acked + 1 \in handled)
         /\ handled \subseteq handled'
<1> USE DEF LeaderInv, localVars, counters
<1>1. ASSUME NEW w \in Worker, Ack(w)
      PROVE  /\ acked' = acked \/ (acked' = acked + 1 /\ acked + 1 \in handled)
             /\ handled \subseteq handled'
  BY <1>1, AckStep DEF Ack
<1>2. CASE /\ UNCHANGED acked
           /\ handled \subseteq handled'
  BY <1>2
<1>3. ASSUME NEW k \in Kind, Submit(k)
      PROVE  UNCHANGED <<acked, handled>>
  BY <1>3 DEF Submit
<1>4. ASSUME NEW w \in Worker, Quiet(w)
      PROVE  UNCHANGED acked /\ handled \subseteq handled'
  BY <1>4 DEF Quiet, Start, StartService, Started, Read, Execute, Interrupt,
              StopService, Heartbeat, Close
<1>5. ASSUME NEW w \in Worker, Leases(w), ~Ack(w)
      PROVE  UNCHANGED <<acked, handled>>
  BY <1>5 DEF Leases, AcquireLeader, AcquireUnanswered, ReleaseLeader, HandOver, Crash
<1>6. CASE ExpireLeader \/ UNCHANGED leaderVars
  BY <1>2, <1>6 DEF ExpireLeader, leaderVars
<1> QED
  BY <1>1, <1>2, <1>3, <1>4, <1>5, <1>6, NextSplits

LEMMA LeaderInitInv == LeaderInit => LeaderInv
<1> SUFFICES ASSUME LeaderInit PROVE LeaderInv
  OBVIOUS
<1> USE ServicesIsCount DEF LeaderInit
<1>1. LeaderTypeOK
  BY DEF LeaderTypeOK, Phase
<1>2. HoldersOK /\ CursorsOK
  BY DEF HoldersOK, CursorsOK, Idle, Led
<1>3. NothingSkipped
  BY DEF NothingSkipped
<1> QED
  BY <1>1, <1>2, <1>3 DEF LeaderInv

LEMMA LeaderNextInv == LeaderInv /\ [LeaderNext]_leaderVars => LeaderInv'
<1> SUFFICES ASSUME LeaderInv, [LeaderNext]_leaderVars
             PROVE  LeaderInv'
  OBVIOUS
<1>1. NothingSkipped'
  BY AckedStep DEF NothingSkipped, LeaderInv, LeaderTypeOK
<1> QED
  BY <1>1, TypeStep, HoldersStep, CursorsStep DEF LeaderInv

(***************************************************************************)
(* Whoever crashes, stalls or fails, the supervisors' leases and cursors   *)
(* stay in order.                                                          *)
(***************************************************************************)
THEOREM LeaderInvariant == LeaderSpec => []LeaderInv
BY LeaderInitInv, LeaderNextInv, PTL DEF LeaderSpec

\* The state of the supervisors and the coordinator is always well typed.
THEOREM LeaderTypeCorrect == LeaderSpec => []LeaderTypeOK
<1>1. LeaderInv => LeaderTypeOK
  BY DEF LeaderInv
<1> QED
  BY <1>1, LeaderInvariant, PTL

(***************************************************************************)
(* Two processes run the services at once only after a lease ran out under *)
(* one of them (background_leader.py _lose_leadership).                    *)
(***************************************************************************)
THEOREM ServicesAreSingletons == LeaderSpec => []SingletonServices
<1>1. LeaderInv => SingletonServices
  BY DEF LeaderInv, HoldersOK, SingletonServices
<1> QED
  BY <1>1, LeaderInvariant, PTL

\* No command is acknowledged unhandled (background_leader.py _drain_background_commands).
THEOREM CommandsAreNotSkipped == LeaderSpec => []NothingSkipped
<1>1. LeaderInv => NothingSkipped
  BY DEF LeaderInv
<1> QED
  BY <1>1, LeaderInvariant, PTL

\* A leader that was replaced cannot move the cursor back (redis.py, memory.py).
THEOREM CursorAdvances == LeaderSpec => CursorNeverBack
<1>1. LeaderInv /\ [LeaderNext]_leaderVars => [acked' >= acked]_leaderVars
  BY AckedStep DEF LeaderInv, LeaderTypeOK
<1> QED
  BY <1>1, LeaderInvariant, PTL DEF LeaderSpec, CursorNeverBack
-----------------------------------------------------------------------------
(* The leader with the cron scheduler                                      *)

SchedulerIsService ==
  \A w \in Worker : /\ InTick(w) => w \in ticking
                    /\ w \in ticking => serving[w] >= CronService

ServicesInv == LeaderInv /\ CronTypeOK /\ SchedulerIsService

\* The notifier's command leaves the leaders in order.
LEMMA NotifyKeepsLeader ==
  ASSUME LeaderInv, NEW w \in Worker, Notify(w)
  PROVE  LeaderInv'
<1>1. UNCHANGED <<leader, issued, acked, localVars, timedOut, handled, stalls, exits>>
  BY DEF Notify
<1>2. log' \in Seq(Kind) /\ faults' \in Nat
  <2>1. log \in Seq(Kind) /\ faults \in Nat
    BY DEF LeaderInv, LeaderTypeOK
  <2>2. CASE log' = Append(log, CronReload) /\ UNCHANGED faults
    BY <2>1, <2>2, CronReloadIsKind
  <2>3. CASE Fault /\ UNCHANGED log
    BY <2>1, <2>3 DEF Fault
  <2> QED
    BY <2>2, <2>3 DEF Notify
<1>3. LeaderTypeOK'
  BY <1>1, <1>2 DEF LeaderInv, LeaderTypeOK, localVars
<1>4. HoldersOK' /\ CursorsOK' /\ NothingSkipped'
  BY <1>1 DEF LeaderInv, HoldersOK, CursorsOK, NothingSkipped, localVars
<1> QED
  BY <1>3, <1>4 DEF LeaderInv

\* Every other step is one of the leader's, or leaves it alone.
LEMMA LeaderSide ==
  ASSUME LeaderInv, [Next]_vars
  PROVE  LeaderInv'
<1>1. ASSUME NEW w \in Worker, Notify(w)
      PROVE  LeaderInv'
  BY <1>1, NotifyKeepsLeader
<1>2. ASSUME NEW w \in Worker,
             \/ Lead(w) \/ UseCron(w) \/ RunCron(w) \/ Die(w)
             \/ Start(w) \/ Interrupt(w) \/ Heartbeat(w)
             \/ AcquireUnanswered(w) \/ Close(w)
      PROVE  [LeaderNext]_leaderVars
  BY <1>2 DEF Lead, StartOne, StopOne, Handle, Leave, UseCron, RunCron, Die,
              LeaderNext, Supervise
<1>3. CASE ExpireLeader \/ \E k \in Kind \ {CronReload} : Submit(k)
  BY <1>3, LeaderNextInv DEF LeaderNext
<1>4. CASE UNCHANGED leaderVars
  BY <1>4, LeaderNextInv
<1> QED
  BY <1>1, <1>2, <1>3, <1>4, LeaderNextInv DEF Next, vars

\* What each call of the scheduler does to its loop.
LEMMA CronTypeStep ==
  ASSUME CronTypeOK, [Next]_vars
  PROVE  CronTypeOK'
<1> USE OneShotIsJob DEF CronTypeOK, table, local, Loaded, AfterLoad, Keep, Count
<1>1. ASSUME NEW w \in Worker, NEW j \in Job, Add(w, j)
      PROVE  CronTypeOK'
  BY <1>1 DEF Add
<1>2. ASSUME NEW w \in Worker, NEW js \in SUBSET Job, NEW out, Delete(w, js, out),
             ops' \in Nat
      PROVE  CronTypeOK'
  BY <1>2 DEF Delete, There
<1>3. ASSUME NEW w \in Worker, NEW j \in Job, Cancel(w, j)
      PROVE  CronTypeOK'
  <2>1. Delete(w, {j}, There({j})) /\ ops' \in Nat
    BY <1>3 DEF Cancel
  <2> QED
    BY <1>2, <2>1
<1>4. ASSUME NEW w \in Worker, RemoveOwner(w)
      PROVE  CronTypeOK'
  <2>1. Delete(w, Job, Job) /\ ops' \in Nat
    BY <1>4 DEF RemoveOwner
  <2> QED
    BY <1>2, <2>1
<1>5. ASSUME NEW w \in Worker, Inspect(w)
      PROVE  CronTypeOK'
  BY <1>5 DEF Inspect
<1>6. ASSUME NEW w \in Worker, Changed(w)
      PROVE  CronTypeOK'
  BY <1>6 DEF Changed
<1>7. ASSUME NEW w \in Worker, StartCron(w)
      PROVE  CronTypeOK'
  BY <1>7 DEF StartCron, There
<1>8. ASSUME NEW w \in Worker, StopCron(w)
      PROVE  CronTypeOK'
  BY <1>8 DEF StopCron
<1>9. ASSUME NEW w \in Worker, Tick(w)
      PROVE  CronTypeOK'
  BY <1>9 DEF Tick, Due
<1>10. ASSUME NEW w \in Worker, NEW j \in Job, RunJob(w, j)
       PROVE  CronTypeOK'
  BY <1>10 DEF RunJob
<1>11. ASSUME NEW w \in Worker, FinishJob(w)
       PROVE  CronTypeOK'
  <2> DEFINE j == current[w]
  <2>1. j \in Job
    BY <1>11 DEF FinishJob
  <2>2. /\ rows' \in [Job -> Nat] /\ revision' \in Nat
        /\ snap' \in [Worker -> [Job -> Nat]]
    <3>1. CASE j \in OneShot
      <4>1. Drop(w, j)
        BY <1>11, <3>1 DEF FinishJob
      <4> QED
        BY <2>1, <4>1 DEF Drop
    <3>2. CASE j \notin OneShot
      <4>1. Rearm(w, j)
        BY <1>11, <3>2 DEF FinishJob
      <4> QED
        BY <2>1, <4>1 DEF Rearm
    <3> QED
      BY <3>1, <3>2
  <2>3. current' \in [Worker -> Job \cup {NoJob}] /\ busy' \subseteq Worker
    BY <1>11 DEF FinishJob
  <2>4. ended' \subseteq Job
    BY <1>11, <2>1 DEF FinishJob
  <2> QED
    BY <1>11, <2>2, <2>3, <2>4 DEF FinishJob
<1>12. ASSUME NEW w \in Worker, Reload(w)
       PROVE  CronTypeOK'
  BY <1>12 DEF Reload
<1>13. ASSUME NEW w \in Worker, ForgetCron(w)
       PROVE  CronTypeOK'
  BY <1>13 DEF ForgetCron, Empty
<1>14. CASE TimePasses
  BY <1>14 DEF TimePasses
<1>15. CASE UNCHANGED cronVars
  BY <1>15 DEF cronVars
<1>16. ASSUME NEW w \in Worker, Lead(w)
       PROVE  CronTypeOK'
  BY <1>7, <1>8, <1>12, <1>13, <1>15, <1>16 DEF Lead, StartOne, StopOne, Handle, Leave
<1>17. ASSUME NEW w \in Worker, UseCron(w) \/ RunCron(w) \/ Notify(w) \/ Die(w)
       PROVE  CronTypeOK'
  BY <1>1, <1>3, <1>4, <1>5, <1>6, <1>9, <1>10, <1>11, <1>13, <1>17
     DEF UseCron, RunCron, Notify, Die
<1> QED
  BY <1>14, <1>15, <1>16, <1>17 DEF Next, vars

LEMMA OneLess ==
  ASSUME NEW m \in Nat, NEW n \in Nat, m >= n, m # n
  PROVE  m - 1 >= n
OBVIOUS

\* The loop and the count of services at the steps that touch either.
LEMMA SchedulerStep ==
  ASSUME ServicesInv, [Next]_vars
  PROVE  SchedulerIsService'
<1> USE CronServiceIsService, ServicesIsCount
    DEF ServicesInv, SchedulerIsService, CronTypeOK, InTick, table, local
<1> serving \in [Worker -> 0..Services]
  BY DEF LeaderInv, LeaderTypeOK
<1>1. ASSUME NEW w \in Worker, StartOne(w)
      PROVE  SchedulerIsService'
  BY <1>1 DEF StartOne, StartService, StartCron, cronVars
<1>2. ASSUME NEW w \in Worker, StopOne(w)
      PROVE  SchedulerIsService'
  <2>1. /\ serving[w] > 0 /\ serving' = [serving EXCEPT ![w] = serving[w] - 1]
    BY <1>2 DEF StopOne, StopService
  <2>2. CASE serving[w] = CronService
    <3>1. /\ ticking' = ticking \ {w}
          /\ todo' = [todo EXCEPT ![w] = {}]
          /\ current' = [current EXCEPT ![w] = NoJob]
      BY <1>2, <2>2 DEF StopOne, StopCron
    <3> QED
      BY <2>1, <3>1
  <2>3. CASE serving[w] # CronService
    <3>1. UNCHANGED <<ticking, todo, current>>
      BY <1>2, <2>3 DEF StopOne, cronVars
    <3>2. w \in ticking => serving'[w] >= CronService
      BY <2>1, <2>3, OneLess
    <3>3. \A v \in Worker \ {w} : serving'[v] = serving[v]
      BY <2>1
    <3> QED
      BY <3>1, <3>2, <3>3
  <2> QED
    BY <2>2, <2>3
<1>3. ASSUME NEW w \in Worker, Handle(w)
      PROVE  SchedulerIsService'
  BY <1>3 DEF Handle, Execute, Reload, cronVars
<1>4. ASSUME NEW w \in Worker, Leave(w) \/ Die(w)
      PROVE  SchedulerIsService'
  BY <1>4 DEF Leave, Die, ReleaseLeader, HandOver, Crash, ForgetCron, cronVars
<1>5. ASSUME NEW w \in Worker, UseCron(w) \/ Notify(w)
      PROVE  SchedulerIsService'
  <2>1. UNCHANGED <<serving, ticking, todo, current>>
    BY <1>5 DEF UseCron, Notify, Add, Cancel, RemoveOwner, Delete, Inspect, Changed,
                leaderVars, localVars
  <2> QED
    BY <2>1
<1>6. ASSUME NEW w \in Worker, RunCron(w)
      PROVE  SchedulerIsService'
  <2>1. UNCHANGED <<serving, ticking>>
    BY <1>6 DEF RunCron, Tick, FinishJob, RunJob, leaderVars
  <2>2. CASE Tick(w)
    BY <2>1, <2>2 DEF Tick
  <2>3. CASE FinishJob(w)
    BY <2>1, <2>3 DEF FinishJob
  <2>4. ASSUME NEW j \in Job, RunJob(w, j)
        PROVE  SchedulerIsService'
    BY <2>1, <2>4 DEF RunJob
  <2> QED
    BY <1>6, <2>2, <2>3, <2>4 DEF RunCron
<1>7. CASE UNCHANGED <<serving, ticking, todo, current>>
  BY <1>7
<1>8. ASSUME NEW w \in Worker,
             \/ AcquireLeader(w) \/ Started(w) \/ Read(w) \/ Ack(w)
             \/ Start(w) \/ Interrupt(w) \/ Heartbeat(w)
             \/ AcquireUnanswered(w) \/ Close(w),
             UNCHANGED cronVars
      PROVE  UNCHANGED <<serving, ticking, todo, current>>
  BY <1>8 DEF AcquireLeader, Started, Read, Ack, Start, Interrupt, Heartbeat,
              AcquireUnanswered, Close, localVars, cronVars
<1>9. CASE \/ ExpireLeader /\ UNCHANGED cronVars
           \/ \E k \in Kind : Submit(k) /\ UNCHANGED cronVars
           \/ TimePasses /\ UNCHANGED leaderVars
           \/ UNCHANGED vars
  BY <1>7, <1>9 DEF ExpireLeader, Submit, TimePasses, localVars, leaderVars, cronVars, vars
<1> QED
  BY <1>1, <1>2, <1>3, <1>4, <1>5, <1>6, <1>7, <1>8, <1>9 DEF Next, Lead

LEMMA ServicesInitInv == Init => ServicesInv
<1> SUFFICES ASSUME Init PROVE ServicesInv
  OBVIOUS
<1>1. LeaderInv
  BY LeaderInitInv DEF Init
<1>2. CronTypeOK
  BY DEF Init, CronInit, CronTypeOK, Empty
<1>3. SchedulerIsService
  BY DEF Init, CronInit, SchedulerIsService, InTick
<1> QED
  BY <1>1, <1>2, <1>3 DEF ServicesInv

(***************************************************************************)
(* The leaders, their scheduler and the job table stay in order, whichever *)
(* process changes the table and whichever leads.                          *)
(***************************************************************************)
THEOREM ServicesInvariant == Spec => []ServicesInv
<1>1. ServicesInv /\ [Next]_vars => ServicesInv'
  BY LeaderSide, CronTypeStep, SchedulerStep DEF ServicesInv
<1> QED
  BY <1>1, ServicesInitInv, PTL DEF Spec

\* The state of the services is always well typed (api/main.py).
THEOREM ServicesTypeCorrect == Spec => []TypeOK
<1>1. ServicesInv => TypeOK
  BY DEF ServicesInv, LeaderInv, TypeOK
<1> QED
  BY <1>1, ServicesInvariant, PTL

(***************************************************************************)
(* A job runs only in a process that holds a leader lease object and whose *)
(* scheduler is started (background_leader.py, services/cron/service.py).  *)
(***************************************************************************)
THEOREM JobsHaveALeader == Spec => []JobsRunUnderLeadership
<1>1. ServicesInv => JobsRunUnderLeadership
  BY CronServiceIsService
     DEF ServicesInv, LeaderInv, LeaderTypeOK, HoldersOK, SchedulerIsService,
         JobsRunUnderLeadership
<1> QED
  BY <1>1, ServicesInvariant, PTL
-----------------------------------------------------------------------------
(* One-shot jobs run once                                                  *)

\* The table or a snapshot has n as the next run of job j.
Noted(j, n) == n # 0 /\ (rows[j] = n \/ \E v \in Worker : snap[v][j] = n)

\* Job j was run, or a tick has listed it.
Fired(j) == j \in ended \/ \E v \in Worker : j \in todo[v] \/ current[v] = j

(***************************************************************************)
(* A one-shot has one next run, which has come once it is fired, and no    *)
(* row once it ended.                                                      *)
(***************************************************************************)
OneTime ==
  /\ \A j \in OneShot :
       /\ j \notin ever => ~Fired(j) /\ \A n \in Nat : ~Noted(j, n)
       /\ \A m, n \in Nat : Noted(j, m) /\ Noted(j, n) => m = n
       /\ Fired(j) => \A n \in Nat : Noted(j, n) => n <= clock
       /\ j \in ended => rows[j] = 0
  /\ \A w \in Worker : current[w] \notin todo[w]

\* Without stalls and faults the heartbeat keeps every lease that is held.
KeptAlive ==
  stalls = 0 /\ faults = 0 =>
    \A w \in Worker : held[w] # 0 => held[w] = leader /\ w \in beating

\* No loop that runs has a one-shot left that ended.
LoopsForget ==
  Orderly => \A j \in OneShot \cap ended : \A w \in ticking :
               snap[w][j] = 0 /\ j \notin todo[w] /\ current[w] # j

\* The steps of the scheduler in process w.
CronMove(w) ==
  \/ \E j \in Job : Add(w, j) \/ Cancel(w, j) \/ RunJob(w, j)
  \/ RemoveOwner(w) \/ Inspect(w) \/ Changed(w) \/ StartCron(w) \/ StopCron(w)
  \/ Tick(w) \/ FinishJob(w) \/ Reload(w) \/ ForgetCron(w)

LEMMA CronMoves ==
  ASSUME [Next]_vars
  PROVE  \/ \E w \in Worker : CronMove(w)
         \/ TimePasses \/ UNCHANGED cronVars
BY DEF Next, Lead, StartOne, StopOne, Handle, Leave, UseCron, RunCron, Notify, Die,
       CronMove, vars

\* Both ways to remove jobs.
LEMMA Deletions ==
  ASSUME NEW w \in Worker, RemoveOwner(w) \/ \E j \in Job : Cancel(w, j)
  PROVE  \E js \in SUBSET Job : \E out : Delete(w, js, out)
<1>1. ASSUME NEW j \in Job, Cancel(w, j)
      PROVE  Delete(w, {j}, There({j}))
  BY <1>1 DEF Cancel
<1>2. CASE RemoveOwner(w)
  BY <1>2 DEF RemoveOwner
<1> QED
  BY <1>1, <1>2

\* What a step does to the row of a one-shot, and to the snapshots.
LEMMA OneShotRows ==
  ASSUME CronTypeOK, NEW w \in Worker, CronMove(w), NEW j \in OneShot, ~Add(w, j)
  PROVE  /\ rows'[j] \in {0, rows[j]}
         /\ \A v \in Worker : snap'[v][j] \in {0, snap[v][j], rows[j]}
<1> USE OneShotIsJob DEF CronTypeOK, table, local, Loaded, Keep
<1>1. ASSUME NEW i \in Job, Add(w, i)
      PROVE  /\ rows'[j] \in {0, rows[j]}
             /\ \A v \in Worker : snap'[v][j] \in {0, snap[v][j], rows[j]}
  BY <1>1 DEF Add
<1>2. CASE RemoveOwner(w) \/ \E i \in Job : Cancel(w, i)
  <2>1. PICK js \in SUBSET Job : \E out : Delete(w, js, out)
    BY <1>2, Deletions
  <2>2. PICK out : Delete(w, js, out)
    BY <2>1
  <2> QED
    BY <2>2 DEF Delete
<1>3. CASE Inspect(w) \/ Changed(w) \/ StopCron(w) \/ Reload(w) \/ ForgetCron(w)
  BY <1>3 DEF Inspect, Changed, StopCron, Reload, ForgetCron, Empty
<1>4. CASE StartCron(w)
  BY <1>4 DEF StartCron
<1>5. CASE Tick(w) \/ \E i \in Job : RunJob(w, i)
  BY <1>5 DEF Tick, RunJob
<1>6. CASE FinishJob(w)
  <2>1. current[w] \in Job
    BY <1>6 DEF FinishJob
  <2>2. CASE current[w] \in OneShot
    BY <1>6, <2>1, <2>2 DEF FinishJob, Drop
  <2>3. CASE current[w] \notin OneShot
    BY <1>6, <2>1, <2>3 DEF FinishJob, Rearm
  <2> QED
    BY <2>2, <2>3
<1> QED
  BY <1>1, <1>2, <1>3, <1>4, <1>5, <1>6 DEF CronMove

LEMMA NotedStep ==
  ASSUME CronTypeOK, NEW w \in Worker, CronMove(w), NEW j \in OneShot, NEW n \in Nat,
         Noted(j, n)'
  PROVE  Noted(j, n) \/ (Add(w, j) /\ n = clock + 1)
<1>1. CASE Add(w, j)
  BY <1>1, OneShotIsJob DEF CronTypeOK, Add, Keep, Loaded, Noted
<1>2. CASE ~Add(w, j)
  BY <1>2, OneShotRows DEF Noted
<1> QED
  BY <1>1, <1>2

\* What a step does to the loops.
LEMMA FiredStep ==
  ASSUME CronTypeOK, NEW w \in Worker, CronMove(w)
  PROVE  /\ clock' = clock
         /\ ended' \subseteq ended \cup {current[w]}
         /\ \A v \in Worker :
              /\ v # w => todo'[v] = todo[v] /\ current'[v] = current[v]
              /\ todo'[v] \subseteq todo[v] \/ (Tick(w) /\ v = w)
              /\ current'[v] \in todo[v] \cup {current[v], NoJob}
BY DEF CronMove, CronTypeOK, table, local, Add, Cancel, RemoveOwner, Delete, Inspect,
       Changed, StartCron, StopCron, Tick, RunJob, FinishJob, Reload, ForgetCron
LEMMA OneTimeStep ==
  ASSUME CronTypeOK, OneTime, [Next]_vars
  PROVE  OneTime'
<1> USE OneShotIsJob, NoJobIsNoJob
<1>1. ASSUME NEW w \in Worker, CronMove(w)
      PROVE  OneTime'
  <2>1. ASSUME NEW j \in OneShot
        PROVE  /\ j \notin ever' => ~Fired(j)' /\ \A n \in Nat : ~Noted(j, n)'
               /\ \A m, n \in Nat : Noted(j, m)' /\ Noted(j, n)' => m = n
               /\ Fired(j)' => \A n \in Nat : Noted(j, n)' => n <= clock'
               /\ j \in ended' => rows'[j] = 0
    <3>1. CASE Add(w, j)
      <4>1. /\ j \notin ever /\ ever' = ever \cup {j}
            /\ UNCHANGED <<todo, current, ended>>
        BY <3>1 DEF Add
      <4>2. ~Fired(j)'
        BY <4>1 DEF OneTime, Fired
      <4>3. \A n \in Nat : Noted(j, n)' => n = clock + 1
        BY <1>1, <3>1, <4>1, NotedStep DEF OneTime
      <4>4. j \notin ended'
        BY <4>2 DEF Fired
      <4> QED
        BY <4>1, <4>2, <4>3, <4>4
    <3>2. CASE ~Add(w, j)
      <4>1. \A n \in Nat : Noted(j, n)' => Noted(j, n)
        BY <1>1, <3>2, NotedStep
      <4>2. clock' = clock /\ ever \subseteq ever'
        BY <1>1 DEF CronMove, Add, Cancel, RemoveOwner, Delete, Inspect, Changed, StartCron,
                    StopCron, Tick, RunJob, FinishJob, Reload, ForgetCron
      <4>3. ASSUME Fired(j)', ~Fired(j)
            PROVE  \E n \in Nat : Noted(j, n) /\ n <= clock
        <5>1. Tick(w) /\ j \in todo'[w]
          BY <1>1, <4>3, FiredStep DEF Fired
        <5>2. Loaded(w)[j] \in 1 .. clock /\ Loaded(w)[j] \in {snap[w][j], rows[j]}
          BY <5>1 DEF Tick, Due, Loaded, CronTypeOK
        <5> QED
          BY <5>2 DEF Noted, CronTypeOK
      <4>4. j \in ended' => rows'[j] = 0
        <5>1. CASE j \in ended
          BY <1>1, <3>2, <5>1, OneShotRows DEF OneTime
        <5>2. CASE j \in ended' /\ j \notin ended
          <6>1. FinishJob(w) /\ current[w] = j
            BY <1>1, <5>2 DEF CronMove, Add, Cancel, RemoveOwner, Delete, Inspect, Changed,
                 StartCron, StopCron, Tick, RunJob, FinishJob, Reload, ForgetCron
          <6> QED
            BY <6>1 DEF FinishJob, Drop, CronTypeOK
        <5> QED
          BY <5>1, <5>2
      <4>5. j \notin ever' => ~Fired(j)'
        BY <4>2, <4>3 DEF OneTime
      <4>6. Fired(j)' => \A n \in Nat : Noted(j, n)' => n <= clock'
        BY <4>1, <4>2, <4>3 DEF OneTime
      <4> QED
        BY <4>1, <4>2, <4>4, <4>5, <4>6 DEF OneTime
    <3> QED
      BY <3>1, <3>2
  <2>2. ASSUME NEW v \in Worker
        PROVE  current'[v] \notin todo'[v]
    <3>1. CASE Tick(w) /\ v = w
      BY <3>1 DEF Tick, Due, InTick, CronTypeOK
    <3>2. CASE \E i \in Job : RunJob(w, i)
      BY <3>2 DEF RunJob, OneTime, CronTypeOK
    <3>3. CASE ~Tick(w) /\ ~\E i \in Job : RunJob(w, i)
      <4>1. UNCHANGED <<todo[v], current[v]>> \/ current'[v] = NoJob
        BY <1>1, <3>3 DEF CronMove, CronTypeOK, local, Add, Cancel, RemoveOwner, Delete, Inspect,
             Changed, StartCron, StopCron, FinishJob, Reload, ForgetCron
      <4>2. todo'[v] \subseteq todo[v] /\ todo[v] \subseteq Job
        BY <1>1, <3>3, FiredStep DEF CronTypeOK
      <4> QED
        BY <4>1, <4>2 DEF OneTime
    <3>4. CASE Tick(w) /\ v # w
      BY <1>1, <3>4, FiredStep DEF OneTime
    <3> QED
      BY <3>1, <3>2, <3>3, <3>4
  <2> QED
    BY <2>1, <2>2 DEF OneTime
<1>2. CASE TimePasses
  BY <1>2 DEF TimePasses, OneTime, Fired, Noted, CronTypeOK, table, local
<1>3. CASE UNCHANGED cronVars
  BY <1>3 DEF cronVars, OneTime, Fired, Noted, table, local
<1> QED
  BY <1>1, <1>2, <1>3, CronMoves

LEMMA KeptAliveStep ==
  ASSUME LeaderInv, KeptAlive, [LeaderNext]_leaderVars
  PROVE  KeptAlive'
<1> USE DEF LeaderInv, LeaderTypeOK, KeptAlive, Fault, localVars, counters
<1>1. ASSUME NEW k \in Kind, Submit(k)
      PROVE  KeptAlive'
  BY <1>1 DEF Submit
<1>2. ASSUME NEW w \in Worker, Quiet(w)
      PROVE  KeptAlive'
  <2>1. CASE Heartbeat(w)
    BY <2>1 DEF Heartbeat
  <2>2. CASE ~Heartbeat(w)
    BY <1>2, <2>2 DEF Quiet, Start, StartService, Started, Read, Execute, Interrupt,
                      StopService, Close
  <2> QED
    BY <2>1, <2>2
<1>3. ASSUME NEW w \in Worker, Leases(w)
      PROVE  KeptAlive'
  <2>1. CASE AcquireLeader(w)
    BY <2>1 DEF AcquireLeader, HoldersOK
  <2>2. CASE AcquireUnanswered(w) \/ Ack(w) \/ Crash(w)
    BY <2>2 DEF AcquireUnanswered, Ack, Crash
  <2>3. CASE ReleaseLeader(w)
    BY <2>3 DEF ReleaseLeader, HandOver, HoldersOK
  <2> QED
    BY <1>3, <2>1, <2>2, <2>3 DEF Leases
<1>4. CASE ExpireLeader
  BY <1>4 DEF ExpireLeader
<1>5. CASE UNCHANGED leaderVars
  BY <1>5 DEF leaderVars
<1> QED
  BY <1>1, <1>2, <1>3, <1>4, <1>5, NextSplits

\* A step of the composition is one of the leader, of a notifier, or of others.
LEMMA LeaderSteps ==
  ASSUME [Next]_vars
  PROVE  [LeaderNext]_leaderVars \/ \E w \in Worker : Notify(w)
BY DEF Next, Lead, StartOne, StopOne, Handle, Leave, UseCron, RunCron, Die, LeaderNext,
       Supervise, vars

LEMMA OrderlyBefore ==
  ASSUME LeaderInv, [Next]_vars, Orderly'
  PROVE  Orderly
<1> USE DEF LeaderInv, LeaderTypeOK, Orderly, Fault
<1>1. ASSUME NEW w \in Worker, Notify(w)
      PROVE  Orderly
  BY <1>1 DEF Notify
<1>2. CASE [LeaderNext]_leaderVars
  <2>1. timedOut \subseteq timedOut' /\ stalls' \in {stalls, stalls + 1}
        /\ faults' \in {faults, faults + 1}
    BY <1>2, NextSplits
       DEF Submit, Quiet, Leases, ExpireLeader, leaderVars, localVars, counters, Start, StartService, Started, Read,
           Execute, Interrupt, StopService, Heartbeat, Close, AcquireLeader, AcquireUnanswered,
           Ack, ReleaseLeader, HandOver, Crash
  <2> QED
    BY <2>1
<1> QED
  BY <1>1, <1>2, LeaderSteps

\* In order, one loop runs at most.
LEMMA OneLoop ==
  ASSUME ServicesInv, KeptAlive, Orderly, NEW v \in ticking, NEW w \in ticking
  PROVE  v = w
<1>1. /\ v \in Worker /\ w \in Worker /\ serving[v] > 0 /\ serving[w] > 0
  BY CronServiceIsService, ServicesIsCount
     DEF ServicesInv, SchedulerIsService, CronTypeOK, LeaderInv, LeaderTypeOK
<1>2. held[v] # 0 /\ held[w] # 0
  BY <1>1 DEF ServicesInv, LeaderInv, HoldersOK
<1>3. held[v] = leader /\ held[w] = leader
  BY <1>1, <1>2 DEF ServicesInv, LeaderInv, HoldersOK, KeptAlive, Orderly
<1> QED
  BY <1>1, <1>2, <1>3 DEF ServicesInv, LeaderInv, HoldersOK

LEMMA LoopsForgetStep ==
  ASSUME ServicesInv, OneTime, KeptAlive, LoopsForget, [Next]_vars
  PROVE  LoopsForget'
<1> USE OneShotIsJob, NoJobIsNoJob
<1>0. /\ CronTypeOK /\ LeaderInv /\ SchedulerIsService
  BY DEF ServicesInv
<1>1. ASSUME Orderly', NEW w \in Worker, CronMove(w),
             NEW j \in OneShot \cap ended', NEW v \in ticking'
      PROVE  snap'[v][j] = 0 /\ j \notin todo'[v] /\ current'[v] # j
  <2>0. Orderly
    BY <1>0, <1>1, OrderlyBefore
  <2>1. CASE j \in ended /\ v \in ticking
    <3>1. rows[j] = 0 /\ snap[v][j] = 0 /\ j \notin todo[v] /\ current[v] # j
      BY <1>1, <2>0, <2>1 DEF LoopsForget, OneTime
    <3>2. v \in Worker /\ ~Add(w, j)
      BY <1>0, <2>1 DEF CronTypeOK, Add, OneTime, Fired
    <3>3. snap'[v][j] = 0
      BY <1>0, <1>1, <3>1, <3>2, OneShotRows
    <3>4. j \notin todo'[v]
      <4>1. CASE Tick(w) /\ v = w
        BY <1>0, <3>1, <4>1 DEF Tick, Due, Loaded, CronTypeOK
      <4>2. CASE ~(Tick(w) /\ v = w)
        BY <1>0, <1>1, <3>1, <3>2, <4>2, FiredStep
      <4> QED
        BY <4>1, <4>2
    <3> QED
      BY <1>0, <1>1, <3>1, <3>2, <3>3, <3>4, FiredStep
  <2>2. CASE j \in ended /\ v \notin ticking
    <3>1. StartCron(w) /\ v = w
      BY <1>1, <2>2 DEF CronMove, Add, Cancel, RemoveOwner, Delete, Inspect, Changed,
           StartCron, StopCron, Tick, RunJob, FinishJob, Reload, ForgetCron
    <3>2. Loaded(w)[j] \in Nat /\ (Loaded(w)[j] # 0 => Loaded(w)[j] <= clock)
      BY <1>0, <2>2, <3>1 DEF CronTypeOK, Loaded, OneTime, Fired, Noted
    <3>3. snap'[w][j] = 0
      BY <1>0, <3>1, <3>2 DEF StartCron, Keep, CronTypeOK
    <3> QED
      BY <1>0, <2>2, <3>1, <3>3 DEF StartCron, SchedulerIsService, InTick
  <2>3. CASE j \notin ended
    <3>1. FinishJob(w) /\ current[w] = j /\ ticking' = ticking
      BY <1>1, <2>3 DEF CronMove, Add, Cancel, RemoveOwner, Delete, Inspect, Changed,
           StartCron, StopCron, Tick, RunJob, FinishJob, Reload, ForgetCron
    <3>2. v = w
      BY <1>0, <1>1, <2>0, <3>1, OneLoop DEF SchedulerIsService, InTick
    <3>3. snap'[w][j] = 0 /\ todo'[w] = todo[w] /\ current'[w] = NoJob
      BY <1>0, <3>1 DEF FinishJob, Drop, Keep, CronTypeOK
    <3> QED
      BY <3>1, <3>2, <3>3 DEF OneTime
  <2> QED
    BY <2>1, <2>2, <2>3
<1>2. CASE TimePasses \/ UNCHANGED cronVars
  <2>1. UNCHANGED <<snap, todo, current, ended, ticking>>
    BY <1>2 DEF TimePasses, cronVars, local
  <2>2. Orderly' => Orderly
    BY <1>0, OrderlyBefore
  <2> QED
    BY <2>1, <2>2 DEF LoopsForget
<1> QED
  BY <1>1, <1>2, CronMoves DEF LoopsForget

(***************************************************************************)
(* However the leadership changes hands, a one-shot that ran to its end is *)
(* not run again, unless a lease ran out under a leader that stalled or    *)
(* whose call failed (services/cron/service.py start, _tick, _run_job).    *)
(***************************************************************************)
THEOREM OneShotsRunOnce == Spec => OneShotOnce
<1> DEFINE Inv == ServicesInv /\ OneTime /\ KeptAlive /\ LoopsForget
           Once == Orderly' => \A w \in Worker, j \in OneShot \cap ended :
                                 current'[w] = j => current[w] = j
<1>1. Init => OneTime /\ KeptAlive /\ LoopsForget
  BY NoJobIsNoJob, OneShotIsJob
     DEF Init, CronInit, LeaderInit, OneTime, Fired, Noted, KeptAlive, LoopsForget, Empty
<1>2. Inv /\ ServicesInv' /\ [Next]_vars => Inv'
  <2> SUFFICES ASSUME Inv, ServicesInv', [Next]_vars
               PROVE  Inv'
    OBVIOUS
  <2>1. KeptAlive'
    <3>1. ASSUME NEW w \in Worker, Notify(w)
          PROVE  KeptAlive'
      BY <3>1 DEF Notify, KeptAlive, Fault, localVars, ServicesInv, LeaderInv, LeaderTypeOK
    <3> QED
      BY <3>1, KeptAliveStep, LeaderSteps DEF ServicesInv
  <2> QED
    BY <2>1, OneTimeStep, LoopsForgetStep DEF ServicesInv
<1>3. Inv /\ [Next]_vars => [Once]_vars
  <2> SUFFICES ASSUME Inv, [Next]_vars, Orderly',
                      NEW w \in Worker, NEW j \in OneShot \cap ended, current'[w] = j
               PROVE  current[w] = j
    OBVIOUS
  <2>1. Orderly /\ CronTypeOK /\ SchedulerIsService
    BY OrderlyBefore DEF ServicesInv
  <2>2. j \in Job /\ j # NoJob
    BY OneShotIsJob, NoJobIsNoJob
  <2>3. ASSUME NEW v \in Worker, CronMove(v), current[w] # j
        PROVE  j \in todo[w]
    BY <2>1, <2>2, <2>3, FiredStep
  <2>4. j \notin todo[w]
    BY <2>1 DEF LoopsForget, SchedulerIsService, InTick
  <2>5. CASE TimePasses \/ UNCHANGED cronVars
    BY <2>5 DEF TimePasses, cronVars, local
  <2> QED
    BY <2>3, <2>4, <2>5, CronMoves
<1> QED
  BY <1>1, <1>2, <1>3, ServicesInvariant, ServicesInitInv, PTL DEF Spec, OneShotOnce
-----------------------------------------------------------------------------
(* The first leader overlooks nothing in the job table                     *)

\* The commands ahead of w: beyond the persisted cursor, or beyond the one in hand.
Ahead(w) == {p \in 1..Len(log) : p > IF phase[w] = "acking" THEN next[w] ELSE acked}

\* The snapshot of w will be replaced: w has not yet run its _changed, which
\* notifies the leader, or a reload is ahead of it.
Owed(w) == w \in busy \/ \E p \in Ahead(w) : log[p] = CronReload

\* The snapshot of w counts as loaded and is not the table.
Outdated(w) == seen[w] = revision /\ \E j \in Job : snap[w][j] # rows[j]

\* Nobody was told that it leads but the first leader, and no call failed.
FirstLead == issued <= 1 /\ faults = 0

Revisions ==
  /\ \A w \in Worker : seen[w] <= revision
  /\ revision = 0 => \A j \in Job : rows[j] = 0

RowsRead ==
  /\ acked <= Len(log)
  /\ \A w \in Worker :
       phase[w] \in {"draining", "acking"} => next[w] <= upto[w] /\ upto[w] <= Len(log)

\* The first leader, or before it everybody, reads from the persisted cursor,
\* also once its lease ran out.
FirstCursor ==
  FirstLead => \A w \in Worker : held[w] = issued =>
    /\ cursor[w] \in {0, acked}
    /\ phase[w] \in {"draining", "acking"} => next[w] = acked + 1

\* Before the leadership changes hands, a snapshot that is wrong will be replaced.
FirstKnows ==
  FirstLead => \A w \in Worker : (held[w] = issued /\ Outdated(w)) => Owed(w)

PickupInv == ServicesInv /\ Revisions /\ RowsRead /\ FirstCursor /\ FirstKnows

\* A write of the table changes its revision, a call that loads takes it over.
LEMMA RevisionsStep ==
  ASSUME CronTypeOK, Revisions, [Next]_vars
  PROVE  Revisions'
<1> USE OneShotIsJob DEF CronTypeOK, Revisions, table, local, Keep, Loaded
<1>1. ASSUME NEW w \in Worker, CronMove(w)
      PROVE  /\ revision' \in {revision, revision + 1}
             /\ seen' = seen \/ seen' = [seen EXCEPT ![w] = revision]
                             \/ seen' = [seen EXCEPT ![w] = 0]
             /\ revision' = 0 => \A j \in Job : rows'[j] = 0
  <2>1. CASE RemoveOwner(w) \/ \E j \in Job : Cancel(w, j)
    <3>1. PICK js \in SUBSET Job : \E out : Delete(w, js, out)
      BY <2>1, Deletions
    <3>2. PICK out : Delete(w, js, out)
      BY <3>1
    <3> QED
      BY <3>2 DEF Delete
  <2>2. CASE FinishJob(w)
    <3>1. current[w] \in Job /\ UNCHANGED seen
      BY <2>2 DEF FinishJob
    <3>2. Drop(w, current[w]) \/ Rearm(w, current[w])
      BY <2>2 DEF FinishJob
    <3> QED
      BY <3>1, <3>2 DEF Drop, Rearm
  <2>3. CASE StartCron(w)
    BY <2>3 DEF StartCron
  <2>4. CASE \E j \in Job : Add(w, j)
    BY <2>4 DEF Add
  <2>5. CASE \/ \E j \in Job : RunJob(w, j)
             \/ Inspect(w) \/ Changed(w) \/ StopCron(w)
             \/ Tick(w) \/ Reload(w) \/ ForgetCron(w)
    BY <2>5 DEF RunJob, Inspect, Changed, StopCron, Tick, Reload, ForgetCron
  <2> QED
    BY <1>1, <2>1, <2>2, <2>3, <2>4, <2>5 DEF CronMove
<1>2. ASSUME NEW w \in Worker, CronMove(w)
      PROVE  Revisions'
  <2>1. \A v \in Worker : seen'[v] \in {0, seen[v], revision}
    BY <1>1, <1>2
  <2> QED
    BY <1>1, <1>2, <2>1
<1>3. CASE TimePasses \/ UNCHANGED cronVars
  BY <1>3 DEF TimePasses, cronVars
<1> QED
  BY <1>2, <1>3, CronMoves

\* The steps of the scheduler in process w but for _changed.
Writes(w) ==
  \/ \E j \in Job : Add(w, j) \/ Cancel(w, j) \/ RunJob(w, j)
  \/ RemoveOwner(w) \/ Inspect(w) \/ StartCron(w) \/ StopCron(w)
  \/ Tick(w) \/ FinishJob(w) \/ Reload(w) \/ ForgetCron(w)

LEMMA StepSplits ==
  ASSUME [Next]_vars
  PROVE  \/ \E w \in Worker : Notify(w)
         \/ /\ LeaderNext \/ UNCHANGED leaderVars
            /\ (\E w \in Worker : Writes(w)) \/ TimePasses \/ UNCHANGED cronVars
BY DEF Next, Lead, StartOne, StopOne, Handle, Leave, UseCron, RunCron, Die, LeaderNext,
       Supervise, Writes, vars

(***************************************************************************)
(* Apart from _changed, which takes over the revision that others made, a  *)
(* snapshot becomes wrong unnoticed only by a write of its own process,    *)
(* whose _changed is then to come.                                         *)
(***************************************************************************)
LEMMA OutdatedStep ==
  ASSUME CronTypeOK, Revisions, NEW w \in Worker, Writes(w), NEW v \in Worker, Outdated(v)'
  PROVE  v \in busy' \/ (Outdated(v) /\ v \notin busy)
<1> USE OneShotIsJob DEF CronTypeOK, Revisions, Outdated, table, local, Keep, Loaded
<1>1. ASSUME NEW j \in Job, Add(w, j)
      PROVE  v \in busy' \/ (Outdated(v) /\ v \notin busy)
  BY <1>1 DEF Add
<1>2. CASE RemoveOwner(w)
  BY <1>2 DEF RemoveOwner, Delete, There
<1>3. ASSUME NEW j \in Job, Cancel(w, j)
      PROVE  v \in busy' \/ (Outdated(v) /\ v \notin busy)
  <2>1. Delete(w, {j}, There({j})) /\ There({j}) \subseteq {j}
    BY <1>3 DEF Cancel, There
  <2>2. CASE There({j}) = {}
    <3>1. rows'[j] = rows[j] /\ \A i \in Job \ {j} : rows'[i] = rows[i]
      BY <2>1, <2>2 DEF Delete, There
    <3>2. snap' = [snap EXCEPT ![w] = [i \in Job |-> Loaded(w)[i]]]
      BY <2>1, <2>2 DEF Delete
    <3>3. UNCHANGED <<revision, busy>> /\ seen' = [seen EXCEPT ![w] = revision]
      BY <2>1, <2>2 DEF Delete
    <3> QED
      BY <3>1, <3>2, <3>3
  <2>3. CASE There({j}) # {}
    <3>1. revision' = revision + 1 /\ busy' = busy \cup {w} /\ seen' = seen
      BY <2>1, <2>3 DEF Delete
    <3> QED
      BY <3>1
  <2> QED
    BY <2>2, <2>3
<1>4. CASE FinishJob(w)
  <2>1. current[w] \in Job /\ UNCHANGED seen /\ busy' = busy \cup {w}
    BY <1>4 DEF FinishJob
  <2>2. Drop(w, current[w]) \/ Rearm(w, current[w])
    BY <1>4 DEF FinishJob
  <2>3. v # w => snap'[v] = snap[v]
    BY <2>2 DEF Drop, Rearm
  <2>4. (revision' = revision + 1) \/ (revision' = revision /\ \A j \in Job : rows'[j] = rows[j])
    BY <2>1, <2>2 DEF Drop, Rearm
  <2> QED
    BY <2>1, <2>3, <2>4
<1>5. CASE StartCron(w)
  <2>1. CASE v = w
    <3> DEFINE late == {j \in OneShot : Loaded(w)[j] \in 1..clock}
    <3>1. CASE late = {}
      <4>1. /\ snap' = [snap EXCEPT ![w] = [j \in Job |-> Loaded(w)[j]]]
            /\ rows' = [j \in Job |-> rows[j]]
            /\ revision' = revision /\ busy' = busy /\ UNCHANGED stale
        BY <1>5, <3>1 DEF StartCron, There
      <4>2. seen' = [seen EXCEPT ![w] = revision] /\ w \notin busy
        BY <1>5, <3>1 DEF StartCron
      <4> QED
        BY <2>1, <4>1, <4>2
    <3>2. CASE late # {}
      BY <1>5, <2>1, <3>2 DEF StartCron
    <3> QED
      BY <3>1, <3>2
  <2>2. CASE v # w
    BY <1>5, <2>2 DEF StartCron, There
  <2> QED
    BY <2>1, <2>2
<1>6. CASE Inspect(w) \/ StopCron(w) \/ Tick(w) \/ \E j \in Job : RunJob(w, j)
  BY <1>6 DEF Inspect, StopCron, Tick, RunJob
<1>7. CASE Reload(w)
  BY <1>7 DEF Reload
<1>8. CASE ForgetCron(w)
  BY <1>8 DEF ForgetCron, Empty
<1> QED
  BY <1>1, <1>2, <1>3, <1>4, <1>5, <1>6, <1>7, <1>8 DEF Writes

\* Leases and failures are only ever added.
LEMMA FirstBefore ==
  ASSUME LeaderInv, LeaderNext, FirstLead'
  PROVE  FirstLead
<1>1. issued' \in {issued, issued + 1} /\ faults' \in {faults, faults + 1}
  BY NextSplits
     DEF Submit, Quiet, Leases, ExpireLeader, localVars, counters, Fault, Start, StartService,
         Started, Read, Execute, Interrupt, StopService, Heartbeat, Close, AcquireLeader,
         AcquireUnanswered, Ack, ReleaseLeader, HandOver, Crash
<1> QED
  BY <1>1 DEF LeaderInv, LeaderTypeOK, FirstLead

\* Whoever leads as the first has nobody before it.
LEMMA HeldBefore ==
  ASSUME LeaderInv, LeaderNext, FirstLead', NEW v \in Worker, held'[v] = issued'
  PROVE  held[v] = issued
<1>0. issued <= 1 /\ faults = 0 /\ issued' <= 1 /\ faults' = 0
  BY FirstBefore DEF FirstLead
<1> USE DEF LeaderInv, LeaderTypeOK, HoldersOK, Fault, localVars
<1>1. CASE (\E k \in Kind : Submit(k)) \/ ExpireLeader \/ \E w \in Worker : Quiet(w)
  BY <1>1 DEF Submit, ExpireLeader, Quiet, Start, StartService, Started, Read, Execute,
              Interrupt, StopService, Heartbeat, Close
<1>2. ASSUME NEW w \in Worker, AcquireLeader(w)
      PROVE  held[v] = issued
  BY <1>0, <1>2 DEF AcquireLeader
<1>3. ASSUME NEW w \in Worker, Ack(w) \/ AcquireUnanswered(w)
      PROVE  held[v] = issued
  BY <1>0, <1>3 DEF Ack, AcquireUnanswered
<1>4. ASSUME NEW w \in Worker, ReleaseLeader(w) \/ Crash(w)
      PROVE  held[v] = issued
  BY <1>4 DEF ReleaseLeader, HandOver, Crash
<1> QED
  BY <1>1, <1>2, <1>3, <1>4, NextSplits DEF Leases

\* What a step does to the commands ahead of whoever still leads.
LEMMA AheadStep ==
  ASSUME LeaderInv, RowsRead, FirstCursor, FirstLead', LeaderNext,
         NEW v \in Worker, held'[v] = issued', NEW p \in Ahead(v)
  PROVE  /\ held[v] = issued /\ log'[p] = log[p]
         /\ p \in Ahead(v)' \/ (p = next[v] /\ phase[v] = "draining" /\ phase'[v] = "acking")
<1>0. issued <= 1 /\ faults = 0 /\ issued' <= 1 /\ faults' = 0
  BY FirstBefore DEF FirstLead
<1> USE DEF LeaderInv, LeaderTypeOK, HoldersOK, RowsRead, Ahead, Goto, Fault,
            localVars, counters
<1>1. ASSUME NEW k \in Kind, Submit(k)
      PROVE  /\ held[v] = issued /\ log'[p] = log[p] /\ p \in Ahead(v)'
  BY <1>1 DEF Submit
<1>2. ASSUME NEW w \in Worker, Quiet(w)
      PROVE  /\ held[v] = issued /\ log'[p] = log[p]
             /\ \/ p \in Ahead(v)'
                \/ p = next[v] /\ phase[v] = "draining" /\ phase'[v] = "acking"
  <2>1. UNCHANGED <<issued, held, log, acked, next>> \/ (Read(w) /\ UNCHANGED <<issued, held, log, acked>>)
    BY <1>2 DEF Quiet, Start, StartService, Started, Read, Execute, Interrupt,
                StopService, Heartbeat, Close
  <2>2. held[v] = issued /\ (phase[v] \in {"draining", "acking"} => next[v] = acked + 1)
    BY <1>0, <1>2, <2>1 DEF FirstCursor, FirstLead
  <2>3. phase'[v] = "acking" =>
          /\ next'[v] = next[v]
          /\ phase[v] \in {"acking", "draining"}
    <3>1. CASE Execute(w)
      BY <3>1 DEF Execute
    <3>2. CASE Read(w)
      BY <3>2 DEF Read
    <3>3. CASE ~Execute(w) /\ ~Read(w)
      BY <1>2, <3>3 DEF Quiet, Start, StartService, Started, Interrupt, StopService,
                        Heartbeat, Close, Led
    <3> QED
      BY <3>1, <3>2, <3>3
  <2>4. UNCHANGED <<log, acked>> /\ p \in 1..Len(log) /\ acked \in Nat /\ next[v] \in Nat
    BY <2>1
  <2>5. p > acked
    BY <2>2, <2>4
  <2>6. CASE phase'[v] # "acking"
    BY <2>2, <2>4, <2>5, <2>6
  <2>7. CASE phase'[v] = "acking"
    BY <2>2, <2>3, <2>4, <2>5, <2>7
  <2> QED
    BY <2>6, <2>7
<1>3. ASSUME NEW w \in Worker, Leases(w)
      PROVE  /\ held[v] = issued /\ log'[p] = log[p] /\ p \in Ahead(v)'
  <2>1. CASE AcquireLeader(w)
    BY <1>0, <2>1 DEF AcquireLeader
  <2>2. CASE AcquireUnanswered(w)
    BY <1>0, <2>2 DEF AcquireUnanswered
  <2>3. CASE Ack(w)
    <3>1. UNCHANGED <<issued, held, log>> /\ held[v] = issued
      BY <2>3 DEF Ack
    <3>2. phase[v] = "acking" => next[v] = acked + 1
      BY <1>0, <3>1 DEF FirstCursor, FirstLead
    <3>3. held[w] # 0 /\ held[w] <= issued /\ issued \in Nat /\ held[w] \in Nat
      BY <2>3 DEF Ack, Led
    <3>4. v = w
      BY <1>0, <3>1, <3>3
    <3>5. CASE leader = held[w]
      <4>1. phase[v] = "acking" /\ acked' = next[v] /\ phase'[v] # "acking"
        BY <2>3, <3>4, <3>5 DEF Ack, Advance
      <4> QED
        BY <3>1, <4>1
    <3>6. CASE leader # held[w]
      <4>1. phase[v] = "acking" /\ acked' = acked /\ phase'[v] # "acking"
        BY <2>3, <3>4, <3>6 DEF Ack
      <4> QED
        BY <3>1, <3>2, <4>1
    <3> QED
      BY <3>5, <3>6
  <2>4. CASE ReleaseLeader(w)
    <3>1. v # w \/ issued = 0
      BY <2>4 DEF ReleaseLeader, HandOver
    <3>2. held[w] = 0 \/ issued # 0
      OBVIOUS
    <3>3. UNCHANGED <<issued, log, acked>> /\ held' = [held EXCEPT ![w] = 0]
      BY <2>4 DEF ReleaseLeader, HandOver
    <3>4. phase'[w] # "acking" /\ phase[w] # "acking" /\ \A u \in Worker \ {w} : phase'[u] = phase[u] /\ next'[u] = next[u]
      BY <2>4 DEF ReleaseLeader, HandOver
    <3> QED
      BY <3>1, <3>2, <3>3, <3>4
  <2>5. CASE Crash(w)
    <3>1. v # w \/ issued = 0
      BY <2>5 DEF Crash
    <3>2. held[w] = 0 \/ issued # 0
      OBVIOUS
    <3>3. UNCHANGED <<issued, log, acked>> /\ held' = [held EXCEPT ![w] = 0]
      BY <2>5 DEF Crash
    <3>4. phase'[w] # "acking" /\ \A u \in Worker \ {w} : phase'[u] = phase[u] /\ next'[u] = next[u]
      BY <2>5 DEF Crash
    <3>5. phase[w] = "acking" => held[w] # 0
      BY DEF Led
    <3> QED
      BY <3>1, <3>2, <3>3, <3>4, <3>5
  <2> QED
    BY <1>3, <2>1, <2>2, <2>3, <2>4, <2>5 DEF Leases
<1>4. CASE ExpireLeader
  BY <1>4 DEF ExpireLeader
<1> QED
  BY <1>1, <1>2, <1>3, <1>4, NextSplits

\* Nobody reads or acknowledges beyond the end of the command stream.
LEMMA RowsReadStep ==
  ASSUME LeaderInv, RowsRead, [LeaderNext]_leaderVars
  PROVE  RowsRead'
<1> USE DEF LeaderInv, LeaderTypeOK, RowsRead, Goto, localVars, counters
<1>1. ASSUME NEW k \in Kind, Submit(k)
      PROVE  RowsRead'
  BY <1>1 DEF Submit
<1>2. ASSUME NEW w \in Worker, Quiet(w)
      PROVE  RowsRead'
  <2>1. CASE Read(w)
    <3> DEFINE n == Len(log)
    <3>1. /\ UNCHANGED <<log, acked>>
          /\ next' = [next EXCEPT ![w] = From(w) + 1]
          /\ upto' = [upto EXCEPT ![w] = n]
          /\ \A v \in Worker \ {w} : phase'[v] = phase[v]
      BY <2>1 DEF Read
    <3>2. From(w) \in Nat /\ n \in Nat /\ From(w) < n
      BY <2>1 DEF Read, From
    <3> QED
      BY <3>1, <3>2
  <2>2. CASE ~Read(w)
    <3>1. UNCHANGED <<log, acked, next, upto>>
      BY <1>2, <2>2 DEF Quiet, Start, StartService, Started, Execute, Interrupt, StopService,
                        Heartbeat, Close
    <3>2. \A v \in Worker : phase'[v] \in {"draining", "acking"}
                              => phase[v] \in {"draining", "acking"}
      BY <1>2, <2>2 DEF Quiet, Start, StartService, Started, Execute, Interrupt, StopService,
                        Heartbeat, Close
    <3> QED
      BY <3>1, <3>2
  <2> QED
    BY <2>1, <2>2
<1>3. ASSUME NEW w \in Worker, Leases(w)
      PROVE  RowsRead'
  <2>1. CASE AcquireLeader(w) \/ AcquireUnanswered(w)
    BY <2>1 DEF AcquireLeader, AcquireUnanswered
  <2>2. CASE Ack(w)
    <3>1. CASE leader = held[w]
      <4>1. phase[w] = "acking" /\ next[w] \in Nat /\ upto[w] \in Nat /\ next[w] <= upto[w]
        BY <2>2 DEF Ack
      <4>2. /\ UNCHANGED <<log, upto>> /\ acked' = next[w]
            /\ next' = [next EXCEPT ![w] = next[w] + 1]
            /\ phase'[w] = IF next[w] = upto[w] THEN "loop" ELSE "draining"
            /\ \A v \in Worker \ {w} : phase'[v] = phase[v]
        BY <2>2, <3>1 DEF Ack, Advance
      <4> QED
        BY <4>1, <4>2
    <3>2. CASE leader # held[w]
      BY <2>2, <3>2 DEF Ack
    <3> QED
      BY <3>1, <3>2
  <2>3. CASE ReleaseLeader(w)
    BY <2>3 DEF ReleaseLeader, HandOver
  <2>4. CASE Crash(w)
    BY <2>4 DEF Crash
  <2> QED
    BY <1>3, <2>1, <2>2, <2>3, <2>4 DEF Leases
<1>4. CASE ExpireLeader \/ UNCHANGED leaderVars
  BY <1>4 DEF ExpireLeader, leaderVars
<1> QED
  BY <1>1, <1>2, <1>3, <1>4, NextSplits

\* The cursor of the first leader moves with the persisted one.
LEMMA FirstCursorStep ==
  ASSUME LeaderInv, FirstCursor, LeaderNext
  PROVE  FirstCursor'
<1> SUFFICES ASSUME FirstLead', NEW v \in Worker, held'[v] = issued'
             PROVE  /\ cursor'[v] \in {0, acked'}
                    /\ phase'[v] \in {"draining", "acking"} => next'[v] = acked' + 1
  BY DEF FirstCursor
<1>0. issued <= 1 /\ faults = 0 /\ issued' <= 1 /\ faults' = 0 /\ FirstLead
  BY FirstBefore DEF FirstLead
<1> USE DEF LeaderInv, LeaderTypeOK, HoldersOK, Goto, Fault, localVars, counters
<1> DEFINE Reads == /\ cursor[v] \in {0, acked}
                    /\ phase[v] \in {"draining", "acking"} => next[v] = acked + 1
           Follows == /\ cursor'[v] \in {0, acked'}
                      /\ phase'[v] \in {"draining", "acking"} => next'[v] = acked' + 1
<1>a. held[v] = issued => Reads
  BY <1>0 DEF FirstCursor
<1>1. ASSUME NEW k \in Kind, Submit(k)
      PROVE  Follows
  BY <1>1, <1>a DEF Submit
<1>2. ASSUME NEW w \in Worker, Quiet(w)
      PROVE  Follows
  <2>1. CASE Read(w)
    BY <1>a, <2>1 DEF Read, From
  <2>2. CASE ~Read(w)
    BY <1>2, <1>a, <2>2
       DEF Quiet, Start, StartService, Started, Execute, Interrupt, StopService, Heartbeat, Close
  <2> QED
    BY <2>1, <2>2
<1>3. ASSUME NEW w \in Worker, Leases(w)
      PROVE  Follows
  <2>1. CASE AcquireLeader(w)
    <3>1. issued = 0 /\ held[v] = issued
      BY <1>0, <2>1 DEF AcquireLeader
    <3>2. v = w
      BY <2>1, <3>1 DEF AcquireLeader
    <3> QED
      BY <1>a, <2>1, <3>1, <3>2 DEF AcquireLeader
  <2>2. CASE AcquireUnanswered(w)
    BY <1>0, <2>2 DEF AcquireUnanswered
  <2>3. CASE Ack(w)
    <3>1. held[v] = issued /\ held[w] # 0 /\ held[w] <= issued /\ held[w] \in Nat
      BY <2>3 DEF Ack, Led
    <3>2. v = w
      BY <1>0, <3>1
    <3>3. CASE leader = held[w]
      BY <2>3, <3>2, <3>3 DEF Ack, Advance
    <3>4. CASE leader # held[w]
      BY <1>a, <2>3, <3>1, <3>2, <3>4 DEF Ack
    <3> QED
      BY <3>3, <3>4
  <2>4. CASE ReleaseLeader(w)
    BY <1>a, <2>4 DEF ReleaseLeader, HandOver
  <2>5. CASE Crash(w)
    BY <1>a, <2>5 DEF Crash
  <2> QED
    BY <1>3, <2>1, <2>2, <2>3, <2>4, <2>5 DEF Leases
<1>4. CASE ExpireLeader
  BY <1>4, <1>a DEF ExpireLeader
<1> QED
  BY <1>1, <1>2, <1>3, <1>4, NextSplits

\* A notification appends a reload, and the commands that were ahead stay ahead.
LEMMA NotifyOwes ==
  ASSUME LeaderInv, RowsRead, NEW w \in Worker, Notify(w), FirstLead', FirstLead,
         NEW v \in Worker
  PROVE  Owed(v)' /\ held'[v] = held[v] /\ issued' = issued
<1> DEFINE n == Len(log)
<1>1. n \in Nat /\ faults \in Nat /\ acked <= n /\ log \in Seq(Kind)
  BY DEF LeaderInv, LeaderTypeOK, RowsRead
<1>2. UNCHANGED <<issued, held, acked, phase, next>> /\ log' = Append(log, CronReload)
  BY <1>1 DEF Notify, Fault, FirstLead, localVars
<1>3. Len(log') = n + 1 /\ log'[n + 1] = CronReload
  BY <1>1, <1>2, CronReloadIsKind
<1>4. phase[v] = "acking" => next[v] <= n
  BY DEF LeaderInv, LeaderTypeOK, RowsRead
<1>5. next[v] \in Nat /\ acked \in Nat
  BY DEF LeaderInv, LeaderTypeOK
<1>6. n + 1 \in 1..(n + 1) /\ n + 1 > (IF phase[v] = "acking" THEN next[v] ELSE acked)
  BY <1>1, <1>4, <1>5
<1>7. n + 1 \in Ahead(v)'
  BY <1>2, <1>3, <1>6 DEF Ahead
<1> QED
  BY <1>2, <1>3, <1>7 DEF Owed

\* Only the handler moves a supervisor from draining to acknowledging.
LEMMA HandlerRan ==
  ASSUME LeaderTypeOK, [Next]_vars,
         NEW v \in Worker, phase[v] = "draining", phase'[v] = "acking"
  PROVE  Handle(v)
<1> USE DEF LeaderTypeOK, Goto, localVars
<1>1. ASSUME NEW w \in Worker, StartOne(w) \/ StopOne(w) \/ Leave(w)
      PROVE  FALSE
  BY <1>1 DEF StartOne, StopOne, Leave, StartService, StopService, ReleaseLeader, HandOver
<1>2. ASSUME NEW w \in Worker, AcquireLeader(w) \/ Started(w) \/ Read(w)
      PROVE  FALSE
  BY <1>2 DEF AcquireLeader, Started, Read
<1>3. ASSUME NEW w \in Worker, Ack(w)
      PROVE  FALSE
  BY <1>3 DEF Ack, Advance
<1>4. ASSUME NEW w \in Worker, Handle(w)
      PROVE  v = w
  BY <1>4 DEF Handle, Execute
<1>5. ASSUME NEW w \in Worker, UseCron(w) \/ RunCron(w) \/ Notify(w) \/ Die(w)
      PROVE  FALSE
  BY <1>5 DEF UseCron, RunCron, Notify, Die, Crash, leaderVars
<1>6. ASSUME NEW w \in Worker,
             Start(w) \/ Interrupt(w) \/ Heartbeat(w) \/ AcquireUnanswered(w) \/ Close(w)
      PROVE  FALSE
  BY <1>6 DEF Start, Interrupt, Heartbeat, AcquireUnanswered, Close
<1>7. CASE ExpireLeader \/ (\E k \in Kind : Submit(k)) \/ UNCHANGED leaderVars
  BY <1>7 DEF ExpireLeader, Submit, leaderVars
<1> QED
  BY <1>1, <1>2, <1>3, <1>4, <1>5, <1>6, <1>7 DEF Next, Lead, vars

LEMMA FirstKnowsStep ==
  ASSUME ServicesInv, Revisions, RowsRead, FirstCursor, FirstKnows, [Next]_vars
  PROVE  FirstKnows'
<1> SUFFICES ASSUME FirstLead', NEW v \in Worker, held'[v] = issued', Outdated(v)'
             PROVE  Owed(v)'
  BY DEF FirstKnows
<1>0. LeaderInv /\ CronTypeOK /\ LeaderTypeOK
  BY DEF ServicesInv, LeaderInv
<1>1. ASSUME NEW w \in Worker, Notify(w)
      PROVE  Owed(v)'
  <2>1. FirstLead
    BY <1>0, <1>1 DEF Notify, Fault, FirstLead, LeaderTypeOK
  <2> QED
    BY <1>0, <1>1, <2>1, NotifyOwes
<1>2. ASSUME LeaderNext \/ UNCHANGED leaderVars,
             (\E w \in Worker : Writes(w)) \/ TimePasses \/ UNCHANGED cronVars,
             v \notin busy'
      PROVE  Owed(v)'
  <2>1. Outdated(v) /\ v \notin busy
    <3>1. CASE \E w \in Worker : Writes(w)
      BY <1>0, <1>2, <3>1, OutdatedStep
    <3>2. CASE TimePasses \/ UNCHANGED cronVars
      BY <1>2, <3>2 DEF TimePasses, cronVars, table, local, Outdated
    <3> QED
      BY <1>2, <3>1, <3>2
  <2>2. FirstLead /\ held[v] = issued
    <3>1. CASE LeaderNext
      BY <1>0, <3>1, FirstBefore, HeldBefore
    <3>2. CASE UNCHANGED leaderVars
      BY <3>2 DEF leaderVars, localVars, FirstLead
    <3> QED
      BY <1>2, <3>1, <3>2
  <2>3. PICK p \in Ahead(v) : log[p] = CronReload
    BY <2>1, <2>2 DEF FirstKnows, Owed
  <2>4. log'[p] = CronReload /\ p \in Ahead(v)'
    <3>1. CASE UNCHANGED leaderVars
      BY <2>3, <3>1 DEF leaderVars, localVars, Ahead
    <3>2. CASE LeaderNext
      <4>1. ASSUME p = next[v], phase[v] = "draining", phase'[v] = "acking"
            PROVE  FALSE
        <5>1. Handle(v)
          BY <1>0, <4>1, HandlerRan
        <5>2. Reload(v)
          BY <2>3, <4>1, <5>1 DEF Handle
        <5> QED
          BY <1>0, <5>2 DEF Reload, Keep, Outdated, CronTypeOK, table
      <4> QED
        BY <1>0, <2>3, <3>2, <4>1, AheadStep
    <3> QED
      BY <1>2, <3>1, <3>2
  <2> QED
    BY <2>4 DEF Owed
<1> QED
  BY <1>1, <1>2, StepSplits DEF Owed

LEMMA PickupNext == PickupInv /\ ServicesInv' /\ [Next]_vars => PickupInv'
<1> SUFFICES ASSUME PickupInv, ServicesInv', [Next]_vars
             PROVE  PickupInv'
  OBVIOUS
<1>0. LeaderInv /\ CronTypeOK
  BY DEF PickupInv, ServicesInv
<1>1. RowsRead' /\ FirstCursor'
  <2>1. ASSUME NEW w \in Worker, Notify(w)
        PROVE  RowsRead' /\ FirstCursor'
    <3>1. UNCHANGED <<issued, held, acked, phase, cursor, next, upto>>
      BY <2>1 DEF Notify, localVars
    <3>2. Len(log') >= Len(log) /\ Len(log) \in Nat /\ Len(log') \in Nat
      BY <1>0, <2>1, CronReloadIsKind DEF Notify, Fault, LeaderInv, LeaderTypeOK
    <3>3. FirstLead' => FirstLead
      BY <1>0, <2>1 DEF Notify, Fault, FirstLead, LeaderInv, LeaderTypeOK
    <3>4. RowsRead'
      <4>1. acked \in Nat /\ upto \in [Worker -> Nat]
        BY <1>0 DEF LeaderInv, LeaderTypeOK
      <4> QED
        BY <3>1, <3>2, <4>1 DEF PickupInv, RowsRead
    <3> QED
      BY <3>1, <3>3, <3>4 DEF PickupInv, FirstCursor
  <2>2. CASE LeaderNext
    BY <1>0, <2>2, RowsReadStep, FirstCursorStep DEF PickupInv
  <2>3. CASE UNCHANGED leaderVars
    BY <2>3 DEF leaderVars, localVars, PickupInv, RowsRead, FirstCursor, FirstLead
  <2> QED
    BY <2>1, <2>2, <2>3, LeaderSteps
<1> QED
  BY <1>0, <1>1, RevisionsStep, FirstKnowsStep DEF PickupInv

LEMMA PickupInvariant == Spec => []PickupInv
<1>1. Init => Revisions /\ RowsRead /\ FirstCursor /\ FirstKnows
  BY DEF Init, LeaderInit, CronInit, Revisions, RowsRead, FirstCursor, FirstKnows, FirstLead,
         Outdated, Empty
<1> QED
  BY <1>1, PickupNext, ServicesInvariant, ServicesInitInv, PTL DEF Spec, PickupInv

(***************************************************************************)
(* Before the leadership changes hands and while no call fails, a snapshot *)
(* of the leader that is wrong and counts as loaded will be replaced: its  *)
(* process is about to run _changed, or the reload that another process    *)
(* submitted after its write is ahead of the command loop.                 *)
(***************************************************************************)
THEOREM WrongSnapshotsAreReplaced == Spec => []FirstKnows
<1>1. PickupInv => FirstKnows
  BY DEF PickupInv
<1> QED
  BY <1>1, PickupInvariant, PTL

(***************************************************************************)
(* So the first leader's loop passes over no job, whatever the other       *)
(* processes do to the table (services/cron/service.py _MAX_SLEEP_SECONDS);*)
(* a run shows that this does not hold of the leaders after it, whose      *)
(* start() trusts a snapshot that no command corrects any more.            *)
(***************************************************************************)
THEOREM FirstLeaderPicksUp == Spec => [](FirstLead => TableIsPickedUp)
<1>1. PickupInv => (FirstLead => TableIsPickedUp)
  <2> SUFFICES ASSUME PickupInv, FirstLead,
                      NEW w \in Worker, NEW j \in Job, Overlooked(w, j)
               PROVE  FALSE
    BY DEF TableIsPickedUp
  <2>1. LeaderTypeOK /\ HoldersOK /\ SchedulerIsService /\ CronTypeOK
    BY DEF PickupInv, ServicesInv, LeaderInv
  <2>2. serving[w] > 0
    BY <2>1, CronServiceIsService, ServicesIsCount DEF Overlooked, SchedulerIsService, LeaderTypeOK
  <2>3. held[w] # 0 /\ held[w] <= issued /\ issued <= 1 /\ held[w] \in Nat /\ issued \in Nat
    BY <2>1, <2>2 DEF HoldersOK, FirstLead, LeaderTypeOK
  <2>4. held[w] = issued
    BY <2>3
  <2>5. Owed(w)
    BY <2>4 DEF PickupInv, FirstKnows, Overlooked, Outdated
  <2>6. PICK p \in Ahead(w) : log[p] = CronReload
    BY <2>5 DEF Owed, Overlooked
  <2>7. p \in 1..Len(log) /\ p > (IF phase[w] = "acking" THEN next[w] ELSE acked)
    BY <2>6 DEF Ahead
  <2>8. acked = Len(log) /\ acked \in Nat /\ (phase[w] = "acking" => next[w] = acked + 1)
    BY <2>1, <2>4 DEF PickupInv, FirstCursor, Overlooked, LeaderTypeOK
  <2> QED
    BY <2>7, <2>8
<1> QED
  BY <1>1, PickupInvariant, PTL
=============================================================================
