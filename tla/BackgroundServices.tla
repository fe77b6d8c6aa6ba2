-------------------------- MODULE BackgroundServices --------------------------
(***************************************************************************)
(* The wiring of deeptutor/api/main.py: the cron scheduler is one of the   *)
(* services that BackgroundLeader starts and stops, a change of the job    *)
(* table submits a CRON_RELOAD command from whichever process made it, and *)
(* the leader's handler of that command reloads its scheduler.             *)
(***************************************************************************)
EXTENDS BackgroundLeader, CronScheduler

CONSTANTS
  CronReload,    \* the kind of the reload command
  CronService    \* position of the scheduler among the services

ASSUME CronReloadIsKind == CronReload \in Kind \ Poison
ASSUME CronServiceIsService == CronService \in 1..Services

vars == <<leaderVars, cronVars>>

TypeOK == LeaderTypeOK /\ CronTypeOK

Init == LeaderInit /\ CronInit

\* Calls of the service, in any process that runs.
UseCron(w) ==
  /\ phase[w] # "off"
  /\ \/ \E j \in Job : Add(w, j) \/ Cancel(w, j)
     \/ RemoveOwner(w)
     \/ Inspect(w)
  /\ UNCHANGED leaderVars

RunCron(w) ==
  /\ \/ Tick(w) \/ FinishJob(w)
     \/ \E j \in Job : RunJob(w, j)
  /\ UNCHANGED leaderVars

\* Mutation: nobody is told of the change.
NotifyNobody(w) == Changed(w) /\ UNCHANGED leaderVars

\* _changed and the notifier's task, which may fail to submit its command.
Notify(w) ==
  /\ Changed(w)
  /\ \/ log' = Append(log, CronReload) /\ UNCHANGED faults
     \/ Fault /\ UNCHANGED log
  /\ UNCHANGED <<leader, issued, acked, localVars, timedOut, handled, stalls, exits>>

StartOne(w) ==
  /\ StartService(w)
  /\ IF serving[w] + 1 = CronService THEN StartCron(w) ELSE UNCHANGED cronVars

StopOne(w) ==
  /\ StopService(w)
  /\ IF serving[w] = CronService THEN StopCron(w) ELSE UNCHANGED cronVars

\* _handle_background_command
Handle(w) ==
  /\ Execute(w)
  /\ IF log[next[w]] = CronReload THEN Reload(w) ELSE UNCHANGED cronVars

\* The process ends with its supervisor.
Leave(w) ==
  \/ ReleaseLeader(w) /\ phase[w] = "losing" /\ UNCHANGED cronVars
  \/ ReleaseLeader(w) /\ phase[w] = "closing" /\ w \notin busy /\ ForgetCron(w)

Die(w) == Crash(w) /\ ForgetCron(w)

Lead(w) ==
  \/ StartOne(w) \/ StopOne(w) \/ Handle(w) \/ Leave(w)
  \/ /\ AcquireLeader(w) \/ Started(w) \/ Read(w) \/ Ack(w)
     /\ UNCHANGED cronVars

Next ==
  \/ \E w \in Worker :
       \/ Lead(w) \/ UseCron(w) \/ RunCron(w) \/ Notify(w) \/ Die(w)
       \/ /\ \/ Start(w) \/ Interrupt(w) \/ Heartbeat(w)
             \/ AcquireUnanswered(w) \/ Close(w)
          /\ UNCHANGED cronVars
  \/ /\ ExpireLeader \/ \E k \in Kind \ {CronReload} : Submit(k)
     /\ UNCHANGED cronVars
  \/ TimePasses /\ UNCHANGED leaderVars

Spec == Init /\ [][Next]_vars

(***************************************************************************)
(* Every process and its timers keep running, and a lease that nobody      *)
(* renews runs out.  Nothing makes a process crash, close, stall or call.  *)
(***************************************************************************)
Fairness ==
  /\ \A w \in Worker :
       /\ WF_vars(Lead(w)) /\ WF_vars(RunCron(w)) /\ WF_vars(Notify(w))
       /\ WF_vars(Start(w) /\ UNCHANGED cronVars)
       /\ WF_vars(Notice(w) /\ UNCHANGED cronVars)
  /\ WF_vars(ExpireAbandoned /\ UNCHANGED cronVars)
  /\ WF_vars(TimePasses /\ UNCHANGED leaderVars)

FairSpec == Spec /\ Fairness

-----------------------------------------------------------------------------
(***************************************************************************)
(* A job runs only in a process that holds a leader lease object and whose *)
(* scheduler was started and not yet stopped: a worker that handed the     *)
(* leadership over is not still running the jobs its successor will run.   *)
(***************************************************************************)
JobsRunUnderLeadership ==
  \A w \in Worker :
    InTick(w) => held[w] # 0 /\ serving[w] >= CronService

\* No lease ran out, or only leases whose process died or closed: no holder was
\* too slow for its heartbeat, and no call failed.
Orderly == timedOut = {} \/ (stalls = 0 /\ faults = 0)

(***************************************************************************)
(* A one-shot job whose run ended is not run again, across handovers,      *)
(* reloads, crashes and the leaders that follow them, as long as no lease  *)
(* ran out under its leader (services/cron/service.py start, _run_job).    *)
(***************************************************************************)
OneShotOnce ==
  [][Orderly' => \A w \in Worker, j \in OneShot \cap ended :
                   current'[w] = j => current[w] = j]_vars

(***************************************************************************)
(* The loop of process w passes over job j: its snapshot counts as loaded, *)
(* so that no tick reads the table again, but says something else of j,    *)
(* and neither a _changed nor a command is to come.                        *)
(***************************************************************************)
Overlooked(w, j) ==
  /\ w \in ticking /\ busy = {} /\ acked = Len(log)
  /\ seen[w] = revision /\ snap[w][j] # rows[j]

(***************************************************************************)
(* The loop finds out what other processes did to the table: "it picks up  *)
(* externally-edited stores within a minute" (services/cron/service.py,    *)
(* _MAX_SLEEP_SECONDS).                                                    *)
(***************************************************************************)
TableIsPickedUp == \A w \in Worker, j \in Job : ~Overlooked(w, j)

(***************************************************************************)
(* A repeating job that is not removed is run, whichever process created   *)
(* it and whichever leads, unless the loop of a later leader passes over   *)
(* it; the first leader's has no such excuse.                              *)
(***************************************************************************)
AddedJobRuns ==
  \A j \in Job \ OneShot :
    (rows[j] \in 1..Horizon)
      ~> \/ j \in begun \cup gone
         \/ issued > 1 /\ \E w \in Worker : Overlooked(w, j)
=============================================================================
