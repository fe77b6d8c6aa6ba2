------------------------- MODULE ManagedUpdates_proofs -------------------------
(***************************************************************************)
(* Proofs about managed updates, for any server processes and turns.       *)
(*                                                                         *)
(* ReservedStaysIdle is not inductive.  That a start which was admitted    *)
(* before the reservation is refused afterwards needs Idle, that the       *)
(* reserver does not accept turns, and Slot, that "active" is there as     *)
(* long as the job is in progress, since a process without it thaws.  Slot *)
(* depends on who may write the job at which point: Phases.  Placed says   *)
(* that a turn under way is in some process.  LookedAfter names who goes   *)
(* on with a job, for each of its statuses.                                *)
(***************************************************************************)
EXTENDS ManagedUpdates, TLAPS

\* What the launcher and the worker are at, and what the job says meanwhile.
Phases ==
  /\ launcher = "off" => reserver = NoBackend /\ ~creating
  /\ launcher \in {"handing", "stopping"} => job.status = "handoff"
  /\ launcher = "unhanding" => job.status = "failed"
  /\ launcher = "completing" => job.status = "succeeded"
  /\ updater # "none" => launcher = "off" \/ (launcher = "stopping" /\ updater = "waiting")
  /\ updater = "waiting" => job.status = "handoff"
  /\ updater = "installing" => job.status = "running"
  /\ updater = "failing" => job.status = "failed"

Slot ==
  /\ job.status \in InProgress \/ launcher \in {"unhanding", "completing"} => marker # 0
  /\ creating => /\ marker # 0 /\ job.status \notin InProgress
                 /\ launcher \in {"starting", "up"} /\ reserver # NoBackend

Idle ==
  /\ creating => LiveIn(reserver) = {}
  /\ reserver # NoBackend /\ job.status \in InProgress
       => reserver \notin accepting /\ LiveIn(reserver) = {}

Placed == \A c \in Chat : chat[c] # "new" => server[c] \in Backend

UpdateInv == UpdateTypeOK /\ Phases /\ Slot /\ Idle /\ Placed

-----------------------------------------------------------------------------
(* The steps of the turns *)

LEMMA TurnKeepsInv ==
  ASSUME UpdateInv,
         \E c \in Chat : Register(c) \/ EndChat(c) \/ \E b \in Backend : Admit(c, b)
  PROVE  UpdateInv'
<1> USE DEF UpdateInv, UpdateTypeOK, Smoothly, jobVars, processVars, Thaw
<1>1. UNCHANGED <<job, marker, reserver, creating, launcher, updater, mishaps, reboots>>
  BY DEF Register, EndChat, Admit
<1>2. Phases' /\ Slot'
  BY <1>1 DEF Phases, Slot
<1>3. UpdateTypeOK'
  <2>1. ASSUME NEW c \in Chat, Register(c) \/ EndChat(c)
        PROVE  UpdateTypeOK'
    <3>1. /\ accepting' \subseteq Backend
          /\ chat' \in [Chat -> {"new", "admitted", "live", "over"}]
          /\ UNCHANGED server
      BY <2>1, NoBackendIsNone DEF Register, EndChat, Placed
    <3> QED
      BY <3>1, <1>1
  <2>2. ASSUME NEW c \in Chat, NEW b \in Backend, Admit(c, b)
        PROVE  UpdateTypeOK'
    BY <2>2, <1>1 DEF Admit
  <2> QED
    BY <2>1, <2>2
<1>4. Idle'
  <2>1. ASSUME NEW c \in Chat, Register(c)
        PROVE  Idle'
    BY <2>1, <1>1 DEF Register, Idle, Slot, Serving, Blocked, LiveIn
  <2>2. ASSUME NEW c \in Chat, EndChat(c)
        PROVE  Idle'
    BY <2>2, <1>1 DEF EndChat, Idle, LiveIn
  <2>3. ASSUME NEW c \in Chat, NEW b \in Backend, Admit(c, b)
        PROVE  Idle'
    BY <2>3, <1>1 DEF Admit, Idle, Slot, Serving, Blocked, LiveIn
  <2> QED
    BY <2>1, <2>2, <2>3
<1>5. Placed'
  BY DEF Register, EndChat, Admit, Placed
<1> QED
  BY <1>2, <1>3, <1>4, <1>5

-----------------------------------------------------------------------------
(* The steps of the job *)

LEMMA ReserveKeepsInv ==
  ASSUME UpdateInv, (\E b \in Backend : Reserve(b)) \/ WriteJob
  PROVE  UpdateInv'
<1> USE NoBackendIsNone, UpdateBounds
        DEF UpdateInv, UpdateTypeOK, Smoothly, Mishap, admissionVars, processVars
<1>1. ASSUME NEW b \in Backend, Reserve(b)
      PROVE  UpdateInv'
  <2>1. UpdateTypeOK'
    BY <1>1 DEF Reserve
  <2>2. Phases'
    BY <1>1 DEF Reserve, Phases, Serving
  <2>3. Slot'
    BY <1>1 DEF Reserve, Slot, Phases, Serving, InProgress
  <2>4. Idle' /\ Placed'
    BY <1>1, <2>3 DEF Reserve, Idle, Slot, LiveIn, Placed
  <2> QED
    BY <2>1, <2>2, <2>3, <2>4
<1>2. CASE WriteJob
  <2>1. UpdateTypeOK'
    <3>1. /\ job' \in [id : 0..MaxJobs, status : InProgress \cup Ended \cup {"none"}]
          /\ marker' \in 0..MaxJobs /\ mishaps' \in 0..MaxMishaps
      BY <1>2 DEF WriteJob, InProgress
    <3>2. accepting' \subseteq Backend /\ reserver' \in Backend \cup {NoBackend}
      BY <1>2 DEF WriteJob
    <3> QED
      BY <1>2, <3>1, <3>2 DEF WriteJob
  <2>2. Phases'
    BY <1>2 DEF WriteJob, Phases, Slot
  <2>3. Slot'
    BY <1>2 DEF WriteJob, Slot
  <2>4. Idle' /\ Placed'
    BY <1>2 DEF WriteJob, Idle, Slot, LiveIn, Placed
  <2> QED
    BY <2>1, <2>2, <2>3, <2>4
<1> QED
  BY <1>1, <1>2

\* The launcher and the worker write the job and change neither the turns nor
\* what the servers accept, unless they stop them.
LEMMA RunningKeepsInv ==
  ASSUME UpdateInv,
         \/ Poll \/ HandOff \/ EndJob \/ StartByHand
         \/ Install \/ Installed \/ EndFailed \/ RestartLauncher
  PROVE  UpdateInv'
<1> USE DEF UpdateInv, Smoothly, Mishap, Write, LauncherTo, UpdaterTo, ReleaseJob, jobVars
<1>1. UpdateTypeOK'
  BY UpdateBounds DEF UpdateTypeOK, InProgress, Ended, Poll, HandOff, EndJob,
       StartByHand, Install, Installed, EndFailed, RestartLauncher, admissionVars
<1>2. Phases'
  BY DEF UpdateTypeOK, Phases, Poll, HandOff, EndJob, StartByHand, Install, Installed,
       EndFailed, RestartLauncher
<1>3. Slot'
  BY DEF UpdateTypeOK, Phases, Slot, InProgress, Poll, HandOff, EndJob, StartByHand,
       Install, Installed, EndFailed, RestartLauncher
<1>4. Idle' /\ Placed'
  <2>1. UNCHANGED <<accepting, chat, server, creating>> /\ reserver' \in {reserver, NoBackend}
    BY DEF Poll, HandOff, EndJob, StartByHand, Install, Installed, EndFailed,
         RestartLauncher, admissionVars
  <2>2. reserver' # NoBackend /\ job'.status \in InProgress => job.status \in InProgress
    BY DEF UpdateTypeOK, Phases, InProgress, Poll, HandOff, EndJob, StartByHand,
         Install, Installed, EndFailed, RestartLauncher
  <2>3. creating' => reserver' = reserver
    BY <1>3, <2>1 DEF Slot
  <2> QED
    BY <2>1, <2>2, <2>3 DEF Idle, LiveIn, Placed
<1> QED
  BY <1>1, <1>2, <1>3, <1>4

LEMMA EndingKeepsInv ==
  ASSUME UpdateInv, Ready \/ StopServers \/ StopLauncher \/ Reboot
  PROVE  UpdateInv'
<1> USE UpdateBounds DEF UpdateInv, Smoothly, Mishap
<1>1. ASSUME ServersGone, updater' \in {updater, "none"},
             mishaps' \in 0..MaxMishaps, reboots' \in 0..MaxReboots
      PROVE  UpdateInv'
  <2>1. UpdateTypeOK'
    BY <1>1 DEF ServersGone, UpdateTypeOK
  <2>2. Phases' /\ Slot'
    BY <1>1 DEF ServersGone, UpdateTypeOK, Phases, Slot
  <2>3. Idle' /\ Placed'
    BY <1>1 DEF ServersGone, Idle, Placed, UpdateTypeOK
  <2> QED
    BY <2>1, <2>2, <2>3
<1>2. CASE StopServers \/ StopLauncher \/ Reboot
  BY <1>1, <1>2 DEF StopServers, StopLauncher, Reboot, UpdateTypeOK
<1>3. CASE Ready
  <2>1. CASE ServersGone
    BY <1>1, <1>3, <2>1 DEF Ready, UpdateTypeOK, LauncherTo
  <2>2. ASSUME ~ServersGone
        PROVE  UpdateInv'
    <3> USE DEF LauncherTo, Write, jobVars, admissionVars, InProgress, Ended
    <3>1. UpdateTypeOK'
      BY <1>3, <2>2 DEF Ready, UpdateTypeOK
    <3>2. Phases' /\ Slot'
      BY <1>3, <2>2 DEF Ready, UpdateTypeOK, Phases, Slot
    <3>3. Idle' /\ Placed'
      BY <1>3, <2>2 DEF Ready, UpdateTypeOK, Slot, Idle, LiveIn, Placed
    <3> QED
      BY <3>1, <3>2, <3>3
  <2> QED
    BY <2>1, <2>2
<1> QED
  BY <1>2, <1>3

-----------------------------------------------------------------------------
LEMMA UpdateInvHolds == UpdateSpec => []UpdateInv
<1>1. UpdateInit => UpdateInv
  <2> USE DEF UpdateInit
  <2>1. UpdateInit => UpdateTypeOK
    <3>1. 0 \in 0..MaxJobs /\ 0 \in 0..MaxMishaps /\ 0 \in 0..MaxReboots
      BY UpdateBounds
    <3>2. UpdateInit => job \in [id : 0..MaxJobs, status : InProgress \cup Ended \cup {"none"}]
      BY <3>1
    <3> QED
      BY <3>1, <3>2 DEF UpdateTypeOK
  <2>2. UpdateInit => Phases /\ Slot /\ Idle /\ Placed
    BY DEF Phases, Slot, Idle, Placed, InProgress
  <2> QED
    BY <2>1, <2>2 DEF UpdateInv
<1>2. UpdateInv /\ [UpdateNext]_updateVars => UpdateInv'
  <2>1. UpdateInv /\ UpdateNext => UpdateInv'
    BY TurnKeepsInv, ReserveKeepsInv, RunningKeepsInv, EndingKeepsInv
       DEF UpdateNext, Progress
  <2>2. UpdateInv /\ UNCHANGED updateVars => UpdateInv'
    BY DEF updateVars, jobVars, admissionVars, processVars, UpdateInv, UpdateTypeOK,
         Phases, Slot, Idle, Placed, LiveIn
  <2> QED
    BY <2>1, <2>2
<1> QED
  BY <1>1, <1>2, PTL DEF UpdateSpec

(***************************************************************************)
(* Job, marker, turns, launcher and worker are well typed for any server   *)
(* processes, turns and bounds (services/app_update.py).                   *)
(***************************************************************************)
THEOREM UpdateTypeCorrect == UpdateSpec => []UpdateTypeOK
<1>1. UpdateInv => UpdateTypeOK
  BY DEF UpdateInv
<1> QED
  BY <1>1, UpdateInvHolds, PTL

(***************************************************************************)
(* The process that reserved an update runs no turn until it is stopped or *)
(* the update is over (lifecycle.py reserve_managed_update, and the second *)
(* look that start_turn takes in request_preparer.py).                     *)
(***************************************************************************)
THEOREM ReserverIsIdle == UpdateSpec => []ReservedStaysIdle
<1>1. UpdateInv => ReservedStaysIdle
  BY DEF UpdateInv, Idle, ReservedStaysIdle
<1> QED
  BY <1>1, UpdateInvHolds, PTL

-----------------------------------------------------------------------------
(* Who goes on with an update *)

\* The job in progress is somebody's, at each of its stages.
LookedAfter ==
  \/ creating
  \/ /\ marker = job.id
     /\ \/ job.status = "pending" /\ launcher \in {"off", "starting", "up"} /\ updater = "none"
        \/ job.status = "handoff" /\ (launcher = "handing" \/ updater = "waiting")
        \/ job.status = "running" /\ updater = "installing"
        \/ /\ job.status = "restarting"
           /\ updater = "returning" \/ (launcher \in {"off", "starting"} /\ updater = "none")
        \/ job.status = "failed" /\ (launcher = "unhanding" \/ updater = "failing")
        \/ job.status = "succeeded" /\ launcher = "completing"

Accounted == marker # 0 /\ reboots = 0 => LookedAfter

LEMMA AccountedStep ==
  ASSUME UpdateInv, Accounted, [UpdateNext]_updateVars
  PROVE  Accounted'
<1> SUFFICES ASSUME marker' # 0, reboots' = 0
             PROVE  LookedAfter'
  BY DEF Accounted
<1> USE DEF UpdateInv, UpdateTypeOK, Accounted, LookedAfter, Phases, Slot, Smoothly, Mishap,
            jobVars, admissionVars, processVars
<1>1. CASE \E c \in Chat : Register(c) \/ EndChat(c) \/ \E b \in Backend : Admit(c, b)
  BY <1>1 DEF Register, EndChat, Admit
<1>2. CASE (\E b \in Backend : Reserve(b)) \/ WriteJob
  BY <1>2 DEF Reserve, WriteJob
<1>3. CASE Poll \/ HandOff
  BY <1>3 DEF Poll, HandOff, Write, LauncherTo
<1>4. CASE EndJob \/ StartByHand
  BY <1>4 DEF EndJob, StartByHand, LauncherTo, ReleaseJob
<1>5. CASE Install \/ Installed
  BY <1>5 DEF Install, Installed, Write, UpdaterTo
<1>6. CASE EndFailed
  BY <1>6 DEF EndFailed, UpdaterTo, ReleaseJob
<1>7. CASE RestartLauncher
  BY <1>7 DEF RestartLauncher, UpdaterTo, Write
<1>8. CASE StopServers \/ StopLauncher
  BY <1>8 DEF StopServers, StopLauncher, ServersGone
<1>9. CASE Ready
  <2>0. CASE creating
    BY <1>9, <2>0 DEF Ready, InProgress
  <2>1. /\ UNCHANGED <<marker, updater>> /\ reboots = 0 /\ updater = "none"
        /\ launcher = "starting" /\ (~creating => marker = job.id)
    <3>1. UNCHANGED <<marker, updater>> /\ reboots = 0 /\ launcher = "starting"
      BY <1>9 DEF Ready, ServersGone, Write, LauncherTo
    <3> QED
      BY <3>1
  <2>2. CASE ~creating /\ launcher' = "up" /\ job' = job /\ job.status # "restarting"
    BY <2>1, <2>2
  <2>3. CASE ~creating /\ Write("succeeded") /\ launcher' = "completing"
    <3>1. job'.status = "succeeded" /\ job'.id = job.id
      BY <2>3 DEF Write
    <3> QED
      BY <2>1, <2>3, <3>1
  <2>4. CASE ~creating /\ launcher' = "off" /\ job' = job
    BY <2>1, <2>4
  <2> QED
    BY <1>9, <2>0, <2>2, <2>3, <2>4 DEF Ready, ServersGone, LauncherTo
<1>10. CASE Reboot
  BY <1>10 DEF Reboot
<1>11. CASE UNCHANGED updateVars
  BY <1>11 DEF updateVars
<1> QED
  BY <1>1, <1>2, <1>3, <1>4, <1>5, <1>6, <1>7, <1>8, <1>9, <1>10, <1>11
     DEF UpdateNext, Progress

(***************************************************************************)
(* Unless the machine went down, an update that holds the slot is never    *)
(* orphaned: whatever write, launch or installation failed and whoever     *)
(* stopped the launcher, the file "active" names the job on disk, and the  *)
(* launcher, the worker or whoever finds the application down is where it  *)
(* takes up the job at its present status (services/app_update.py,         *)
(* runtime/launcher.py, runtime/update_worker.py; what UpdateEnds needs of *)
(* safety).                                                                *)
(***************************************************************************)
THEOREM UpdatesAreLookedAfter ==
  UpdateSpec => [](marker # 0 /\ reboots = 0 => LookedAfter)
<1>1. UpdateInit => Accounted
  BY DEF UpdateInit, Accounted
<1>2. UpdateInv /\ Accounted /\ [UpdateNext]_updateVars => Accounted'
  BY AccountedStep
<1>3. Accounted => (marker # 0 /\ reboots = 0 => LookedAfter)
  BY DEF Accounted
<1> QED
  BY <1>1, <1>2, <1>3, UpdateInvHolds, PTL DEF UpdateSpec
=============================================================================
