---------------------------- MODULE ManagedUpdates ----------------------------
(***************************************************************************)
(* Updates of the application from the web (services/app_update.py): a     *)
(* server process reserves a job while it runs no turn                     *)
(* (services/session/turns/lifecycle.py reserve_managed_update), the       *)
(* launcher hands the job to a detached worker and stops the servers       *)
(* (runtime/launcher.py), the worker installs the release and starts the   *)
(* launcher again (runtime/update_worker.py), which completes the job.     *)
(*                                                                         *)
(* The job is a file that is replaced atomically; the file "active" names  *)
(* the job in progress and is made exclusively.  The worker waits a minute *)
(* for the launcher to be gone, which is taken to be enough; a failure is  *)
(* recorded without a second one.                                          *)
(***************************************************************************)
EXTENDS Naturals

CONSTANTS
  Backend,        \* server processes of the application
  NoBackend,
  Chat,           \* requests to start a turn
  MaxJobs,        \* bound on the updates asked for
  MaxMishaps,     \* bound on writes, launches, installations that fail and on stops
  MaxReboots      \* bound on crashes of the machine

ASSUME NoBackendIsNone == NoBackend \notin Backend
ASSUME UpdateBounds == {MaxJobs, MaxMishaps, MaxReboots} \subseteq Nat

VARIABLES
  job,            \* state.json: the last job and its status
  marker,         \* the job that "active" names, 0 when there is no such file
  accepting,      \* the servers with _accepting_turns
  chat,           \* how far each start of a turn is
  server,         \* the process it goes to
  reserver,       \* the process that reserved the job in progress, while it lives
  creating,       \* it has made "active" and not yet written the job
  launcher,       \* what the launcher is at; the servers run unless it is off
  updater,        \* what the update worker is at
  mishaps, reboots

jobVars == <<job, marker, reserver, creating>>
admissionVars == <<accepting, chat, server>>
processVars == <<launcher, updater>>
updateVars == <<jobVars, admissionVars, processVars, mishaps, reboots>>

InProgress == {"pending", "handoff", "running", "restarting"}
Ended == {"succeeded", "failed"}

UpdateTypeOK ==
  /\ job \in [id : 0..MaxJobs, status : InProgress \cup Ended \cup {"none"}]
  /\ marker \in 0..MaxJobs
  /\ accepting \subseteq Backend
  /\ chat \in [Chat -> {"new", "admitted", "live", "over"}]
  /\ server \in [Chat -> Backend \cup {NoBackend}]
  /\ reserver \in Backend \cup {NoBackend}
  /\ creating \in BOOLEAN
  /\ launcher \in {"off", "starting", "completing", "up", "handing", "unhanding", "stopping"}
  /\ updater \in {"none", "waiting", "installing", "failing", "returning"}
  /\ mishaps \in 0..MaxMishaps /\ reboots \in 0..MaxReboots

UpdateInit ==
  /\ job = [id |-> 0, status |-> "none"] /\ marker = 0
  /\ accepting = Backend
  /\ chat = [c \in Chat |-> "new"] /\ server = [c \in Chat |-> NoBackend]
  /\ reserver = NoBackend /\ creating = FALSE
  /\ launcher = "up" /\ updater = "none"
  /\ mishaps = 0 /\ reboots = 0

Smoothly == UNCHANGED <<mishaps, reboots>>
Mishap == mishaps < MaxMishaps /\ mishaps' = mishaps + 1 /\ UNCHANGED reboots

-----------------------------------------------------------------------------
(* Turns.  The event loop of a process does nothing else while it creates  *)
(* a job.                                                                  *)

Serving(b) == launcher # "off" /\ ~(creating /\ reserver = b)

\* _turns_blocked_for_update_locked: without an update the process thaws.
Blocked(b) == b \notin accepting /\ marker # 0 /\ job.status \in InProgress
Thaw(b) == accepting' = IF Blocked(b) THEN accepting ELSE accepting \cup {b}

\* _ensure_accepting_turns, before the turn is prepared.
Admit(c, b) ==
  /\ chat[c] = "new" /\ Serving(b)
  /\ Thaw(b)
  /\ chat' = [chat EXCEPT ![c] = IF Blocked(b) THEN "over" ELSE "admitted"]
  /\ server' = [server EXCEPT ![c] = b]
  /\ UNCHANGED <<jobVars, processVars>> /\ Smoothly

\* Mutation: the admission at the beginning is relied on.
RegisterAdmitted(c) ==
  /\ chat[c] = "admitted" /\ Serving(server[c])
  /\ chat' = [chat EXCEPT ![c] = "live"]
  /\ UNCHANGED <<jobVars, accepting, server, processVars>> /\ Smoothly

\* The execution is published under the lock, or the turn fails as rejected.
Register(c) ==
  /\ chat[c] = "admitted" /\ Serving(server[c])
  /\ Thaw(server[c])
  /\ chat' = [chat EXCEPT ![c] = IF Blocked(server[c]) THEN "over" ELSE "live"]
  /\ UNCHANGED <<jobVars, server, processVars>> /\ Smoothly

EndChat(c) ==
  /\ chat[c] = "live" /\ Serving(server[c])
  /\ chat' = [chat EXCEPT ![c] = "over"]
  /\ UNCHANGED <<jobVars, accepting, server, processVars>> /\ Smoothly

LiveIn(b) == {c \in Chat : chat[c] = "live" /\ server[c] = b}

-----------------------------------------------------------------------------
(* The reservation *)

\* create: "active" is made exclusively, by a process that runs no turn.
Reserve(b) ==
  /\ Serving(b) /\ ~creating /\ LiveIn(b) = {}
  /\ marker = 0 /\ job.id < MaxJobs
  /\ marker' = job.id + 1
  /\ creating' = TRUE /\ reserver' = b
  /\ UNCHANGED <<job, admissionVars, processVars>> /\ Smoothly

\* The job is written and the process accepts no more turns, or the write
\* fails and "active" is removed again.
WriteJob ==
  /\ creating /\ creating' = FALSE
  /\ \/ /\ job' = [id |-> marker, status |-> "pending"]
        /\ accepting' = accepting \ {reserver}
        /\ UNCHANGED <<marker, reserver>> /\ Smoothly
     \/ /\ Mishap
        /\ marker' = 0 /\ reserver' = NoBackend
        /\ UNCHANGED <<job, accepting>>
  /\ UNCHANGED <<chat, server, processVars>>

-----------------------------------------------------------------------------
(* The launcher *)

Write(status) ==
  /\ job' = [job EXCEPT !.status = status]
  /\ UNCHANGED <<marker, reserver, creating>>

LauncherTo(l) == launcher' = l /\ UNCHANGED updater

\* _handoff_pending_update, once a second: prepare_handoff, or the job fails.
Poll ==
  /\ launcher = "up" /\ job.status = "pending"
  /\ \/ Write("handoff") /\ LauncherTo("handing") /\ Smoothly
     \/ Write("failed") /\ LauncherTo("unhanding") /\ Mishap
  /\ UNCHANGED admissionVars

\* The worker is started, or that fails and the job with it.
HandOff ==
  /\ launcher = "handing"
  /\ \/ /\ launcher' = "stopping" /\ updater' = "waiting"
        /\ UNCHANGED jobVars /\ Smoothly
     \/ Write("failed") /\ LauncherTo("unhanding") /\ Mishap
  /\ UNCHANGED admissionVars

\* Mutation: the end is written and "active" stays.
ReleaseNothing ==
  /\ reserver' = NoBackend
  /\ UNCHANGED <<job, marker, creating>>

\* release: "active" goes when it names this job.
ReleaseJob ==
  /\ marker' = IF marker = job.id THEN 0 ELSE marker
  /\ reserver' = NoBackend
  /\ UNCHANGED <<job, creating>>

\* The end of the job is written before "active" is removed.
EndJob ==
  /\ launcher \in {"unhanding", "completing"}
  /\ ReleaseJob /\ LauncherTo("up") /\ Smoothly
  /\ UNCHANGED admissionVars

\* The servers are gone, whatever they did; the next ones accept turns.
ServersGone ==
  /\ launcher' = "off"
  /\ accepting' = Backend
  /\ chat' = [c \in Chat |-> IF chat[c] \in {"admitted", "live"} THEN "over" ELSE chat[c]]
  /\ reserver' = NoBackend /\ creating' = FALSE
  /\ UNCHANGED <<job, marker, server>>

StopServers ==
  /\ launcher = "stopping"
  /\ ServersGone /\ Smoothly
  /\ UNCHANGED updater

\* Both servers answer: _complete_restarted_update, whose failing write ends
\* the launcher.
Ready ==
  /\ launcher = "starting"
  /\ \/ /\ job.status # "restarting"
        /\ LauncherTo("up") /\ Smoothly /\ UNCHANGED <<jobVars, admissionVars>>
     \/ /\ job.status = "restarting"
        /\ Write("succeeded") /\ LauncherTo("completing") /\ Smoothly
        /\ UNCHANGED admissionVars
     \/ /\ job.status = "restarting"
        /\ ServersGone /\ Mishap /\ UNCHANGED updater

\* Somebody stops the launcher; the server ends its request first.
StopLauncher ==
  /\ launcher \in {"starting", "up"} /\ ~creating
  /\ ServersGone /\ Mishap
  /\ UNCHANGED updater

\* Somebody starts an application that is down and has no worker.
StartByHand ==
  /\ launcher = "off" /\ updater = "none"
  /\ LauncherTo("starting") /\ Smoothly
  /\ UNCHANGED <<jobVars, admissionVars>>

-----------------------------------------------------------------------------
(* The update worker *)

UpdaterTo(u) == updater' = u /\ UNCHANGED launcher

\* The launcher is gone: mark_running.
Install ==
  /\ updater = "waiting" /\ launcher = "off"
  /\ \/ Write("running") /\ UpdaterTo("installing") /\ Smoothly
     \/ Write("failed") /\ UpdaterTo("failing") /\ Mishap
  /\ UNCHANGED admissionVars

\* pip ends: mark_restarting, or mark_failed.
Installed ==
  /\ updater = "installing"
  /\ \/ Write("restarting") /\ UpdaterTo("returning") /\ Smoothly
     \/ Write("failed") /\ UpdaterTo("failing") /\ Mishap
  /\ UNCHANGED admissionVars

EndFailed ==
  /\ updater = "failing"
  /\ ReleaseJob /\ UpdaterTo("returning") /\ Smoothly
  /\ UNCHANGED admissionVars

\* _launch_restart, on either outcome.  When it fails the job fails, if it
\* has not, and it is tried once more.
RestartLauncher ==
  /\ updater = "returning"
  /\ \/ /\ launcher' = "starting" /\ updater' = "none"
        /\ UNCHANGED jobVars /\ Smoothly
     \/ /\ job.status = "restarting"
        /\ Write("failed") /\ UpdaterTo("failing") /\ Mishap
     \/ /\ job.status = "failed"
        /\ UpdaterTo("none") /\ UNCHANGED jobVars /\ Mishap
  /\ UNCHANGED admissionVars

\* The machine goes down with everything that runs on it.
Reboot ==
  /\ reboots < MaxReboots /\ reboots' = reboots + 1
  /\ ServersGone /\ updater' = "none"
  /\ UNCHANGED mishaps

-----------------------------------------------------------------------------
Progress == WriteJob \/ Poll \/ HandOff \/ EndJob \/ StopServers \/ Ready \/ StartByHand
              \/ Install \/ Installed \/ EndFailed \/ RestartLauncher

UpdateNext ==
  \/ \E c \in Chat : Register(c) \/ EndChat(c) \/ \E b \in Backend : Admit(c, b)
  \/ \E b \in Backend : Reserve(b)
  \/ Progress \/ StopLauncher \/ Reboot

\* The launcher, the worker and the request in the server go on; whoever finds
\* the application down starts it.
UpdateSpec == UpdateInit /\ [][UpdateNext]_updateVars /\ WF_updateVars(Progress)

-----------------------------------------------------------------------------
(***************************************************************************)
(* The process that reserved an update runs no turn from then until it is  *)
(* stopped or the update is over: no start that was admitted before the    *)
(* reservation and reaches the table of executions after it slips in, so   *)
(* the launcher cuts none of its turns.                                    *)
(***************************************************************************)
ReservedStaysIdle ==
  reserver # NoBackend /\ (creating \/ job.status \in InProgress) => LiveIn(reserver) = {}

(***************************************************************************)
(* Whatever step of an update fails, and whoever stops the launcher        *)
(* meanwhile, it ends, with its end on disk and the slot free for the next *)
(* one, unless the machine goes down in between.                           *)
(***************************************************************************)
UpdateEnds ==
  marker # 0 ~> reboots > 0 \/ (marker = 0 /\ job.status \in Ended \cup {"none"})
=============================================================================
