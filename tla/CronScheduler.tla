---------------------------- MODULE CronScheduler ----------------------------
(***************************************************************************)
(* deeptutor/services/cron: the job table that every worker process reads  *)
(* and writes, the snapshot each process keeps of it under a revision      *)
(* number, and the scheduler loop that runs in the process of the leader.  *)
(*                                                                         *)
(* Time is a small clock; a job is due when its next run is not in the     *)
(* future, and an interval is one tick.  The next run of a job that has    *)
(* no row, or is not in a snapshot, is 0.  Calls of the service that do    *)
(* not await are atomic within their process, but not against the other    *)
(* processes: the write of a row and the reading of the revision in        *)
(* _changed are two transactions.                                          *)
(***************************************************************************)
EXTENDS Workers, Naturals, FiniteSets

CONSTANTS
  Job,           \* job ids; every id is used once
  OneShot,       \* the jobs with an "at" schedule, the others repeat
  NoJob,         \* no job is running
  Horizon,       \* bound on the clock
  MaxOps         \* bound on the calls that create or remove jobs

ASSUME OneShotIsJob == OneShot \subseteq Job
ASSUME NoJobIsNoJob == NoJob \notin Job
ASSUME CronBounds == Horizon \in Nat /\ MaxOps \in Nat

VARIABLES
  rows,          \* next run in the table, 0 for no row
  revision,      \* the table's revision
  clock,
  snap,          \* each process's _jobs: next run, 0 for no job
  seen,          \* its _loaded_revision
  stale,         \* its _jobs was replaced since the current tick listed it
  busy,          \* processes between a write and their _changed
  ticking,       \* processes whose scheduler loop runs
  todo,          \* jobs the current tick has still to run
  current,       \* the job whose on_job is awaited
  ever, gone,    \* jobs created, jobs reported as removed (history)
  begun, ended,  \* jobs that were run, and whose run ended (history)
  ops            \* calls counted against MaxOps

table == <<rows, revision>>
local == <<snap, seen, stale, busy, ticking, todo, current>>
cronVars == <<table, clock, local, ever, gone, begun, ended, ops>>

CronTypeOK ==
  /\ rows \in [Job -> Nat] /\ revision \in Nat /\ clock \in Nat
  /\ snap \in [Worker -> [Job -> Nat]]
  /\ seen \in [Worker -> Nat]
  /\ stale \subseteq Worker /\ busy \subseteq Worker /\ ticking \subseteq Worker
  /\ todo \in [Worker -> SUBSET Job]
  /\ current \in [Worker -> Job \cup {NoJob}]
  /\ ever \subseteq Job /\ gone \subseteq Job
  /\ begun \subseteq Job /\ ended \subseteq Job
  /\ ops \in Nat

Empty == [j \in Job |-> 0]

CronInit ==
  /\ rows = Empty /\ revision = 0 /\ clock = 1
  /\ snap = [w \in Worker |-> Empty]
  /\ seen = [w \in Worker |-> 0]
  /\ stale = {} /\ busy = {} /\ ticking = {}
  /\ todo = [w \in Worker |-> {}]
  /\ current = [w \in Worker |-> NoJob]
  /\ ever = {} /\ gone = {}
  /\ begun = {} /\ ended = {}
  /\ ops = 0

Count == ops < MaxOps /\ ops' = ops + 1

InTick(w) == todo[w] # {} \/ current[w] # NoJob

\* _load: the snapshot is replaced when the revision is not the one loaded.
Loaded(w) == IF seen[w] = revision THEN snap[w] ELSE rows
AfterLoad(w) == IF seen[w] # revision /\ InTick(w) THEN stale \cup {w} ELSE stale

Keep(w, s) == snap' = [snap EXCEPT ![w] = s]

\* add_job: the row is written; _changed follows.
Add(w, j) ==
  /\ w \notin busy /\ j \notin ever /\ Count
  /\ Keep(w, [Loaded(w) EXCEPT ![j] = clock + 1])
  /\ stale' = AfterLoad(w)
  /\ rows' = [rows EXCEPT ![j] = clock + 1]
  /\ revision' = revision + 1
  /\ ever' = ever \cup {j}
  /\ busy' = busy \cup {w}
  /\ UNCHANGED <<clock, seen, ticking, todo, current, gone, begun, ended>>

\* The rows of js that the table still has.
There(js) == {j \in js : rows[j] # 0}

\* Rows js leave the table, jobs out the snapshot; _changed follows a removal.
Delete(w, js, out) ==
  /\ Keep(w, [j \in Job |-> IF j \in out THEN 0 ELSE Loaded(w)[j]])
  /\ stale' = AfterLoad(w)
  /\ rows' = [j \in Job |-> IF j \in js THEN 0 ELSE rows[j]]
  /\ revision' = IF There(js) = {} THEN revision ELSE revision + 1
  /\ gone' = gone \cup There(js)
  /\ busy' = IF There(js) = {} THEN busy ELSE busy \cup {w}
  /\ seen' = IF There(js) = {} THEN [seen EXCEPT ![w] = revision] ELSE seen
  /\ UNCHANGED <<clock, ticking, todo, current, ever, begun, ended>>

\* cancel_job: only a job that the snapshot knows is looked for in the table.
Cancel(w, j) ==
  /\ w \notin busy /\ Loaded(w)[j] # 0 /\ Count
  /\ Delete(w, {j}, There({j}))

\* remove_owner_jobs, every job having the same owner.
RemoveOwner(w) ==
  /\ w \notin busy /\ Count
  /\ Delete(w, Job, Job)

\* list_jobs and get_job, and the refused calls: nothing but the load.
Inspect(w) ==
  /\ w \notin busy /\ seen[w] # revision
  /\ Keep(w, rows)
  /\ stale' = AfterLoad(w)
  /\ seen' = [seen EXCEPT ![w] = revision]
  /\ UNCHANGED <<table, clock, busy, ticking, todo, current, ever, gone, begun, ended, ops>>

\* _changed: whatever others wrote meanwhile now counts as loaded.
Changed(w) ==
  /\ w \in busy
  /\ seen' = [seen EXCEPT ![w] = revision]
  /\ busy' = busy \ {w}
  /\ UNCHANGED <<table, clock, snap, stale, ticking, todo, current, ever, gone, begun, ended, ops>>

\* start: one-shots whose time passed are dropped, the rest stay due.
StartCron(w) ==
  LET late == {j \in OneShot : Loaded(w)[j] \in 1..clock} IN
  /\ w \notin busy /\ w \notin ticking
  /\ Keep(w, [j \in Job |-> IF j \in late THEN 0 ELSE Loaded(w)[j]])
  /\ rows' = [j \in Job |-> IF j \in late THEN 0 ELSE rows[j]]
  /\ revision' = IF There(late) = {} THEN revision ELSE revision + 1
  /\ busy' = IF late = {} THEN busy ELSE busy \cup {w}
  /\ seen' = IF late = {} THEN [seen EXCEPT ![w] = revision] ELSE seen
  /\ ticking' = ticking \cup {w}
  /\ UNCHANGED <<clock, stale, todo, current, ever, gone, begun, ended, ops>>

\* Mutation: the flag is cleared and the scheduler task is left alone.
StopLate(w) ==
  /\ w \notin busy
  /\ ticking' = ticking \ {w}
  /\ UNCHANGED <<table, clock, snap, seen, stale, busy, todo, current, ever, gone, begun, ended, ops>>

\* stop: the loop is cancelled, also in the middle of a job.
StopCron(w) ==
  /\ w \notin busy
  /\ ticking' = ticking \ {w}
  /\ todo' = [todo EXCEPT ![w] = {}]
  /\ current' = [current EXCEPT ![w] = NoJob]
  /\ UNCHANGED <<table, clock, snap, seen, stale, busy, ever, gone, begun, ended, ops>>

\* Jobs of a snapshot whose time has come.
Due(s) == {j \in Job : s[j] \in 1..clock}

\* _tick loads the table and lists the jobs; the due ones are run in turn.
Tick(w) ==
  /\ w \in ticking /\ w \notin busy /\ ~InTick(w)
  /\ seen[w] # revision \/ Due(snap[w]) # {}
  /\ Keep(w, Loaded(w))
  /\ seen' = [seen EXCEPT ![w] = revision]
  /\ stale' = stale \ {w}
  /\ todo' = [todo EXCEPT ![w] = Due(Loaded(w))]
  /\ UNCHANGED <<table, clock, busy, ticking, current, ever, gone, begun, ended, ops>>

\* _run_job awaits on_job; nothing asks whether the job still exists.
RunJob(w, j) ==
  /\ w \notin busy /\ current[w] = NoJob /\ j \in todo[w]
  /\ todo' = [todo EXCEPT ![w] = @ \ {j}]
  /\ current' = [current EXCEPT ![w] = j]
  /\ begun' = begun \cup {j}
  /\ UNCHANGED <<table, clock, snap, seen, stale, busy, ticking, ever, gone, ended, ops>>

\* Mutation: a one-shot that ran keeps its row.
DropKept(w, j) ==
  /\ Keep(w, [snap[w] EXCEPT ![j] = 0])
  /\ rows' = rows
  /\ revision' = revision + 1

\* The row and the snapshot lose a one-shot that ran.
Drop(w, j) ==
  /\ Keep(w, [snap[w] EXCEPT ![j] = 0])
  /\ rows' = [rows EXCEPT ![j] = 0]
  /\ revision' = IF rows[j] = 0 THEN revision ELSE revision + 1

(***************************************************************************)
(* A repeating job gets its next run and is written back, whatever became  *)
(* of its row.  The snapshot shows it unless the job object is no longer   *)
(* the one in _jobs (it was cancelled here, or _jobs was replaced).        *)
(***************************************************************************)
Rearm(w, j) ==
  /\ Keep(w, IF snap[w][j] # 0 /\ w \notin stale
               THEN [snap[w] EXCEPT ![j] = clock + 1] ELSE snap[w])
  /\ rows' = [rows EXCEPT ![j] = clock + 1]
  /\ revision' = revision + 1

\* The rest of _run_job, after on_job returned or raised.
FinishJob(w) ==
  LET j == current[w] IN
  /\ w \notin busy /\ j # NoJob
  /\ IF j \in OneShot THEN Drop(w, j) ELSE Rearm(w, j)
  /\ current' = [current EXCEPT ![w] = NoJob]
  /\ busy' = busy \cup {w}
  /\ ended' = ended \cup {j}
  /\ UNCHANGED <<clock, seen, stale, ticking, todo, ever, gone, begun, ops>>

\* reload: the snapshot is replaced whatever the revision.
Reload(w) ==
  /\ w \notin busy
  /\ Keep(w, rows)
  /\ seen' = [seen EXCEPT ![w] = revision]
  /\ stale' = IF InTick(w) THEN stale \cup {w} ELSE stale
  /\ UNCHANGED <<table, clock, busy, ticking, todo, current, ever, gone, begun, ended, ops>>

\* A process that dies comes back with nothing loaded.
ForgetCron(w) ==
  /\ Keep(w, Empty)
  /\ seen' = [seen EXCEPT ![w] = 0]
  /\ stale' = stale \ {w} /\ busy' = busy \ {w} /\ ticking' = ticking \ {w}
  /\ todo' = [todo EXCEPT ![w] = {}]
  /\ current' = [current EXCEPT ![w] = NoJob]
  /\ UNCHANGED <<table, clock, ever, gone, begun, ended, ops>>

TimePasses ==
  /\ clock < Horizon
  /\ clock' = clock + 1
  /\ UNCHANGED <<table, local, ever, gone, begun, ended, ops>>

-----------------------------------------------------------------------------
(***************************************************************************)
(* A cancelled job stays cancelled: once cancel_job reported the removal   *)
(* ("Remove a job"), its row does not come back.                           *)
(***************************************************************************)
CancelledForGood == [][\A j \in gone : rows[j] = 0 => rows'[j] = 0]_cronVars
=============================================================================
