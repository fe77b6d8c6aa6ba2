------------------------------- MODULE TaskLogs -------------------------------
(***************************************************************************)
(* The log streams of background tasks (api/utils/task_log_stream.py, as   *)
(* api/routers/knowledge.py uses it): a task and the threads that work for *)
(* it emit lines and one end, a buffer of each task keeps them for those   *)
(* who join later, and every follower has a bounded queue that is read at  *)
(* the pace of its connection.  Buffers of ended tasks are dropped, their  *)
(* ends kept as tombstones.                                                *)
(*                                                                         *)
(* An event is its number among those of its task.  The budget of a buffer *)
(* in bytes is one in events.  Time passes as far as a prune likes.  The   *)
(* loss of a task is reported once.                                        *)
(***************************************************************************)
EXTENDS Integers, Sequences, FiniteSets, SequencesExt

CONSTANTS
  Job,            \* background tasks
  LostJob,        \* those of a process that is gone, of which this one knows nothing
  Follower,       \* streams opened by browsers
  NoJob,
  MaxEvents,      \* bound on the events of a task
  BufferSize,     \* _MAX_EVENTS_PER_TASK
  QueueSize,      \* maxsize of a follower's queue
  Retained,       \* _MAX_RETAINED_TASKS
  Tombstones      \* _MAX_TERMINAL_TOMBSTONES

ASSUME LogBounds == {MaxEvents, BufferSize, QueueSize, Retained, Tombstones} \subseteq Nat \ {0}
ASSUME LostJobIsJob == LostJob \subseteq Job /\ NoJob \notin Job

VARIABLES
  stage,          \* of a task: new, running, ending (its end is emitted, its logs still
                  \* captured) and over
  emitted,        \* how many events it has emitted
  endNo,          \* the number of its end, 0 before it
  ends,           \* the ended tasks in the order of _terminal_at
  archive,        \* the tasks in _buffers, their events, the tasks in _terminal_at and in
                  \* _terminal_tombstones, and those whose tombstones were dropped (history)
  giving,         \* what the event loop and a thread have put into a buffer, and the
                  \* followers they still have to hand it to
  follows,        \* the task of a follower
  reading,        \* new, asked, replay, live, over
  backlog,        \* what it has still to replay
  arriving,       \* callbacks of the loop for its queue
  inQueue,        \* its queue
  missedEnd       \* the end came when its queue was full (history)

jobSide == <<stage, emitted, endNo, ends>>
followerSide == <<follows, reading, backlog, inQueue, missedEnd>>
logVars == <<jobSide, archive, giving, arriving, followerSide>>

Emitter == {"loop", "thread"}

LogTypeOK ==
  /\ stage \in [Job -> {"new", "running", "ending", "over"}]
  /\ emitted \in [Job -> 0..MaxEvents] /\ endNo \in [Job -> 0..MaxEvents]
  /\ ends \in Seq(Job)
  /\ archive \in [kept : SUBSET Job, log : [Job -> Seq(1..MaxEvents)], timed : SUBSET Job,
                tombs : SUBSET Job, forgotten : SUBSET Job]
  /\ giving \in [Emitter -> [job : Job \cup {NoJob}, no : 0..MaxEvents, to : SUBSET Follower]]
  /\ follows \in [Follower -> Job \cup {NoJob}]
  /\ reading \in [Follower -> {"new", "asked", "replay", "live", "over"}]
  /\ backlog \in [Follower -> Seq(1..MaxEvents)]
  /\ arriving \in [Follower -> Seq(1..MaxEvents)] /\ inQueue \in [Follower -> Seq(1..MaxEvents)]
  /\ missedEnd \in [Follower -> BOOLEAN]

LogInit ==
  /\ stage = [j \in Job |-> "new"]
  /\ emitted = [j \in Job |-> 0] /\ endNo = [j \in Job |-> 0] /\ ends = <<>>
  /\ archive = [kept |-> {}, log |-> [j \in Job |-> <<>>], timed |-> {}, tombs |-> {},
              forgotten |-> {}]
  /\ giving = [e \in Emitter |-> [job |-> NoJob, no |-> 0, to |-> {}]]
  /\ follows = [f \in Follower |-> NoJob] /\ reading = [f \in Follower |-> "new"]
  /\ backlog = [f \in Follower |-> <<>>]
  /\ arriving = [f \in Follower |-> <<>>] /\ inQueue = [f \in Follower |-> <<>>]
  /\ missedEnd = [f \in Follower |-> FALSE]

\* The coroutine of a task does not await between its end and the end of the
\* capture, nor within emit.
LoopFree == giving["loop"].to = {} /\ \A j \in Job : stage[j] # "ending"

\* _subscribers: who has joined a task.
Joined == {f \in Follower : reading[f] \in {"replay", "live"}}
FollowersOf(j) == {f \in Joined : follows[f] = j}

-----------------------------------------------------------------------------
(* Retention, under the lock of the manager *)

\* The first n of a set of ended tasks in the order of their ends, or all of it.
Place(order, j) == CHOOSE i \in DOMAIN order : order[i] = j
Oldest(order, jobs, n) ==
  {j \in jobs : Cardinality({i \in jobs : Place(order, i) < Place(order, j)}) < n}

\* From the limit on, as many as are old enough.
AtLeast(n, all) == {Max({n, k}) : k \in 0..all}

\* _drop_task_locked: the buffer goes and leaves its end.
Dropped(s, gone, last) ==
  [s EXCEPT !.kept = @ \ gone, !.timed = @ \ gone,
            !.log = [j \in Job |-> IF j \in gone THEN <<>> ELSE @[j]],
            !.tombs = @ \cup {j \in gone : last[j] \in ToSet(s.log[j])}]

Faded(s, lost) == [s EXCEPT !.tombs = @ \ lost, !.forgotten = @ \cup lost]

\* What _prune_locked may make of an archive, order being that of the ends and
\* last their numbers: the buffers of ended tasks without followers go, those that
\* ended an hour ago and the oldest ones beyond the limit; then tombstones that
\* are a day old, and the oldest beyond the limit.
Pruned(s, order, last, followed) ==
  LET idle == s.timed \ followed
      drops == {Dropped(s, Oldest(order, idle, n), last) :
                  n \in AtLeast(Cardinality(s.kept) - Retained, Cardinality(idle))}
  IN UNION {{Faded(d, Oldest(order, d.tombs, n)) :
               n \in AtLeast(Cardinality(d.tombs) - Tombstones, Cardinality(d.tombs))} : d \in drops}

\* A task without a buffer gets one, with its end if a tombstone has it.
Restored(s, j) ==
  IF j \in s.kept THEN s
  ELSE [s EXCEPT !.kept = @ \cup {j},
                 !.log[j] = IF j \in s.tombs THEN <<endNo[j]>> ELSE <<>>,
                 !.timed = IF j \in s.tombs THEN @ \cup {j} ELSE @,
                 !.tombs = @ \ {j}]

\* ensure_task and the first half of subscribe
Ensured(j) == \E s \in Pruned(archive, ends, endNo, {follows[f] : f \in Joined}) :
                archive' = Restored(s, j)

-----------------------------------------------------------------------------
(* The tasks *)

\* _append_locked; the oldest events make room.
Buffered(s, j, no) ==
  [s EXCEPT !.kept = @ \cup {j},
            !.log[j] = Append(IF Len(@) < BufferSize THEN @ ELSE Tail(@), no)]

\* The half of emit under the lock; the followers are those of this moment.
Emit(e, j, isEnd) ==
  LET no == emitted[j] + 1
      stored == Buffered(archive, j, no)
  IN /\ giving[e].to = {} /\ no <= MaxEvents
     /\ emitted' = [emitted EXCEPT ![j] = no]
     /\ endNo' = IF isEnd THEN [endNo EXCEPT ![j] = no] ELSE endNo
     /\ ends' = IF isEnd THEN Append(ends, j) ELSE ends
     /\ archive' \in Pruned(IF isEnd THEN [stored EXCEPT !.timed = @ \cup {j}] ELSE stored,
                            ends', endNo', {follows[f] : f \in Joined})
     /\ giving' = [giving EXCEPT ![e] = [job |-> j, no |-> no, to |-> FollowersOf(j)]]
     /\ UNCHANGED <<arriving, followerSide>>

\* call_soon_threadsafe, one follower after the other.
PassOn(e) ==
  /\ \E f \in giving[e].to :
       /\ arriving' = [arriving EXCEPT ![f] = Append(@, giving[e].no)]
       /\ giving' = [giving EXCEPT ![e].to = @ \ {f}]
  /\ UNCHANGED <<jobSide, archive, followerSide>>

\* The request, and capture_task_logs, make the stream.
BeginJob(j) ==
  /\ stage[j] = "new" /\ j \notin LostJob /\ LoopFree
  /\ stage' = [stage EXCEPT ![j] = "running"]
  /\ Ensured(j)
  /\ UNCHANGED <<emitted, endNo, ends, giving, arriving, followerSide>>

\* _task_log, or a record that the handlers capture; those of a thread may
\* still come when the end is emitted.
EmitLine(e, j) ==
  /\ \/ e = "loop" /\ LoopFree /\ stage[j] = "running"
     \/ e = "thread" /\ stage[j] \in {"running", "ending"}
  /\ stage[j] = "running" => emitted[j] + 1 < MaxEvents
  /\ Emit(e, j, FALSE)
  /\ UNCHANGED stage

\* emit_complete or emit_failed, the last thing that a task does.
EmitEnd(j) ==
  /\ stage[j] = "running" /\ LoopFree
  /\ stage' = [stage EXCEPT ![j] = "ending"]
  /\ Emit("loop", j, TRUE)

EndCapture(j) ==
  /\ stage[j] = "ending" /\ giving["loop"].to = {}
  /\ stage' = [stage EXCEPT ![j] = "over"]
  /\ UNCHANGED <<emitted, endNo, ends, archive, giving, arriving, followerSide>>

\* The progress connection finds that nothing is known of a task.
ReportLost(j) ==
  /\ j \in LostJob /\ stage[j] = "new" /\ LoopFree
  /\ stage' = [stage EXCEPT ![j] = "over"]
  /\ Emit("loop", j, TRUE)

-----------------------------------------------------------------------------
(* The followers, on the event loop *)

\* The request: ensure_task before the response is made.
AskFor(f, j) ==
  /\ reading[f] = "new" /\ LoopFree
  /\ stage[j] # "new" \/ j \in LostJob
  /\ Ensured(j)
  /\ follows' = [follows EXCEPT ![f] = j]
  /\ reading' = [reading EXCEPT ![f] = "asked"]
  /\ UNCHANGED <<jobSide, giving, arriving, backlog, inQueue, missedEnd>>

\* Mutation: the backlog is copied, and a later step joins.
SubscribeInTwo(f) ==
  /\ LoopFree
  /\ \/ /\ reading[f] = "asked" /\ backlog[f] = <<>>
        /\ Ensured(follows[f])
        /\ backlog' = [backlog EXCEPT ![f] = archive'.log[follows[f]]]
        /\ UNCHANGED reading
     \/ /\ reading[f] = "asked" /\ backlog[f] # <<>>
        /\ reading' = [reading EXCEPT ![f] = "replay"]
        /\ UNCHANGED <<archive, backlog>>
  /\ UNCHANGED <<jobSide, giving, arriving, follows, inQueue, missedEnd>>

\* subscribe: it joins and copies the backlog in one.
Subscribe(f) ==
  /\ reading[f] = "asked" /\ LoopFree
  /\ Ensured(follows[f])
  /\ backlog' = [backlog EXCEPT ![f] = archive'.log[follows[f]]]
  /\ reading' = [reading EXCEPT ![f] = IF backlog'[f] = <<>> THEN "live" ELSE "replay"]
  /\ UNCHANGED <<jobSide, giving, arriving, follows, inQueue, missedEnd>>

\* unsubscribe; what still arrives goes to a queue that nobody reads.
Gone(f) ==
  /\ reading' = [reading EXCEPT ![f] = "over"]
  /\ archive' \in Pruned(archive, ends, endNo, {follows[g] : g \in Joined \ {f}})

\* The next event of the backlog; the stream is over if the last one is the end.
Replay(f) ==
  /\ reading[f] = "replay" /\ LoopFree
  /\ backlog' = [backlog EXCEPT ![f] = Tail(@)]
  /\ IF Len(backlog[f]) > 1 THEN UNCHANGED <<reading, archive>>
     ELSE IF Head(backlog[f]) = endNo[follows[f]] THEN Gone(f)
     ELSE reading' = [reading EXCEPT ![f] = "live"] /\ UNCHANGED archive
  /\ UNCHANGED <<jobSide, giving, arriving, follows, inQueue, missedEnd>>

\* The next event of the queue; the stream is over with the end.
ReadNext(f) ==
  /\ reading[f] = "live" /\ inQueue[f] # <<>> /\ LoopFree
  /\ inQueue' = [inQueue EXCEPT ![f] = Tail(@)]
  /\ IF Head(inQueue[f]) = endNo[follows[f]] THEN Gone(f) ELSE UNCHANGED <<reading, archive>>
  /\ UNCHANGED <<jobSide, giving, arriving, follows, backlog, missedEnd>>

\* _queue_event: a full queue drops what comes.
Arrive(f) ==
  /\ arriving[f] # <<>> /\ LoopFree
  /\ arriving' = [arriving EXCEPT ![f] = Tail(@)]
  /\ IF Len(inQueue[f]) < QueueSize
       THEN inQueue' = [inQueue EXCEPT ![f] = Append(@, Head(arriving[f]))] /\ UNCHANGED missedEnd
       ELSE missedEnd' = [missedEnd EXCEPT ![f] = @ \/ Head(arriving[f]) = endNo[follows[f]]]
            /\ UNCHANGED inQueue
  /\ UNCHANGED <<jobSide, archive, giving, follows, reading, backlog>>

\* The browser closes the connection.
Leave(f) ==
  /\ reading[f] \in {"replay", "live"} /\ LoopFree
  /\ Gone(f)
  /\ UNCHANGED <<jobSide, giving, arriving, follows, backlog, inQueue, missedEnd>>

-----------------------------------------------------------------------------
LogNext ==
  \/ \E j \in Job : \/ BeginJob(j) \/ EmitEnd(j) \/ EndCapture(j) \/ ReportLost(j)
                    \/ \E e \in Emitter : EmitLine(e, j)
  \/ \E e \in Emitter : PassOn(e)
  \/ \E f \in Follower : \/ Subscribe(f) \/ Replay(f) \/ ReadNext(f) \/ Arrive(f) \/ Leave(f)
                         \/ \E j \in Job : AskFor(f, j)

Streaming(f) == Subscribe(f) \/ Replay(f) \/ ReadNext(f) \/ Arrive(f)

\* The threads and the loop go on, and every browser reads on until it leaves.
LogSpec ==
  /\ LogInit /\ [][LogNext]_logVars
  /\ \A e \in Emitter : WF_logVars(PassOn(e))
  /\ \A j \in Job : WF_logVars(EndCapture(j))
  /\ \A f \in Follower : WF_logVars(Streaming(f))

-----------------------------------------------------------------------------
\* The task that a browser follows has ended.
JobOver(f) == \E j \in Job : follows[f] = j /\ endNo[j] > 0

\* The streams that are not promised to close: a full queue dropped the end, a
\* thread has logged after it, or it was forgotten.
Unpromised(f) ==
  \/ missedEnd[f]
  \/ \E j \in Job : follows[f] = j /\ (emitted[j] > endNo[j] \/ j \in archive.forgotten)

\* The end of task j is on its way to follower f: in what it replays, in its queue,
\* or with the event loop.
EndUnderWay(f, j) ==
  \/ reading[f] = "replay" /\ backlog[f] # <<>> /\ Last(backlog[f]) = endNo[j]
  \/ f \in giving["loop"].to /\ giving["loop"].job = j /\ giving["loop"].no = endNo[j]
  \/ endNo[j] \in ToSet(arriving[f]) \cup ToSet(inQueue[f])

(***************************************************************************)
(* No stream that is open when its task has ended waits for nothing: the   *)
(* end is on its way, with the exceptions of Unpromised, whoever joined,   *)
(* was dropped or came back in the meantime (subscribe, emit and           *)
(* _prune_locked run in one lock each, task_log_stream.py 118-214).        *)
(***************************************************************************)
EndsReachFollowers ==
  \A f \in Joined : \A j \in Job :
    follows[f] = j /\ endNo[j] > 0 /\ ~Unpromised(f) => EndUnderWay(f, j)

(***************************************************************************)
(* Whoever follows a task that ends is told so, whenever it joined, and    *)
(* its stream closes instead of sending keep-alives for ever; unless its   *)
(* queue was full then, a thread logged after the end or the end was       *)
(* forgotten.                                                              *)
(***************************************************************************)
StreamsClose == \A f \in Follower : JobOver(f) ~> (reading[f] = "over" \/ Unpromised(f))
=============================================================================
