------------------------------ MODULE TurnEvents ------------------------------
(***************************************************************************)
(* The events of a turn and a client that follows them, on top of          *)
(* TurnRuntime.  Whoever executes or recovers the turn publishes an event  *)
(* to the coordinator's stream, which numbers it; the executing process    *)
(* also keeps it in a buffer and flushes the buffer to the turn_events     *)
(* table (turns/lifecycle.py 537-637, turns/executor.py).  A subscription  *)
(* replays the table, then follows the stream (app/service.py 91-179); the *)
(* web client shows events in the order of their numbers, holds back what  *)
(* comes after a gap, and subscribes again when DONE does not come         *)
(* (web/features/chat/transport/TurnRuntimeClient.ts).                     *)
(*                                                                         *)
(* Subscriptions only read, so one client per turn stands for all.  The    *)
(* time after which Redis drops a stream is left out.                      *)
(***************************************************************************)
EXTENDS TurnRuntime, Sequences, FiniteSets

CONSTANTS
  MaxContent,   \* bound on the events the engine emits in a turn
  MaxResumes    \* bound on broken connections and subscriptions

ASSUME EventBounds == {MaxContent, MaxResumes} \subseteq Nat

VARIABLES
  stream,   \* the coordinator's event stream of a turn
  buffer,   \* execution.events
  durable,  \* the turn's rows in turn_events
  sent,     \* publications of the current phase of the task that returned
  told,     \* recovery has published its ERROR event
  copied,   \* length of the stream recovery has read, 0 before it reads
  sub,      \* the client's subscription
  shown,    \* events the client has shown; its cursor is their number
  held,     \* events the client holds back behind a gap
  resumes   \* connections and subscriptions broken so far

ownerVars == <<stream, buffer, durable, sent>>
clientVars == <<sub, shown, held, resumes>>
eventVars == <<ownerVars, told, copied, clientVars>>
evVars == <<vars, eventVars>>

EventKind == {"session", "content", "error", "done", "title", "synthesized"}
Draft(k, s) == [kind |-> k, status |-> s]
Event == [seq : Nat \ {0}, kind : EventKind, status : TerminalStatus \cup {"none"}]

\* done is the local variable of subscribe_turn, tail its tail_possible; pc is
\* "off", "replay", "check", "follow", "lease", "row" or "end".
NoSubscription == [pc |-> "off", last |-> 0, done |-> FALSE, tail |-> FALSE]

OwnerTypeOK ==
  /\ stream \in [Turn -> Seq(Event)]
  /\ buffer \in [Turn -> SUBSET Event]
  /\ durable \in [Turn -> SUBSET Event]
  /\ sent \in [Turn -> Nat]
  /\ told \in [Worker -> BOOLEAN]
  /\ copied \in [Worker -> Nat]

EvInit ==
  /\ Init
  /\ stream = [t \in Turn |-> <<>>]
  /\ buffer = [t \in Turn |-> {}]
  /\ durable = [t \in Turn |-> {}]
  /\ sent = [t \in Turn |-> 0]
  /\ told = [w \in Worker |-> FALSE]
  /\ copied = [w \in Worker |-> 0]
  /\ sub = [t \in Turn |-> NoSubscription]
  /\ shown = [t \in Turn |-> <<>>]
  /\ held = [t \in Turn |-> {}]
  /\ resumes = 0

Elements(s) == {s[i] : i \in DOMAIN s}

-----------------------------------------------------------------------------
(* Publishing and flushing *)

\* Mutation: the process numbers its events, not the shared counter.
StampedLocally(t, d) ==
  [seq |-> Cardinality(buffer[t]) + 1, kind |-> d.kind, status |-> d.status]

Stamped(t, d) == [seq |-> Len(stream[t]) + 1, kind |-> d.kind, status |-> d.status]

\* publish_event of the coordinator
ToStream(t, d) == stream' = [stream EXCEPT ![t] = Append(@, Stamped(t, d))]

PublishLive(t, d) ==
  /\ ToStream(t, d)
  /\ buffer' = [buffer EXCEPT ![t] = @ \cup {Stamped(t, d)}]

\* append_events: rows that exist are skipped, a missing turn is passed over.
Store(t, E) == durable' = [durable EXCEPT ![t] = IF HasRow(t) THEN @ \cup E ELSE @]
Flush(t) == Store(t, buffer[t])

(***************************************************************************)
(* What a task publishes in a phase: the engine's events and the title may *)
(* come, the others must.                                                  *)
(***************************************************************************)
SessionEvent == Draft("session", "none")

Script(t) ==
  CASE At(t, "run") -> [i \in 1 .. MaxContent |-> Draft("content", "none")]
    [] At(t, "post") -> IF outcome[t] = "completed" THEN <<Draft("title", "none")>> ELSE <<>>
    [] At(t, "announce") -> <<Draft("done", outcome[t])>>
    [] At(t, "cancelPublish") -> <<Draft("error", outcome[t])>>
    [] At(t, "cancelAnnounce") -> <<Draft("done", outcome[t])>>
    [] At(t, "failPublish") -> <<Draft("error", "failed"), Draft("done", "failed")>>
    [] OTHER -> <<>>

Unsent(t) == sent[t] < Len(Script(t))
NextDraft(t) == Script(t)[sent[t] + 1]

PhaseOver(t) == sent' = [sent EXCEPT ![t] = 0]

\* A publication that raises, or whose await is interrupted, may be in the
\* stream all the same, but not in the buffer.
MaybePublished(t) ==
  /\ Unsent(t)
  /\ ToStream(t, NextDraft(t)) \/ UNCHANGED stream
  /\ UNCHANGED <<buffer, durable>>

Send(t) ==
  /\ stop[t] = "none"
  /\ Unsent(t)
  /\ PublishLive(t, NextDraft(t))
  /\ sent' = [sent EXCEPT ![t] = @ + 1]
  /\ UNCHANGED <<vars, durable, told, copied, clientVars>>

SendLaunch(t) ==
  /\ Launch(t)
  /\ PublishLive(t, SessionEvent)
  /\ UNCHANGED <<durable, sent, told, copied, clientVars>>

SendLaunchFails(t) ==
  /\ LaunchFails(t)
  /\ ToStream(t, SessionEvent) \/ UNCHANGED stream
  /\ UNCHANGED <<buffer, durable, sent, told, copied, clientVars>>

\* Mutation: the events are not flushed before the terminal row is written.
FlushLate(t) ==
  /\ \/ Finish(t) /\ UNCHANGED durable
     \/ Announce(t) /\ ~Unsent(t) /\ Flush(t)
  /\ PhaseOver(t)
  /\ UNCHANGED <<stream, buffer, told, copied, clientVars>>

\* The flushes of the normal end (executor.py 911, 918).
FlushThrough(t) ==
  /\ Finish(t) \/ (Announce(t) /\ ~Unsent(t))
  /\ Flush(t)
  /\ PhaseOver(t)
  /\ UNCHANGED <<stream, buffer, told, copied, clientVars>>

\* The last flush; publishing the title may raise before it.
FlushLast(t) ==
  /\ AfterDone(t)
  /\ Flush(t)
  /\ \/ UNCHANGED <<faults, stream>>
     \/ /\ faults' # faults /\ Unsent(t)
        /\ ToStream(t, NextDraft(t)) \/ UNCHANGED stream
  /\ PhaseOver(t)
  /\ UNCHANGED <<buffer, told, copied, clientVars>>

\* The publications of the two except blocks.
FlushHandler(t) ==
  /\ CancelPublish(t) \/ CancelAnnounce(t) \/ FailPublish(t)
  /\ \/ faults' = faults /\ ~Unsent(t) /\ Flush(t) /\ UNCHANGED <<stream, buffer>>
     \/ faults' # faults /\ MaybePublished(t)
  /\ PhaseOver(t)
  /\ UNCHANGED <<told, copied, clientVars>>

SendFails(t) ==
  /\ Fail(t)
  /\ \/ faults' = faults /\ UNCHANGED <<stream, buffer, durable>>
     \/ faults' # faults /\ MaybePublished(t)
  /\ PhaseOver(t)
  /\ UNCHANGED <<told, copied, clientVars>>

\* The interrupted await may be a publication, which only Redis makes wait, or
\* a flush, which commits in its thread.
FlushesHere(t) ==
  pc[t] \in {"run", "post"} \/ (Script(t) # <<>> /\ ~Unsent(t))

InterruptEvents(t) ==
  /\ Interrupt(t)
  /\ \/ UNCHANGED <<stream, buffer, durable>>
     \/ Redis /\ UNCHANGED storeVars /\ MaybePublished(t)
     \/ UNCHANGED storeVars /\ FlushesHere(t) /\ Flush(t) /\ UNCHANGED <<stream, buffer>>
  /\ PhaseOver(t)
  /\ UNCHANGED <<told, copied, clientVars>>

\* The execution is dropped with its buffer.
DropBuffer(t) ==
  /\ Cleanup(t) \/ InterruptCleanup(t)
  /\ buffer' = [buffer EXCEPT ![t] = {}]
  /\ UNCHANGED <<stream, durable, sent, told, copied, clientVars>>

-----------------------------------------------------------------------------
(* Recovery *)

RecSendError(w) ==
  /\ rec[w].pc = "publish" /\ ~told[w]
  /\ ToStream(rec[w].turn, Draft("error", "failed"))
  /\ told' = [told EXCEPT ![w] = TRUE]
  /\ UNCHANGED <<vars, buffer, durable, sent, copied, clientVars>>

RecSendDone(w) ==
  /\ told[w]
  /\ RecPublish(w)
  /\ ToStream(rec[w].turn, Draft("done", "failed"))
  /\ told' = [told EXCEPT ![w] = FALSE]
  /\ UNCHANGED <<buffer, durable, sent, copied, clientVars>>

RecCopy(w) ==
  /\ rec[w].pc = "append" /\ copied[w] = 0
  /\ copied' = [copied EXCEPT ![w] = Len(stream[rec[w].turn])]
  /\ UNCHANGED <<vars, ownerVars, told, clientVars>>

\* Mutation: recovery stores its own events only.
RecStoreOwn(w) ==
  /\ copied[w] # 0
  /\ RecAppend(w)
  /\ LET t == rec[w].turn
         rows == {e \in Elements(stream[t]) : e.seq <= copied[w] /\ e.kind \in {"error", "done"}}
     IN  IF rec'[w].pc = "settle" THEN Store(t, rows) ELSE UNCHANGED durable
  /\ copied' = [copied EXCEPT ![w] = 0]
  /\ UNCHANGED <<stream, buffer, sent, told, clientVars>>

RecStore(w) ==
  /\ copied[w] # 0
  /\ RecAppend(w)
  /\ LET t == rec[w].turn
         rows == {e \in Elements(stream[t]) : e.seq <= copied[w]}
     IN  IF rec'[w].pc = "settle" THEN Store(t, rows) ELSE UNCHANGED durable
  /\ copied' = [copied EXCEPT ![w] = 0]
  /\ UNCHANGED <<stream, buffer, sent, told, clientVars>>

RecGivesUp(w) ==
  /\ RecFails(w)
  /\ copied[w] = 0
  /\ \/ UNCHANGED stream
     \/ /\ rec[w].pc = "publish"
        /\ ToStream(rec[w].turn, Draft(IF told[w] THEN "done" ELSE "error", "failed"))
  /\ told' = [told EXCEPT ![w] = FALSE]
  /\ UNCHANGED <<buffer, durable, sent, copied, clientVars>>

-----------------------------------------------------------------------------
(* The rest of the runtime *)

\* A crash takes the buffers of the process; in memory also the streams.
CrashEvents(w) ==
  /\ Crash(w)
  /\ LET gone == {t \in Turn : worker[t] = w /\ pc[t] # "idle"}
     IN  /\ buffer' = [t \in Turn |-> IF t \in gone THEN {} ELSE buffer[t]]
         /\ sent' = [t \in Turn |-> IF t \in gone THEN 0 ELSE sent[t]]
  /\ stream' = IF Redis THEN stream ELSE [t \in Turn |-> <<>>]
  /\ told' = [told EXCEPT ![w] = FALSE]
  /\ copied' = [copied EXCEPT ![w] = 0]
  /\ UNCHANGED <<durable, clientVars>>

RemoveEvents(s) ==
  /\ RemoveSession(s)
  /\ durable' = [t \in Turn |-> IF SessionOf[t] = s THEN {} ELSE durable[t]]
  /\ UNCHANGED <<stream, buffer, sent, told, copied, clientVars>>

\* Steps without events.
QuietTurnStep(t) ==
  \/ StartTurn(t) \/ AbandonStart(t) \/ BeginTurn(t) \/ RejectLaunch(t)
  \/ Pause(t) \/ Reply(t) \/ InterruptWait(t) \/ Restore(t)
  \/ Settle(t) \/ CancelSettle(t) \/ FailSettle(t)
  \/ ObserveCancel(t) \/ Heartbeat(t) \/ CoordinationFails(t)
  \/ RequestCancel(t) \/ LocalCancel(t) \/ AdminCancel(t) \/ LeaseExpires(t)

QuietProcessStep(w) ==
  Shutdown(w) \/ RecList(w) \/ RecRead(w) \/ RecSettle(w) \/ RecAck(w)

-----------------------------------------------------------------------------
(* TurnApplicationService.subscribe_turn *)

Newer(E, n) == {e \in E : e.seq > n}
Dones(E) == {e \in E : e.kind = "done"}
Latest(E) == CHOOSE e \in E : \A f \in E : f.seq <= e.seq

SubGoto(t, p) == sub' = [sub EXCEPT ![t].pc = p]

(***************************************************************************)
(* acceptStreamEvent of the client: events it has are dropped, the next    *)
(* ones are shown, those behind a gap are held, one for a number.          *)
(***************************************************************************)
Accept(t, E) ==
  LET size == Len(shown[t])
      new == Newer(E, size)
      arrived == new \cup {e \in held[t] : \A f \in new : f.seq # e.seq}
      Arrived(n) == \E e \in arrived : e.seq = n
      next == {e.seq : e \in {f \in arrived : \A n \in size + 1 .. f.seq : Arrived(n)}}
  IN  /\ shown' = [shown EXCEPT ![t] =
            [n \in DOMAIN @ \cup next |->
               IF n \in DOMAIN @ THEN @[n] ELSE CHOOSE e \in arrived : e.seq = n]]
      /\ held' = [held EXCEPT ![t] = {e \in arrived : e.seq \notin next}]

\* The local variables of subscribe_turn after it yielded the events of E.
After(t, E) ==
  LET new == Newer(E, sub[t].last)
  IN  [sub[t] EXCEPT !.last = IF new = {} THEN @ ELSE Latest(new).seq,
                     !.done = @ \/ Dones(new) # {},
                     !.tail = IF Dones(new) = {} THEN @
                              ELSE Latest(Dones(new)).status = "completed"]

Yield(t, E, p) ==
  /\ Accept(t, Newer(E, sub[t].last))
  /\ sub' = [sub EXCEPT ![t] = [After(t, E) EXCEPT !.pc = p]]

Subscribe(t) ==
  /\ sub[t].pc = "off"
  /\ HasRow(t)
  /\ SubGoto(t, "replay")
  /\ UNCHANGED <<shown, held, resumes>>

\* get_events, then the subscription looks at the row or follows the stream.
Replay(t) ==
  /\ sub[t].pc = "replay"
  /\ Yield(t, durable[t], IF After(t, durable[t]).done THEN "check" ELSE "follow")
  /\ UNCHANGED resumes

CheckRow(t) ==
  /\ sub[t].pc = "check"
  /\ SubGoto(t, IF sub[t].tail /\ status[t] = "running" THEN "follow" ELSE "end")
  /\ UNCHANGED <<shown, held, resumes>>

\* read_events
Follow(t) ==
  /\ sub[t].pc = "follow"
  /\ LET events == Elements(stream[t])
         now == After(t, events)
     IN  Yield(t, events, IF ~now.done THEN "row" ELSE IF now.tail THEN "lease" ELSE "end")
  /\ UNCHANGED resumes

CheckLease(t) ==
  /\ sub[t].pc = "lease"
  /\ SubGoto(t, IF Active(t) THEN "follow" ELSE "end")
  /\ UNCHANGED <<shown, held, resumes>>

\* Thirty seconds after DONE, longer than a turn that does not stall takes.
TailTimeout(t) ==
  /\ MayStall
  /\ sub[t].pc = "lease"
  /\ SubGoto(t, "end")
  /\ UNCHANGED <<shown, held, resumes>>


\* Mutation: the made-up DONE does not look at the outcome.
CheckEndCompleted(t) ==
  /\ sub[t].pc = "row"
  /\ SubGoto(t, IF Nonterminal(t) THEN "follow" ELSE "end")
  /\ IF Terminal(t)
       THEN Accept(t, {[seq |-> sub[t].last + 1, kind |-> "synthesized",
                        status |-> "completed"]})
       ELSE UNCHANGED <<shown, held>>
  /\ UNCHANGED resumes

\* get_turn: a DONE is made up from a terminal row.
CheckEnd(t) ==
  /\ sub[t].pc = "row"
  /\ SubGoto(t, IF Nonterminal(t) THEN "follow" ELSE "end")
  /\ IF Terminal(t)
       THEN Accept(t, {[seq |-> sub[t].last + 1, kind |-> "synthesized",
                        status |-> status[t]]})
       ELSE UNCHANGED <<shown, held>>
  /\ UNCHANGED resumes

\* A coordinator call raises; the client is told that the subscription failed.
SubscriptionFails(t) ==
  /\ Redis
  /\ sub[t].pc \in {"follow", "lease"}
  /\ resumes < MaxResumes
  /\ resumes' = resumes + 1
  /\ SubGoto(t, "end")
  /\ UNCHANGED <<shown, held>>

\* terminalObserved of the client
Over(t) == \E i \in DOMAIN shown[t] : shown[t][i].kind \in {"done", "synthesized"}

\* requestReplay: after a broken connection, or when a subscription has ended
\* (or failed) and DONE was not shown.
Resume(t) ==
  /\ ~Over(t)
  /\ \/ sub[t].pc = "end" /\ UNCHANGED resumes
     \/ /\ sub[t].pc \notin {"off", "end"}
        /\ resumes < MaxResumes
        /\ resumes' = resumes + 1
  /\ sub' = [sub EXCEPT ![t] = [NoSubscription EXCEPT !.pc = "replay", !.last = Len(shown[t])]]
  /\ UNCHANGED <<shown, held>>

Subscriber(t) ==
  \/ Subscribe(t) \/ Replay(t) \/ CheckRow(t) \/ Follow(t)
  \/ CheckLease(t) \/ TailTimeout(t) \/ CheckEnd(t)
  \/ SubscriptionFails(t) \/ Resume(t)

-----------------------------------------------------------------------------
EvTurnStep(t) ==
  \/ (QuietTurnStep(t) /\ UNCHANGED eventVars)
  \/ SendLaunch(t) \/ SendLaunchFails(t) \/ Send(t)
  \/ FlushThrough(t) \/ FlushLast(t) \/ FlushHandler(t) \/ SendFails(t)
  \/ InterruptEvents(t) \/ DropBuffer(t)

EvProcessStep(w) ==
  \/ (QuietProcessStep(w) /\ UNCHANGED eventVars)
  \/ CrashEvents(w) \/ RecSendError(w) \/ RecSendDone(w) \/ RecCopy(w)
  \/ RecStore(w) \/ RecGivesUp(w)

ClientStep(t) ==
  /\ Subscriber(t)
  /\ UNCHANGED <<vars, ownerVars, told, copied>>

EvNext ==
  \/ \E t \in Turn : EvTurnStep(t) \/ ClientStep(t)
  \/ \E w \in Worker : EvProcessStep(w)
  \/ \E s \in Session : RemoveEvents(s)

EvSpec == EvInit /\ [][EvNext]_evVars

-----------------------------------------------------------------------------
(***************************************************************************)
(* The table never has a gap: an event is durable only with every event    *)
(* before it, whichever of the owner and recovery wrote it.  A replay that *)
(* starts behind a gap could never deliver what is missing, and the client *)
(* would hold back DONE (lifecycle.py 565-569).                            *)
(***************************************************************************)
NoDurableGap ==
  \A t \in Turn : \A e \in durable[t] : \A i \in 1 .. e.seq - 1 :
    \E f \in durable[t] : f.seq = i

(***************************************************************************)
(* A completed row has its events: a client that connects after the        *)
(* worker crashed behind the terminal update still replays all of what the *)
(* engine said (executor.py 907-912).                                      *)
(***************************************************************************)
CompletedIsDurable ==
  \A t \in Turn : status[t] = "completed" =>
    {e \in Elements(stream[t]) : e.kind \in {"session", "content"}} \subseteq durable[t]

(***************************************************************************)
(* The end a client is shown, published by the owner, by recovery or made  *)
(* up from the row, is the outcome the row keeps.                          *)
(***************************************************************************)
ClientToldOutcome ==
  \A t \in Turn : \A i \in DOMAIN shown[t] :
    shown[t][i].kind \in {"done", "synthesized"} /\ Terminal(t)
      => shown[t][i].status = status[t]

(***************************************************************************)
(* Whatever goes wrong, what the client shows under a number is the event  *)
(* that was published under it, or a DONE made up from the row: tables,    *)
(* stream, held events and two writers never disagree on a number.         *)
(***************************************************************************)
ShownAsPublished ==
  \A t \in Turn : \A i \in DOMAIN shown[t] :
    \/ shown[t][i].kind = "synthesized"
    \/ i \in DOMAIN stream[t] /\ shown[t][i] = stream[t][i]

MadeUp(events) == events # <<>> /\ events[Len(events)].kind = "synthesized"

\* What the client was shown of the log: all but a DONE made up at the end.
OfLog(events) == SubSeq(events, 1, IF MadeUp(events) THEN Len(events) - 1 ELSE Len(events))

Log == INSTANCE EventLog WITH
         log <- stream,
         shown <- [t \in Turn |-> OfLog(shown[t])]

(***************************************************************************)
(* Apart from a DONE made up at the end, the client is shown a prefix of   *)
(* the log that only grows: no event is lost, repeated or out of order     *)
(* between table, stream, buffer, recovery and reconnection.               *)
(***************************************************************************)
ImplementsLog == Log!LogSpec

(***************************************************************************)
(* Fairness: as in TurnRuntime, with the publications a task owes in a     *)
(* phase and the steps of recovery; a subscription goes on by itself, and  *)
(* the client's probe timer fires when one has ended without DONE.         *)
(***************************************************************************)
EvTaskProgress(t) ==
  \/ /\ \/ BeginTurn(t) \/ InterruptWait(t) \/ Restore(t)
        \/ Settle(t) \/ CancelSettle(t) \/ FailSettle(t)
     /\ UNCHANGED eventVars
  \/ SendLaunch(t) \/ (Send(t) /\ pc[t] \notin {"run", "post"})
  \/ (FlushThrough(t) /\ At(t, "announce")) \/ FlushLast(t) \/ FlushHandler(t)
  \/ InterruptEvents(t) \/ DropBuffer(t)

EvRecProgress(w) ==
  \/ ((RecList(w) \/ RecRead(w) \/ RecSettle(w) \/ RecAck(w)) /\ UNCHANGED eventVars)
  \/ RecSendError(w) \/ RecSendDone(w) \/ RecCopy(w) \/ RecStore(w)

ClientProgress(t) ==
  ClientStep(t) /\ (sub[t].pc = "end" \/ (sub[t].pc # "off" /\ UNCHANGED resumes))

EvFairness ==
  /\ \A t \in Turn :
       /\ WF_evVars(EvTaskProgress(t))
       /\ WF_evVars(ObserveCancel(t) /\ UNCHANGED eventVars)
       /\ WF_evVars(Heartbeat(t) /\ ~CanRenew(t) /\ UNCHANGED eventVars)
       /\ WF_evVars(LeaseExpires(t) /\ At(t, "ended") /\ UNCHANGED eventVars)
       /\ WF_evVars(ClientProgress(t))
  /\ \A w \in Worker : WF_evVars(EvRecProgress(w))

EvFairSpec == EvSpec /\ EvFairness

=============================================================================
