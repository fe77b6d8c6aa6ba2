-------------------------- MODULE TurnEvents_proofs --------------------------
(***************************************************************************)
(* Proofs about the events of turns, for any turns, workers and bounds.    *)
(*                                                                         *)
(* Publishing and following events only adds to the runtime, so what was   *)
(* proved of turns holds with them.  The main result is that nobody ever   *)
(* is shown an event under a number it was not published with: every copy  *)
(* of an event, in a buffer, in the table or held back by a client, is     *)
(* the element of the stream that its number points to.                    *)
(*                                                                         *)
(* A completed row has its events in the table whatever happens (SaidInv). *)
(* What else is promised of the table and to the client is not kept        *)
(* everywhere, so two conditions on the deployment appear as hypotheses:   *)
(* Prompt, under which clients learn the outcome that the row keeps        *)
(* (EndsAgree), and Calm, under which the table has no gap (BufferFull)    *)
(* and the events and their client implement EventLog (ClientInv).         *)
(***************************************************************************)
EXTENDS TurnEvents, TurnRuntime_proofs, WellFoundedInduction

-----------------------------------------------------------------------------
(* Events ride on the runtime *)

LEMMA EvTurnStepRuns ==
  ASSUME NEW t \in Turn, EvTurnStep(t)
  PROVE  TurnStep(t) \/ UNCHANGED vars
<1>1. CASE QuietTurnStep(t)
  BY <1>1 DEF QuietTurnStep, TurnStep
<1>2. CASE SendLaunch(t) \/ SendLaunchFails(t) \/ Send(t)
  BY <1>2 DEF SendLaunch, SendLaunchFails, Send, TurnStep
<1>3. CASE FlushThrough(t) \/ FlushLast(t)
  BY <1>3 DEF FlushThrough, FlushLast, TurnStep
<1>4. CASE FlushHandler(t) \/ SendFails(t)
  BY <1>4 DEF FlushHandler, SendFails, TurnStep
<1>5. CASE InterruptEvents(t) \/ DropBuffer(t)
  BY <1>5 DEF InterruptEvents, DropBuffer, TurnStep
<1> QED
  BY <1>1, <1>2, <1>3, <1>4, <1>5 DEF EvTurnStep

LEMMA EvProcessStepRuns ==
  ASSUME NEW w \in Worker, EvProcessStep(w)
  PROVE  ProcessStep(w) \/ UNCHANGED vars
<1>1. CASE QuietProcessStep(w)
  BY <1>1 DEF QuietProcessStep, ProcessStep
<1>2. CASE CrashEvents(w) \/ RecGivesUp(w)
  BY <1>2 DEF CrashEvents, RecGivesUp, ProcessStep
<1>3. CASE RecSendError(w) \/ RecCopy(w)
  BY <1>3 DEF RecSendError, RecCopy
<1>4. CASE RecSendDone(w) \/ RecStore(w)
  BY <1>4 DEF RecSendDone, RecStore, ProcessStep
<1> QED
  BY <1>1, <1>2, <1>3, <1>4 DEF EvProcessStep

LEMMA EvStepRuns ==
  ASSUME [EvNext]_evVars
  PROVE  [Next]_vars
<1>1. ASSUME NEW t \in Turn, EvTurnStep(t)
      PROVE  [Next]_vars
  BY <1>1, EvTurnStepRuns DEF Next
<1>2. ASSUME NEW t \in Turn, ClientStep(t)
      PROVE  [Next]_vars
  BY <1>2 DEF ClientStep
<1>3. ASSUME NEW w \in Worker, EvProcessStep(w)
      PROVE  [Next]_vars
  BY <1>3, EvProcessStepRuns DEF Next
<1>4. ASSUME NEW s \in Session, RemoveEvents(s)
      PROVE  [Next]_vars
  BY <1>4 DEF RemoveEvents, Next
<1>5. CASE UNCHANGED evVars
  BY <1>5 DEF evVars
<1> QED
  BY <1>1, <1>2, <1>3, <1>4, <1>5 DEF EvNext

\* Events and their subscribers do nothing to turns that the runtime would not
\* do without them: all that was proved of the runtime holds with events.
THEOREM EventsUseRuntime == EvSpec => Spec
<1>1. [EvNext]_evVars => [Next]_vars
  BY EvStepRuns
<1>2. EvInit => Init
  BY DEF EvInit
<1> QED
  BY <1>1, <1>2, PTL DEF EvSpec, Spec

-----------------------------------------------------------------------------
(* What a step does to the copies of events *)

Drafts == [kind : EventKind \ {"synthesized"}, status : TerminalStatus \cup {"none"}]

(***************************************************************************)
(* At most one event is added to a stream, and what comes to a buffer or   *)
(* to the table was there or is in the stream.                             *)
(***************************************************************************)
Publishes == UNCHANGED stream \/ \E t \in Turn, d \in Drafts : ToStream(t, d)

Copies ==
  /\ buffer' = [t \in Turn |-> buffer'[t]]
  /\ durable' = [t \in Turn |-> durable'[t]]
  /\ \A t \in Turn : /\ buffer'[t] \subseteq buffer[t] \cup Elements(stream'[t])
                     /\ durable'[t] \subseteq durable[t] \cup buffer[t] \cup Elements(stream'[t])

Counts ==
  /\ sent' \in [Turn -> Nat]
  /\ told' \in [Worker -> BOOLEAN]
  /\ copied' \in [Worker -> Nat]

LEMMA AppendStream ==
  ASSUME OwnerTypeOK, NEW t \in Turn, NEW d \in Drafts, ToStream(t, d)
  PROVE  /\ Stamped(t, d) \in Event
         /\ stream' \in [Turn -> Seq(Event)]
         /\ \A u \in Turn : \A i \in DOMAIN stream[u] :
              i \in DOMAIN stream'[u] /\ stream'[u][i] = stream[u][i]
         /\ \A u \in Turn : \A i \in DOMAIN stream'[u] :
              i \in DOMAIN stream[u] \/ stream'[u][i].seq = i
         /\ Stamped(t, d) \in Elements(stream'[t])
<1>1. stream[t] \in Seq(Event) /\ Len(stream[t]) \in Nat
  BY DEF OwnerTypeOK
<1>2. Stamped(t, d) \in Event /\ Stamped(t, d).seq = Len(stream[t]) + 1
  BY <1>1 DEF Stamped, Event, Drafts
<1>3. stream'[t] = Append(stream[t], Stamped(t, d))
  BY DEF ToStream, OwnerTypeOK
<1>4. /\ stream'[t] \in Seq(Event)
      /\ DOMAIN stream[t] = 1 .. Len(stream[t])
      /\ DOMAIN stream'[t] = 1 .. Len(stream[t]) + 1
      /\ \A i \in 1 .. Len(stream[t]) : stream'[t][i] = stream[t][i]
      /\ stream'[t][Len(stream[t]) + 1] = Stamped(t, d)
  BY <1>1, <1>2, <1>3
<1>5. \A u \in Turn : u # t => stream'[u] = stream[u]
  BY DEF ToStream, OwnerTypeOK
<1>6. stream' \in [Turn -> Seq(Event)]
  BY <1>4, <1>5 DEF ToStream, OwnerTypeOK
<1>7. \A i \in DOMAIN stream'[t] : i \in DOMAIN stream[t] \/ stream'[t][i].seq = i
  BY <1>1, <1>2, <1>4
<1>8. \A i \in DOMAIN stream[t] : i \in DOMAIN stream'[t] /\ stream'[t][i] = stream[t][i]
  BY <1>1, <1>4
<1>9. Stamped(t, d) \in Elements(stream'[t])
  BY <1>1, <1>4 DEF Elements
<1> QED
  BY <1>2, <1>5, <1>6, <1>7, <1>8, <1>9

LEMMA PublishLiveCopies ==
  ASSUME OwnerTypeOK, NEW t \in Turn, NEW d \in Drafts, PublishLive(t, d), UNCHANGED durable
  PROVE  Publishes /\ Copies
<1>1. ToStream(t, d) /\ Publishes
  BY DEF PublishLive, Publishes
<1>2. Stamped(t, d) \in Elements(stream'[t])
  BY <1>1, AppendStream
<1>3. Copies
  BY <1>2 DEF PublishLive, Copies, OwnerTypeOK
<1> QED
  BY <1>1, <1>3

LEMMA StoreCopies ==
  ASSUME OwnerTypeOK, NEW t \in Turn, NEW E, Store(t, E), UNCHANGED buffer,
         E \subseteq buffer[t] \cup Elements(stream'[t])
  PROVE  Copies
BY DEF Store, Copies, OwnerTypeOK

LEMMA UntouchedCopies ==
  ASSUME OwnerTypeOK, UNCHANGED <<buffer, durable>>
  PROVE  Copies
BY DEF Copies, OwnerTypeOK

LEMMA NextDraftType ==
  ASSUME TypeOK, OwnerTypeOK, NEW t \in Turn, Unsent(t)
  PROVE  NextDraft(t) \in Drafts
<1>1. outcome[t] \in TerminalStatus /\ "failed" \in TerminalStatus
  BY DEF TypeOK, TaskTypeOK, TerminalStatus
<1>2. Script(t) \in Seq(Drafts)
  <2>1. \A k \in EventKind \ {"synthesized"}, s \in TerminalStatus \cup {"none"} : Draft(k, s) \in Drafts
    BY DEF Draft, Drafts
  <2>2. [i \in 1 .. MaxContent |-> Draft("content", "none")] \in Seq(Drafts)
    BY <2>1, EventBounds DEF EventKind
  <2>3. /\ Draft("title", "none") \in Drafts
        /\ Draft("done", outcome[t]) \in Drafts
        /\ Draft("error", outcome[t]) \in Drafts
        /\ Draft("error", "failed") \in Drafts
        /\ Draft("done", "failed") \in Drafts
    BY <1>1, <2>1 DEF EventKind
  <2>4. /\ <<>> \in Seq(Drafts)
        /\ \A d \in Drafts : <<d>> \in Seq(Drafts)
        /\ \A d, e \in Drafts : <<d, e>> \in Seq(Drafts)
    OBVIOUS
  <2> QED
    BY <2>2, <2>3, <2>4 DEF Script
<1>3. sent[t] \in Nat /\ sent[t] + 1 \in 1 .. Len(Script(t))
  BY <1>2 DEF Unsent, OwnerTypeOK
<1> QED
  BY <1>2, <1>3 DEF NextDraft

LEMMA MaybePublishedCopies ==
  ASSUME TypeOK, OwnerTypeOK, NEW t \in Turn, MaybePublished(t)
  PROVE  Publishes /\ Copies
BY NextDraftType, UntouchedCopies DEF MaybePublished, Publishes

LEMMA PhaseOverCounts ==
  ASSUME OwnerTypeOK, NEW t \in Turn, PhaseOver(t), UNCHANGED <<told, copied>>
  PROVE  Counts
BY DEF OwnerTypeOK, PhaseOver, Counts

-----------------------------------------------------------------------------
LEMMA EvTurnStepCopies ==
  ASSUME TypeOK, OwnerTypeOK, NEW t \in Turn, EvTurnStep(t)
  PROVE  Publishes /\ Copies /\ Counts /\ UNCHANGED clientVars
<1>0. SessionEvent \in Drafts
  BY DEF SessionEvent, Draft, Drafts, EventKind
<1>1. CASE QuietTurnStep(t) /\ UNCHANGED eventVars
  BY <1>1, UntouchedCopies DEF eventVars, ownerVars, Publishes, Counts, OwnerTypeOK
<1>2. CASE SendLaunch(t)
  BY <1>0, <1>2, PublishLiveCopies DEF SendLaunch, Counts, OwnerTypeOK
<1>3. CASE SendLaunchFails(t)
  BY <1>0, <1>3, UntouchedCopies DEF SendLaunchFails, Publishes, Counts, OwnerTypeOK
<1>4. CASE Send(t)
  <2>1. NextDraft(t) \in Drafts
    BY <1>4, NextDraftType DEF Send
  <2>2. Counts
    BY <1>4 DEF Send, Counts, OwnerTypeOK
  <2> QED
    BY <1>4, <2>1, <2>2, PublishLiveCopies DEF Send
<1>5. CASE FlushThrough(t)
  BY <1>5, StoreCopies, PhaseOverCounts DEF FlushThrough, Flush, Publishes
<1>6. CASE FlushLast(t)
  <2>1. Copies /\ Counts
    BY <1>6, StoreCopies, PhaseOverCounts DEF FlushLast, Flush
  <2>2. Publishes
    BY <1>6, NextDraftType DEF FlushLast, Publishes
  <2> QED
    BY <1>6, <2>1, <2>2 DEF FlushLast
<1>7. CASE FlushHandler(t)
  BY <1>7, StoreCopies, MaybePublishedCopies, PhaseOverCounts DEF FlushHandler, Flush, Publishes
<1>8. CASE SendFails(t)
  BY <1>8, UntouchedCopies, MaybePublishedCopies, PhaseOverCounts DEF SendFails, Publishes
<1>9. CASE InterruptEvents(t)
  BY <1>9, UntouchedCopies, StoreCopies, MaybePublishedCopies, PhaseOverCounts
     DEF InterruptEvents, Flush, Publishes
<1>10. CASE DropBuffer(t)
  BY <1>10 DEF DropBuffer, Publishes, Copies, Counts, OwnerTypeOK
<1> QED
  BY <1>1, <1>2, <1>3, <1>4, <1>5, <1>6, <1>7, <1>8, <1>9, <1>10 DEF EvTurnStep

LEMMA EvProcessStepCopies ==
  ASSUME TypeOK, OwnerTypeOK, NEW w \in Worker, EvProcessStep(w)
  PROVE  /\ Publishes \/ (~Redis /\ MaxCrashes # 0 /\ stream' = [t \in Turn |-> <<>>])
         /\ Copies /\ Counts /\ UNCHANGED clientVars
<1>0. rec[w].pc \in {"publish", "append"} => rec[w].turn \in Turn
  BY DEF TypeOK, RecTypeOK, Recovery
<1>1. Draft("error", "failed") \in Drafts /\ Draft("done", "failed") \in Drafts
  BY DEF Draft, Drafts, EventKind, TerminalStatus
<1>2. CASE QuietProcessStep(w) /\ UNCHANGED eventVars
  BY <1>2, UntouchedCopies DEF eventVars, ownerVars, Publishes, Counts, OwnerTypeOK
<1>3. CASE CrashEvents(w)
  <2>1. Copies
    BY <1>3 DEF CrashEvents, Copies, OwnerTypeOK
  <2>2. Counts
    BY <1>3 DEF CrashEvents, Counts, OwnerTypeOK
  <2>3. MaxCrashes # 0
    BY <1>3 DEF CrashEvents, Crash, TypeOK, BudgetTypeOK
  <2> QED
    BY <1>3, <2>1, <2>2, <2>3 DEF CrashEvents, Publishes
<1>4. CASE RecSendError(w)
  <2>1. Counts
    BY <1>4 DEF RecSendError, Counts, OwnerTypeOK
  <2> QED
    BY <1>0, <1>1, <1>4, <2>1, UntouchedCopies DEF RecSendError, Publishes
<1>5. CASE RecSendDone(w)
  <2>1. Counts
    BY <1>5 DEF RecSendDone, Counts, OwnerTypeOK
  <2> QED
    BY <1>0, <1>1, <1>5, <2>1, UntouchedCopies DEF RecSendDone, RecPublish, Publishes
<1>6. CASE RecCopy(w)
  <2>1. Counts
    BY <1>0, <1>6 DEF RecCopy, ownerVars, Counts, OwnerTypeOK
  <2> QED
    BY <1>6, <2>1, UntouchedCopies DEF RecCopy, ownerVars, Publishes
<1>7. CASE RecStore(w)
  <2>1. Counts /\ Publishes
    BY <1>7 DEF RecStore, Counts, Publishes, OwnerTypeOK
  <2>2. rec[w].turn \in Turn
    BY <1>0, <1>7 DEF RecStore, RecAppend
  <2>3. {e \in Elements(stream[rec[w].turn]) : e.seq <= copied[w]}
          \subseteq Elements(stream'[rec[w].turn])
    BY <1>7 DEF RecStore
  <2>4. Copies
    BY <1>7, <2>2, <2>3, StoreCopies, UntouchedCopies DEF RecStore
  <2> QED
    BY <1>7, <2>1, <2>4 DEF RecStore
<1>8. CASE RecGivesUp(w)
  <2>1. Counts
    BY <1>8 DEF RecGivesUp, Counts, OwnerTypeOK
  <2>2. Publishes
    BY <1>0, <1>1, <1>8 DEF RecGivesUp, Publishes
  <2> QED
    BY <1>8, <2>1, <2>2, UntouchedCopies DEF RecGivesUp
<1> QED
  BY <1>2, <1>3, <1>4, <1>5, <1>6, <1>7, <1>8 DEF EvProcessStep

LEMMA RemoveEventsCopies ==
  ASSUME OwnerTypeOK, NEW s \in Session, RemoveEvents(s)
  PROVE  Publishes /\ Copies /\ Counts /\ UNCHANGED clientVars
BY DEF RemoveEvents, Publishes, Copies, Counts, OwnerTypeOK

LEMMA ClientStepCopies ==
  ASSUME OwnerTypeOK, UNCHANGED <<ownerVars, told, copied>>
  PROVE  Publishes /\ Copies /\ Counts
BY UntouchedCopies DEF ownerVars, Publishes, Counts, OwnerTypeOK

-----------------------------------------------------------------------------
(* Types *)

LEMMA CopiesTypes ==
  ASSUME OwnerTypeOK, stream' \in [Turn -> Seq(Event)], Copies, Counts
  PROVE  OwnerTypeOK'
<1>1. \A t \in Turn : Elements(stream'[t]) \subseteq Event
  BY DEF Elements
<1>2. \A t \in Turn : buffer'[t] \subseteq Event /\ durable'[t] \subseteq Event
  BY <1>1 DEF Copies, OwnerTypeOK
<1>3. buffer' \in [Turn -> SUBSET Event] /\ durable' \in [Turn -> SUBSET Event]
  BY <1>2 DEF Copies
<1> QED
  BY <1>3 DEF Counts, OwnerTypeOK

LEMMA OwnerTypeInductive ==
  ASSUME TypeOK, OwnerTypeOK, [EvNext]_evVars
  PROVE  OwnerTypeOK'
<1>1. Publishes /\ Copies /\ Counts => OwnerTypeOK'
  <2> SUFFICES ASSUME Publishes, Copies, Counts
               PROVE  OwnerTypeOK'
    OBVIOUS
  <2>1. stream' \in [Turn -> Seq(Event)]
    BY AppendStream DEF Publishes, OwnerTypeOK
  <2> QED
    BY <2>1, CopiesTypes
<1>2. ASSUME NEW w \in Worker, EvProcessStep(w)
      PROVE  OwnerTypeOK'
  <2>1. CASE stream' = [t \in Turn |-> <<>>]
    <3>1. stream' \in [Turn -> Seq(Event)]
      BY <2>1
    <3> QED
      BY <1>2, <3>1, EvProcessStepCopies, CopiesTypes
  <2> QED
    BY <1>1, <1>2, <2>1, EvProcessStepCopies
<1>3. CASE UNCHANGED evVars
  BY <1>1, <1>3, ClientStepCopies DEF evVars, eventVars
<1> QED
  BY <1>1, <1>2, <1>3, EvTurnStepCopies, RemoveEventsCopies, ClientStepCopies
     DEF EvNext, ClientStep

\* What streams, buffers and the table hold: well-formed events, whoever
\* publishes, crashes or recovers.
THEOREM EventsTypeCorrect == EvSpec => []OwnerTypeOK
<1>1. EvInit => OwnerTypeOK
  BY DEF EvInit, OwnerTypeOK
<1>2. TypeOK /\ OwnerTypeOK /\ [EvNext]_evVars => OwnerTypeOK'
  BY OwnerTypeInductive
<1> QED
  BY <1>1, <1>2, EventsUseRuntime, RuntimeTypeCorrect, PTL DEF EvSpec

-----------------------------------------------------------------------------
(* Every copy of an event is the element of the stream with its number *)

InStream(t, e) == e.seq \in DOMAIN stream[t] /\ stream[t][e.seq] = e

Genuine(t, e) == e.kind = "synthesized" \/ InStream(t, e)

Numbered == \A t \in Turn : \A i \in DOMAIN stream[t] : stream[t][i].seq = i

CopiesInStream == \A t \in Turn : \A e \in buffer[t] \cup durable[t] : InStream(t, e)

HeldGenuine ==
  /\ shown = [t \in Turn |-> shown[t]]
  /\ held = [t \in Turn |-> held[t]]
  /\ \A t \in Turn : \A e \in held[t] : Genuine(t, e)

(***************************************************************************)
(* The inductive invariant.  What a client is shown comes from the table,  *)
(* from the stream or from what it held back, and the table from the       *)
(* buffer or from the stream recovery read: each copy has to be known to   *)
(* be in the stream under its own number.                                  *)
(***************************************************************************)
EventsInv == Numbered /\ CopiesInStream /\ HeldGenuine /\ ShownAsPublished

\* Copies stay good while the stream only grows.
LEMMA OwnerKeepsEventsInv ==
  ASSUME OwnerTypeOK, EventsInv, Publishes, Copies, UNCHANGED clientVars
  PROVE  EventsInv'
<1>1. /\ \A u \in Turn : \A i \in DOMAIN stream[u] :
           i \in DOMAIN stream'[u] /\ stream'[u][i] = stream[u][i]
      /\ \A u \in Turn : \A i \in DOMAIN stream'[u] :
           i \in DOMAIN stream[u] \/ stream'[u][i].seq = i
  BY AppendStream DEF Publishes
<1>2. Numbered'
  BY <1>1 DEF EventsInv, Numbered
<1>3. \A u \in Turn : \A e : InStream(u, e) => InStream(u, e)'
  BY <1>1 DEF InStream
<1>4. \A u \in Turn : \A e \in Elements(stream'[u]) : InStream(u, e)'
  BY <1>2 DEF Numbered, Elements, InStream
<1>5. CopiesInStream'
  BY <1>3, <1>4 DEF EventsInv, CopiesInStream, Copies
<1>6. HeldGenuine'
  BY <1>3 DEF EventsInv, HeldGenuine, Genuine, clientVars
<1>7. ShownAsPublished'
  BY <1>1 DEF EventsInv, ShownAsPublished, clientVars
<1> QED
  BY <1>2, <1>5, <1>6, <1>7 DEF EventsInv

\* Accepting genuine events shows and holds only such.
LEMMA AcceptKeepsEventsInv ==
  ASSUME EventsInv, UNCHANGED ownerVars, NEW t \in Turn, NEW E, Accept(t, E),
         \A e \in E : Genuine(t, e)
  PROVE  EventsInv'
<1> DEFINE new == Newer(E, Len(shown[t]))
           arrived == new \cup {e \in held[t] : \A f \in new : f.seq # e.seq}
           Arrived(n) == \E e \in arrived : e.seq = n
           next == {e.seq : e \in {f \in arrived :
                      \A n \in Len(shown[t]) + 1 .. f.seq : Arrived(n)}}
<1>1. \A e \in arrived : Genuine(t, e)
  BY DEF Newer, EventsInv, HeldGenuine
<1>2. /\ shown' = [shown EXCEPT ![t] =
            [n \in DOMAIN shown[t] \cup next |->
               IF n \in DOMAIN shown[t] THEN shown[t][n]
               ELSE CHOOSE e \in arrived : e.seq = n]]
      /\ held' = [held EXCEPT ![t] = {e \in arrived : e.seq \notin next}]
  BY DEF Accept, EventsInv, HeldGenuine
<1>3. \A n \in next : \E e \in arrived : e.seq = n
  OBVIOUS
<1> HIDE DEF next, arrived
<1>4. /\ shown' = [u \in Turn |-> shown'[u]]
      /\ \A u \in Turn : u # t => shown'[u] = shown[u]
      /\ shown'[t] = [n \in DOMAIN shown[t] \cup next |->
                        IF n \in DOMAIN shown[t] THEN shown[t][n]
                        ELSE CHOOSE e \in arrived : e.seq = n]
  BY <1>2 DEF EventsInv, HeldGenuine
<1>5. /\ held' = [u \in Turn |-> held'[u]]
      /\ \A u \in Turn : \A e \in held'[u] : e \in held[u] \/ (u = t /\ e \in arrived)
  BY <1>2 DEF EventsInv, HeldGenuine
<1>6. UNCHANGED <<stream, buffer, durable>>
  BY DEF ownerVars
<1>7. \A u \in Turn : \A e : Genuine(u, e) <=> Genuine(u, e)'
  BY <1>6 DEF Genuine, InStream
<1>8. HeldGenuine'
  BY <1>1, <1>4, <1>5, <1>7 DEF EventsInv, HeldGenuine
<1>9. ASSUME NEW i \in DOMAIN shown'[t], i \notin DOMAIN shown[t]
      PROVE  Genuine(t, shown'[t][i]) /\ shown'[t][i].seq = i
  <2>1. shown'[t][i] = CHOOSE e \in arrived : e.seq = i
    BY <1>4, <1>9
  <2>2. \E e \in arrived : e.seq = i
    BY <1>3, <1>4, <1>9
  <2>3. shown'[t][i] \in arrived /\ shown'[t][i].seq = i
    BY <2>1, <2>2
  <2> QED
    BY <1>1, <2>3
<1>10. \A i \in DOMAIN shown'[t] : i \in DOMAIN shown[t] => shown'[t][i] = shown[t][i]
  BY <1>4
<1>11. ShownAsPublished'
  <2> SUFFICES ASSUME NEW u \in Turn, NEW i \in DOMAIN shown'[u]
               PROVE  \/ shown'[u][i].kind = "synthesized"
                      \/ i \in DOMAIN stream[u] /\ shown'[u][i] = stream[u][i]
    BY <1>6 DEF ShownAsPublished
  <2>1. CASE u # t
    BY <1>4, <2>1 DEF EventsInv, ShownAsPublished
  <2>2. CASE u = t /\ i \in DOMAIN shown[t]
    BY <1>10, <2>2 DEF EventsInv, ShownAsPublished
  <2>3. CASE u = t /\ i \notin DOMAIN shown[t]
    <3>1. Genuine(t, shown'[t][i]) /\ shown'[t][i].seq = i
      BY <1>9, <2>3
    <3> QED
      BY <2>3, <3>1 DEF Genuine, InStream
  <2> QED
    BY <2>1, <2>2, <2>3
<1>12. Numbered' /\ CopiesInStream'
  BY <1>6 DEF EventsInv, Numbered, CopiesInStream, InStream
<1> QED
  BY <1>8, <1>11, <1>12 DEF EventsInv

LEMMA QuietClientKeepsEventsInv ==
  ASSUME EventsInv, UNCHANGED ownerVars, UNCHANGED <<shown, held>>
  PROVE  EventsInv'
BY DEF ownerVars, EventsInv, Numbered, CopiesInStream, HeldGenuine, ShownAsPublished,
       Genuine, InStream

LEMMA ClientKeepsEventsInv ==
  ASSUME EventsInv, NEW t \in Turn, ClientStep(t)
  PROVE  EventsInv'
<1>1. UNCHANGED ownerVars /\ Subscriber(t)
  BY DEF ClientStep
<1>2. CASE Replay(t)
  <2>1. \A e \in Newer(durable[t], sub[t].last) : Genuine(t, e)
    BY DEF Newer, EventsInv, CopiesInStream, Genuine
  <2> QED
    BY <1>1, <1>2, <2>1, AcceptKeepsEventsInv DEF Replay, Yield
<1>3. CASE Follow(t)
  <2>1. \A e \in Newer(Elements(stream[t]), sub[t].last) : Genuine(t, e)
    BY DEF Newer, Elements, EventsInv, Numbered, InStream, Genuine
  <2> QED
    BY <1>1, <1>3, <2>1, AcceptKeepsEventsInv DEF Follow, Yield
<1>4. CASE CheckEnd(t)
  <2>1. CASE Terminal(t)
    BY <1>1, <1>4, <2>1, AcceptKeepsEventsInv DEF CheckEnd, Genuine
  <2>2. CASE ~Terminal(t)
    BY <1>1, <1>4, <2>2, QuietClientKeepsEventsInv DEF CheckEnd
  <2> QED
    BY <2>1, <2>2
<1>5. CASE Subscribe(t) \/ CheckRow(t) \/ CheckLease(t) \/ TailTimeout(t)
  BY <1>1, <1>5, QuietClientKeepsEventsInv DEF Subscribe, CheckRow, CheckLease, TailTimeout
<1>6. CASE SubscriptionFails(t) \/ Resume(t)
  BY <1>1, <1>6, QuietClientKeepsEventsInv DEF SubscriptionFails, Resume
<1> QED
  BY <1>1, <1>2, <1>3, <1>4, <1>5, <1>6 DEF Subscriber

\* Streams outlive crashes: Redis keeps them, or the only process lives on.
StreamsStay == Redis \/ MaxCrashes = 0

LEMMA EventsInvInductive ==
  ASSUME StreamsStay, TypeOK, OwnerTypeOK, EventsInv, [EvNext]_evVars
  PROVE  EventsInv'
<1>1. ASSUME NEW t \in Turn, EvTurnStep(t)
      PROVE  EventsInv'
  BY <1>1, EvTurnStepCopies, OwnerKeepsEventsInv
<1>2. ASSUME NEW t \in Turn, ClientStep(t)
      PROVE  EventsInv'
  BY <1>2, ClientKeepsEventsInv
<1>3. ASSUME NEW w \in Worker, EvProcessStep(w)
      PROVE  EventsInv'
  BY <1>3, EvProcessStepCopies, OwnerKeepsEventsInv DEF StreamsStay
<1>4. ASSUME NEW s \in Session, RemoveEvents(s)
      PROVE  EventsInv'
  BY <1>4, RemoveEventsCopies, OwnerKeepsEventsInv
<1>5. CASE UNCHANGED evVars
  BY <1>5, QuietClientKeepsEventsInv DEF evVars, eventVars, clientVars
<1> QED
  BY <1>1, <1>2, <1>3, <1>4, <1>5 DEF EvNext

\* Copies stay where their numbers point, where streams stay.
LEMMA EventsInvariant ==
  ASSUME StreamsStay
  PROVE  EvSpec => []EventsInv
<1>1. EvInit => EventsInv
  BY DEF EvInit, EventsInv, Numbered, CopiesInStream, HeldGenuine, ShownAsPublished
<1>2. TypeOK /\ OwnerTypeOK /\ EventsInv /\ [EvNext]_evVars => EventsInv'
  BY EventsInvInductive
<1> QED
  BY <1>1, <1>2, EventsTypeCorrect, EventsUseRuntime, RuntimeTypeCorrect, PTL DEF EvSpec

(***************************************************************************)
(* With the shared backend, and in memory as long as the process lives, a  *)
(* client is never shown an event under a number that another event was    *)
(* published with, whatever crashes, stalls, fails, is cancelled or is     *)
(* recovered, for any number of workers, events and reconnections.         *)
(***************************************************************************)
THEOREM ShownIsPublished ==
  ASSUME StreamsStay
  PROVE  EvSpec => []ShownAsPublished
<1>1. EventsInv => ShownAsPublished
  BY DEF EventsInv
<1> QED
  BY <1>1, EventsInvariant, PTL

-----------------------------------------------------------------------------
(* What the engine said is durable before a row says completed *)

\* The phases in which a task unwinds with an outcome of its own.
Handlers == {"cancelPublish", "cancelSettle", "cancelAnnounce", "failPublish", "failSettle"}

\* Only a task that settles completes a row; the way into each phase.
LEMMA WayToCompleted ==
  ASSUME TypeOK, NEW t \in Turn, TurnStep(t)
  PROVE  /\ status'[t] = "completed" =>
              \/ status[t] = "completed" \/ pc[t] = "settle"
              \/ pc[t] \in Handlers /\ outcome[t] = "completed"
         /\ pc'[t] = "launch" => pc[t] \in {"acquired", "launch"}
         /\ pc'[t] \in {"run", "wait", "restore"} => pc[t] \in {"launch", "run", "wait", "restore"}
         /\ pc'[t] = "settle" => pc[t] = "settle" \/ Finish(t)
         /\ pc'[t] \in Handlers =>
              \/ pc[t] \in Handlers /\ outcome'[t] = outcome[t]
              \/ outcome'[t] # "completed"
<1> USE DEF TypeOK, TaskTypeOK, StoreTypeOK, taskVars, Goto, At, Continues, Handlers
<1>1. CASE StartTurn(t) \/ AbandonStart(t)
  BY <1>1 DEF StartTurn, AbandonStart, storeVars
<1>2. CASE BeginTurn(t)
  BY <1>2 DEF BeginTurn, Begin, storeVars
<1>3. CASE RejectLaunch(t) \/ LaunchFails(t)
  BY <1>3 DEF RejectLaunch, LaunchFails, Transition
<1>4. CASE Launch(t) \/ Reply(t) \/ InterruptWait(t) \/ Finish(t)
  BY <1>4 DEF Launch, Reply, InterruptWait, Finish, storeVars
<1>5. CASE Pause(t) \/ Restore(t)
  BY <1>5 DEF Pause, Restore, Transition
<1>6. CASE Settle(t)
  BY <1>6 DEF Settle
<1>7. CASE Announce(t) \/ AfterDone(t)
  BY <1>7 DEF Announce, AfterDone, storeVars
<1>8. CASE Interrupt(t)
  <2>1. outcome'[t] = IF UnwindTo(t) = "cleanup" THEN outcome[t] ELSE StopOutcome(t)
    BY <1>8 DEF Interrupt
  <2>2. pc'[t] = UnwindTo(t) /\ UnwindTo(t) \in {"cleanup", "cancelSettle", "cancelPublish"}
    BY <1>8 DEF Interrupt, UnwindTo
  <2>3. StopOutcome(t) # "completed"
    BY DEF StopOutcome
  <2>4. ASSUME status'[t] = "completed", status[t] # "completed"
        PROVE  pc[t] = "settle" \/ (pc[t] \in Handlers /\ outcome[t] = "completed")
    BY <1>8, <2>4 DEF Interrupt, InFlight, Transition, storeVars
  <2> QED
    BY <2>1, <2>2, <2>3, <2>4
<1>9. CASE CancelPublish(t) \/ CancelAnnounce(t) \/ FailPublish(t)
  BY <1>9 DEF CancelPublish, CancelAnnounce, FailPublish, storeVars
<1>10. CASE CancelSettle(t) \/ FailSettle(t)
  BY <1>10 DEF CancelSettle, FailSettle, Transition
<1>11. CASE Fail(t)
  BY <1>11 DEF Fail, storeVars
<1>12. CASE Cleanup(t) \/ InterruptCleanup(t)
  BY <1>12 DEF Cleanup, InterruptCleanup, Exit, storeVars
<1>13. CASE ObserveCancel(t) \/ Heartbeat(t) \/ CoordinationFails(t) \/ LeaseExpires(t)
  BY <1>13 DEF ObserveCancel, Heartbeat, CoordinationFails, LeaseExpires, storeVars
<1>14. CASE RequestCancel(t) \/ LocalCancel(t)
  BY <1>14 DEF RequestCancel, LocalCancel, storeVars
<1>15. CASE AdminCancel(t)
  BY <1>15 DEF AdminCancel, Transition
<1> QED
  BY <1>1, <1>2, <1>3, <1>4, <1>5, <1>6, <1>7, <1>8, <1>9, <1>10, <1>11, <1>12, <1>13, <1>14,
     <1>15 DEF TurnStep

\* A process step completes no row.
LEMMA ProcessesCompleteNothing ==
  ASSUME TypeOK, NEW w \in Worker, ProcessStep(w), NEW u \in Turn
  PROVE  status'[u] = "completed" => status[u] = "completed"
<1>1. CASE RecSettle(w)
  BY <1>1 DEF RecSettle, Transition, TypeOK, StoreTypeOK
<1>2. CASE Shutdown(w) \/ Crash(w)
  BY <1>2 DEF Shutdown, Crash, storeVars
<1>3. CASE RecList(w) \/ RecRead(w) \/ RecPublish(w) \/ RecAppend(w) \/ RecAck(w) \/ RecFails(w)
  BY <1>3 DEF RecList, RecRead, RecPublish, RecAppend, RecAck, RecFails, storeVars
<1> QED
  BY <1>1, <1>2, <1>3 DEF ProcessStep

-----------------------------------------------------------------------------
\* What the start and the engine of a turn said.
Said(t) == {e \in Elements(stream[t]) : e.kind \in {"session", "content"}}

LEMMA StreamAfter ==
  ASSUME OwnerTypeOK, NEW t \in Turn, NEW d \in Drafts, ToStream(t, d)
  PROVE  /\ Elements(stream'[t]) = Elements(stream[t]) \cup {Stamped(t, d)}
         /\ \A u \in Turn : u # t => stream'[u] = stream[u]
<1>1. stream[t] \in Seq(Event) /\ Len(stream[t]) \in Nat
  BY DEF OwnerTypeOK
<1>2. stream'[t] = Append(stream[t], Stamped(t, d)) /\ \A u \in Turn : u # t => stream'[u] = stream[u]
  BY DEF ToStream, OwnerTypeOK
<1>3. Stamped(t, d) \in Event
  BY AppendStream
<1>4. /\ DOMAIN stream'[t] = 1 .. Len(stream[t]) + 1
      /\ DOMAIN stream[t] = 1 .. Len(stream[t])
      /\ \A i \in 1 .. Len(stream[t]) : stream'[t][i] = stream[t][i]
      /\ stream'[t][Len(stream[t]) + 1] = Stamped(t, d)
  BY <1>1, <1>2, <1>3
<1>5. \A i \in DOMAIN stream'[t] : i \in DOMAIN stream[t] \/ i = Len(stream[t]) + 1
  BY <1>1, <1>4
<1>6. Len(stream[t]) + 1 \in DOMAIN stream'[t] /\ DOMAIN stream[t] \subseteq DOMAIN stream'[t]
  BY <1>1, <1>4
<1> QED
  BY <1>2, <1>4, <1>5, <1>6 DEF Elements

LEMMA SaidAfter ==
  ASSUME OwnerTypeOK, NEW t \in Turn, NEW d \in Drafts, ToStream(t, d)
  PROVE  /\ Said(t)' \subseteq Said(t) \cup {Stamped(t, d)}
         /\ d.kind \notin {"session", "content"} => Said(t)' = Said(t)
         /\ \A u \in Turn : u # t => stream'[u] = stream[u]
<1>1. Stamped(t, d).kind = d.kind
  BY DEF Stamped
<1> QED
  BY <1>1, StreamAfter DEF Said

\* The drafts of the other phases are of other kinds.
LEMMA OnlyTheEngineSays ==
  ASSUME TypeOK, OwnerTypeOK, NEW t \in Turn, Unsent(t), ~At(t, "run")
  PROVE  NextDraft(t).kind \notin {"session", "content"}
<1>1. sent[t] \in Nat
  BY DEF OwnerTypeOK
<1>2. CASE Script(t) = <<>>
  BY <1>1, <1>2 DEF Unsent
<1>3. ASSUME NEW d, Script(t) = <<d>>
      PROVE  NextDraft(t) = d
  BY <1>1, <1>3 DEF Unsent, NextDraft
<1>4. ASSUME NEW d, NEW e, Script(t) = <<d, e>>
      PROVE  NextDraft(t) \in {d, e}
  <2>1. sent[t] + 1 \in 1 .. 2
    BY <1>1, <1>4 DEF Unsent
  <2> QED
    BY <1>4, <2>1 DEF NextDraft
<1> QED
  BY <1>2, <1>3, <1>4 DEF Script, Draft

(***************************************************************************)
(* What a step of turn t does to what was said: it goes to the buffer      *)
(* while the engine runs, and the buffer to the table when it is done.     *)
(***************************************************************************)
SaidMoves(t) ==
  /\ durable[t] \subseteq durable'[t]
  /\ \/ Said(t)' \subseteq Said(t) /\ (buffer[t] \subseteq buffer'[t] \/ pc'[t] = "ended")
     \/ /\ pc[t] \in {"launch", "run"} /\ pc'[t] = "run"
        /\ Said(t)' \subseteq Said(t) \cup buffer'[t] /\ buffer[t] \subseteq buffer'[t]
     \/ pc[t] \in {"launch", "run"} /\ pc'[t] \in {"ended"} \cup Unwinding
  /\ Finish(t) /\ HasRow(t) =>
       Said(t)' \subseteq Said(t) /\ buffer[t] \subseteq durable'[t] /\ status'[t] = status[t]

LEMMA EvTurnStepSaid ==
  ASSUME TypeOK, OwnerTypeOK, NEW t \in Turn, EvTurnStep(t)
  PROVE  /\ SaidMoves(t)
         /\ \A u \in Turn : u # t => UNCHANGED <<stream[u], buffer[u], durable[u]>>
<1> DEFINE Others == \A u \in Turn : u # t => UNCHANGED <<stream[u], buffer[u], durable[u]>>
<1>0. SessionEvent \in Drafts /\ (Unsent(t) => NextDraft(t) \in Drafts)
  BY NextDraftType DEF SessionEvent, Draft, Drafts, EventKind
<1>a. UNCHANGED stream => Said(t)' = Said(t)
  BY DEF Said
<1>b. \A E : Store(t, E) => /\ durable[t] \subseteq durable'[t]
                            /\ HasRow(t) => E \subseteq durable'[t]
                            /\ \A u \in Turn : u # t => durable'[u] = durable[u]
  BY DEF Store, OwnerTypeOK
<1>c. Finish(t) => At(t, "run") /\ UNCHANGED storeVars
  BY DEF Finish, Continues
<1>d. MaybePublished(t) => /\ UNCHANGED <<buffer, durable>>
                           /\ \A u \in Turn : u # t => stream'[u] = stream[u]
                           /\ ~At(t, "run") => Said(t)' = Said(t)
  BY <1>0, <1>a, SaidAfter, OnlyTheEngineSays DEF MaybePublished
<1>1. CASE QuietTurnStep(t) /\ UNCHANGED eventVars
  <2>1. ~Finish(t)
    <3> SUFFICES ASSUME Finish(t)
                 PROVE  FALSE
      OBVIOUS
    <3>1. pc[t] = "run" /\ pc'[t] = "settle"
      BY DEF Finish, Continues, At, Goto, TypeOK, TaskTypeOK
    <3> USE DEF TypeOK, TaskTypeOK, Goto, At, Continues, taskVars
    <3>2. CASE StartTurn(t) \/ AbandonStart(t) \/ BeginTurn(t) \/ RejectLaunch(t)
      BY <3>1, <3>2 DEF StartTurn, AbandonStart, BeginTurn, RejectLaunch
    <3>3. CASE Pause(t) \/ Reply(t) \/ InterruptWait(t) \/ Restore(t)
      BY <3>1, <3>3 DEF Pause, Reply, InterruptWait, Restore
    <3>4. CASE Settle(t) \/ CancelSettle(t) \/ FailSettle(t)
      BY <3>1, <3>4 DEF Settle, CancelSettle, FailSettle
    <3>5. CASE ObserveCancel(t) \/ Heartbeat(t) \/ CoordinationFails(t)
      BY <3>1, <3>5 DEF ObserveCancel, Heartbeat, CoordinationFails
    <3>6. CASE RequestCancel(t) \/ LocalCancel(t) \/ AdminCancel(t) \/ LeaseExpires(t)
      BY <3>1, <3>6 DEF RequestCancel, LocalCancel, AdminCancel, LeaseExpires
    <3> QED
      BY <1>1, <3>2, <3>3, <3>4, <3>5, <3>6 DEF QuietTurnStep
  <2> QED
    BY <1>1, <1>a, <2>1 DEF eventVars, ownerVars, SaidMoves
<1>2. CASE SendLaunch(t)
  <2>1. pc[t] = "launch" /\ pc'[t] = "run"
    BY <1>2 DEF SendLaunch, Launch, At, Goto, TypeOK, TaskTypeOK
  <2>2. /\ ToStream(t, SessionEvent) /\ UNCHANGED durable
        /\ buffer'[t] = buffer[t] \cup {Stamped(t, SessionEvent)}
        /\ \A u \in Turn : u # t => buffer'[u] = buffer[u]
    BY <1>2 DEF SendLaunch, PublishLive, OwnerTypeOK
  <2>3. Said(t)' \subseteq Said(t) \cup buffer'[t] /\ Others
    BY <1>0, <2>2, SaidAfter
  <2>4. ~Finish(t)
    BY <1>c, <2>1 DEF At
  <2> QED
    BY <2>1, <2>2, <2>3, <2>4 DEF SaidMoves
<1>3. CASE SendLaunchFails(t)
  <2>1. pc[t] = "launch" /\ pc'[t] = "ended"
    BY <1>3 DEF SendLaunchFails, LaunchFails, At, Goto, TypeOK, TaskTypeOK
  <2>2. UNCHANGED <<buffer, durable>> /\ \A u \in Turn : u # t => stream'[u] = stream[u]
    BY <1>0, <1>3, SaidAfter DEF SendLaunchFails
  <2> QED
    BY <1>c, <2>1, <2>2 DEF SaidMoves, At
<1>4. CASE Send(t)
  <2>1. /\ UNCHANGED <<pc, durable>> /\ Unsent(t) /\ ToStream(t, NextDraft(t))
        /\ buffer'[t] = buffer[t] \cup {Stamped(t, NextDraft(t))}
        /\ \A u \in Turn : u # t => buffer'[u] = buffer[u]
    BY <1>4 DEF Send, PublishLive, OwnerTypeOK, vars, taskVars
  <2>2. ~Finish(t)
    BY <2>1, <1>c DEF Finish, Goto, At, TypeOK, TaskTypeOK
  <2>3. CASE At(t, "run")
    BY <1>0, <2>1, <2>2, <2>3, SaidAfter DEF SaidMoves, At
  <2>4. CASE ~At(t, "run")
    BY <1>0, <2>1, <2>2, <2>4, SaidAfter, OnlyTheEngineSays DEF SaidMoves
  <2> QED
    BY <2>3, <2>4
<1>5. CASE FlushThrough(t)
  <2>1. Store(t, buffer[t]) /\ UNCHANGED <<stream, buffer>>
    BY <1>5 DEF FlushThrough, Flush
  <2> QED
    BY <1>a, <1>b, <1>c, <2>1 DEF SaidMoves, storeVars
<1>6. CASE FlushLast(t)
  <2>1. Store(t, buffer[t]) /\ UNCHANGED buffer /\ At(t, "post")
    BY <1>6 DEF FlushLast, Flush, AfterDone, Continues
  <2>2. Said(t)' = Said(t) /\ \A u \in Turn : u # t => stream'[u] = stream[u]
    BY <1>0, <1>6, <1>a, <2>1, SaidAfter, OnlyTheEngineSays DEF FlushLast, At
  <2> QED
    BY <1>b, <1>c, <2>1, <2>2 DEF SaidMoves, At
<1>7. CASE FlushHandler(t)
  <2>1. ~At(t, "run")
    BY <1>7 DEF FlushHandler, CancelPublish, CancelAnnounce, FailPublish, Continues, At
  <2>2. \/ Store(t, buffer[t]) /\ UNCHANGED <<stream, buffer>>
        \/ MaybePublished(t)
    BY <1>7 DEF FlushHandler, Flush
  <2> QED
    BY <1>a, <1>b, <1>c, <1>d, <2>1, <2>2 DEF SaidMoves
<1>8. CASE SendFails(t)
  <2>1. pc[t] \in {"run", "announce"} /\ pc'[t] = "failPublish"
    BY <1>8 DEF SendFails, Fail, Continues, At, Goto, TypeOK, TaskTypeOK
  <2>2. UNCHANGED <<stream, buffer, durable>> \/ MaybePublished(t)
    BY <1>8 DEF SendFails
  <2>3. ~Finish(t)
    BY <2>1 DEF Finish, Goto, TypeOK, TaskTypeOK
  <2> QED
    BY <1>a, <1>d, <2>1, <2>2, <2>3 DEF SaidMoves, At, Unwinding
<1>9. CASE InterruptEvents(t)
  <2>1. pc'[t] \in Unwinding
    BY <1>9 DEF InterruptEvents, Interrupt, UnwindTo, Unwinding, Goto, TypeOK, TaskTypeOK
  <2>2. \/ UNCHANGED <<stream, buffer, durable>>
        \/ MaybePublished(t)
        \/ Store(t, buffer[t]) /\ UNCHANGED <<stream, buffer>>
    BY <1>9 DEF InterruptEvents, Flush
  <2>3. ~Finish(t)
    BY <2>1 DEF Finish, Goto, TypeOK, TaskTypeOK, Unwinding
  <2>4. durable[t] \subseteq durable'[t] /\ buffer' = buffer /\ Others
    BY <1>b, <1>d, <2>2
  <2>5. Said(t)' \subseteq Said(t) \/ pc[t] = "run"
    BY <1>a, <1>d, <2>2 DEF At
  <2> QED
    BY <2>1, <2>3, <2>4, <2>5 DEF SaidMoves
<1>10. CASE DropBuffer(t)
  <2>1. pc'[t] = "ended" /\ UNCHANGED <<stream, durable>>
    BY <1>10 DEF DropBuffer, Cleanup, InterruptCleanup, Exit
  <2>2. \A u \in Turn : u # t => buffer'[u] = buffer[u]
    BY <1>10 DEF DropBuffer, OwnerTypeOK
  <2>3. ~Finish(t)
    BY <2>1 DEF Finish, Goto, TypeOK, TaskTypeOK
  <2> QED
    BY <1>a, <2>1, <2>2, <2>3 DEF SaidMoves
<1> QED
  BY <1>1, <1>2, <1>3, <1>4, <1>5, <1>6, <1>7, <1>8, <1>9, <1>10 DEF EvTurnStep

\* Processes say nothing; a crash drops the buffers of the tasks that it ends.
LEMMA EvProcessStepSaid ==
  ASSUME TypeOK, OwnerTypeOK, NEW w \in Worker, EvProcessStep(w), NEW u \in Turn
  PROVE  /\ durable[u] \subseteq durable'[u]
         /\ Said(u)' \subseteq Said(u)
         /\ buffer[u] \subseteq buffer'[u] \/ pc'[u] = "ended"
<1>0. rec[w].pc \in {"publish", "append"} => rec[w].turn \in Turn
  BY DEF TypeOK, RecTypeOK, Recovery
<1>1. Draft("error", "failed") \in Drafts /\ Draft("done", "failed") \in Drafts
  BY DEF Draft, Drafts, EventKind, TerminalStatus
<1>2. \A t \in Turn : \A d \in {Draft("error", "failed"), Draft("done", "failed")} :
        ToStream(t, d) => Said(u)' = Said(u)
  <2> SUFFICES ASSUME NEW t \in Turn, NEW d \in {Draft("error", "failed"), Draft("done", "failed")},
                      ToStream(t, d)
               PROVE  Said(u)' = Said(u)
    OBVIOUS
  <2>1. d \in Drafts /\ d.kind \notin {"session", "content"}
    BY <1>1 DEF Draft
  <2> QED
    BY <2>1, SaidAfter DEF Said
<1>a. UNCHANGED stream => Said(u)' = Said(u)
  BY DEF Said
<1>3. CASE QuietProcessStep(w) /\ UNCHANGED eventVars
  BY <1>3, <1>a DEF eventVars, ownerVars
<1>4. CASE CrashEvents(w)
  <2>1. UNCHANGED durable /\ (stream' = stream \/ stream' = [t \in Turn |-> <<>>])
    BY <1>4 DEF CrashEvents
  <2>2. Said(u)' \subseteq Said(u)
    BY <1>a, <2>1 DEF Said, Elements
  <2>3. buffer[u] \subseteq buffer'[u] \/ pc'[u] = "ended"
    BY <1>4 DEF CrashEvents, Crash, Exit
  <2> QED
    BY <2>1, <2>2, <2>3
<1>5. CASE RecSendError(w) \/ RecSendDone(w)
  BY <1>0, <1>2, <1>5 DEF RecSendError, RecSendDone, RecPublish
<1>6. CASE RecCopy(w)
  BY <1>6, <1>a DEF RecCopy, ownerVars
<1>7. CASE RecStore(w)
  <2>1. UNCHANGED <<stream, buffer>>
    BY <1>7 DEF RecStore
  <2>2. durable[u] \subseteq durable'[u]
    BY <1>7 DEF RecStore, Store, OwnerTypeOK
  <2> QED
    BY <1>a, <2>1, <2>2
<1>8. CASE RecGivesUp(w)
  BY <1>0, <1>2, <1>8, <1>a DEF RecGivesUp
<1> QED
  BY <1>3, <1>4, <1>5, <1>6, <1>7, <1>8 DEF EvProcessStep

-----------------------------------------------------------------------------
(***************************************************************************)
(* The inductive invariant: nothing was said before the launch; while the  *)
(* engine runs the buffer has all of it and the row is not completed; who  *)
(* settles has flushed it, and no handler completes a row.                 *)
(***************************************************************************)
SaidInv ==
  \A t \in Turn :
    /\ pc[t] \in {"idle", "acquired"} => ~HasRow(t)
    /\ pc[t] \in {"idle", "acquired", "launch"} => Said(t) = {}
    /\ pc[t] \in {"launch", "run", "wait", "restore"} => status[t] # "completed"
    /\ pc[t] \in {"run", "wait", "restore"} => Said(t) \subseteq buffer[t]
    /\ pc[t] = "settle" /\ HasRow(t) => Said(t) \subseteq durable[t]
    /\ status[t] = "completed" => Said(t) \subseteq durable[t]
    /\ pc[t] \in Handlers => outcome[t] # "completed"

\* A step that leaves turn u alone, ends its task or deletes its row.
LEMMA SaidKept ==
  ASSUME SaidInv, NEW u \in Turn,
         \/ pc'[u] = pc[u] /\ outcome'[u] = outcome[u] /\ buffer[u] \subseteq buffer'[u]
         \/ pc'[u] = "ended",
         HasRow(u)' => HasRow(u) /\ durable[u] \subseteq durable'[u],
         status'[u] = "completed" => status[u] = "completed",
         Said(u)' \subseteq Said(u)
  PROVE  /\ pc'[u] \in {"idle", "acquired"} => ~HasRow(u)'
         /\ pc'[u] \in {"idle", "acquired", "launch"} => Said(u)' = {}
         /\ pc'[u] \in {"launch", "run", "wait", "restore"} => status'[u] # "completed"
         /\ pc'[u] \in {"run", "wait", "restore"} => Said(u)' \subseteq buffer'[u]
         /\ pc'[u] = "settle" /\ HasRow(u)' => Said(u)' \subseteq durable'[u]
         /\ status'[u] = "completed" => Said(u)' \subseteq durable'[u]
         /\ pc'[u] \in Handlers => outcome'[u] # "completed"
<1> USE DEF HasRow, Handlers
<1>1. status'[u] = "completed" => HasRow(u)'
  OBVIOUS
<1> QED
  BY <1>1 DEF SaidInv

\* A step of the turn itself.
LEMMA SaidByOwner ==
  ASSUME TypeOK, SaidInv, [Next]_vars, NEW u \in Turn, TurnStep(u) \/ UNCHANGED vars,
         SaidMoves(u)
  PROVE  /\ pc'[u] \in {"idle", "acquired"} => ~HasRow(u)'
         /\ pc'[u] \in {"idle", "acquired", "launch"} => Said(u)' = {}
         /\ pc'[u] \in {"launch", "run", "wait", "restore"} => status'[u] # "completed"
         /\ pc'[u] \in {"run", "wait", "restore"} => Said(u)' \subseteq buffer'[u]
         /\ pc'[u] = "settle" /\ HasRow(u)' => Said(u)' \subseteq durable'[u]
         /\ status'[u] = "completed" => Said(u)' \subseteq durable'[u]
         /\ pc'[u] \in Handlers => outcome'[u] # "completed"
<1>0. /\ status'[u] = "completed" =>
              status[u] = "completed" \/ (pc[u] = "settle" /\ HasRow(u))
      /\ pc'[u] = "launch" => pc[u] \in {"acquired", "launch"}
      /\ pc'[u] \in {"run", "wait", "restore"} => pc[u] \in {"launch", "run", "wait", "restore"}
      /\ pc'[u] = "settle" => pc[u] = "settle" \/ Finish(u)
      /\ pc'[u] \in Handlers => outcome'[u] # "completed"
  <2>1. pc[u] \in Handlers => outcome[u] # "completed"
    BY DEF SaidInv
  <2>2. status'[u] = "completed" => HasRow(u) \/ pc[u] = "acquired"
    BY RowOrigin DEF HasRow
  <2>3. CASE UNCHANGED vars
    BY <2>1, <2>3 DEF vars, taskVars, storeVars
  <2> QED
    BY <2>1, <2>2, <2>3, WayToCompleted DEF Handlers
<1>1. HasRow(u)' => HasRow(u) \/ (pc[u] = "acquired" /\ pc'[u] = "launch")
  BY RowOrigin
<1>2. pc'[u] \in {"idle", "acquired"} => pc[u] \in {"idle", "acquired"}
  BY StartOrigin, StartGives DEF StartTurn, At
<1>3. status'[u] = "completed" => HasRow(u)'
  BY DEF HasRow
<1>4. pc[u] \in {"launch", "run"} => status'[u] # "completed"
  BY <1>0 DEF SaidInv
<1>5. CASE Said(u)' \subseteq Said(u) /\ (buffer[u] \subseteq buffer'[u] \/ pc'[u] = "ended")
  <2>1. pc'[u] \in {"idle", "acquired"} => ~HasRow(u)'
    BY <1>1, <1>2 DEF SaidInv
  <2>2. pc'[u] \in {"idle", "acquired", "launch"} => Said(u)' = {}
    BY <1>0, <1>2, <1>5 DEF SaidInv
  <2>3. pc'[u] \in {"launch", "run", "wait", "restore"} => status'[u] # "completed"
    BY <1>0, <1>1 DEF SaidInv, HasRow
  <2>4. pc'[u] \in {"run", "wait", "restore"} => Said(u)' \subseteq buffer'[u]
    BY <1>0, <1>5 DEF SaidInv
  <2>5. ASSUME pc'[u] = "settle", HasRow(u)'
        PROVE  Said(u)' \subseteq durable'[u]
    <3>1. HasRow(u)
      BY <1>1, <2>5
    <3>2. CASE pc[u] = "settle"
      BY <1>5, <3>1, <3>2 DEF SaidInv, SaidMoves
    <3>3. CASE Finish(u)
      <4>1. pc[u] = "run"
        BY <3>3 DEF Finish, Continues, At
      <4> QED
        BY <3>1, <3>3, <4>1 DEF SaidInv, SaidMoves
    <3> QED
      BY <1>0, <2>5, <3>2, <3>3
  <2>6. status'[u] = "completed" => Said(u)' \subseteq durable'[u]
    BY <1>0, <1>5 DEF SaidInv, SaidMoves
  <2> QED
    BY <1>0, <2>1, <2>2, <2>3, <2>4, <2>5, <2>6
<1>6. CASE /\ pc[u] \in {"launch", "run"} /\ pc'[u] = "run"
           /\ Said(u)' \subseteq Said(u) \cup buffer'[u] /\ buffer[u] \subseteq buffer'[u]
  <2>1. Said(u)' \subseteq buffer'[u]
    BY <1>6 DEF SaidInv
  <2> QED
    BY <1>4, <1>6, <2>1 DEF Handlers
<1>7. CASE pc[u] \in {"launch", "run"} /\ pc'[u] \in {"ended"} \cup Unwinding
  BY <1>0, <1>4, <1>7 DEF Unwinding
<1> QED
  BY <1>5, <1>6, <1>7 DEF SaidMoves

LEMMA SaidStep ==
  ASSUME TypeOK, OwnerTypeOK, SaidInv, [EvNext]_evVars
  PROVE  SaidInv'
<1>0. [Next]_vars
  BY EvStepRuns
<1> SUFFICES ASSUME NEW u \in Turn
             PROVE  /\ pc'[u] \in {"idle", "acquired"} => ~HasRow(u)'
                    /\ pc'[u] \in {"idle", "acquired", "launch"} => Said(u)' = {}
                    /\ pc'[u] \in {"launch", "run", "wait", "restore"} => status'[u] # "completed"
                    /\ pc'[u] \in {"run", "wait", "restore"} => Said(u)' \subseteq buffer'[u]
                    /\ pc'[u] = "settle" /\ HasRow(u)' => Said(u)' \subseteq durable'[u]
                    /\ status'[u] = "completed" => Said(u)' \subseteq durable'[u]
                    /\ pc'[u] \in Handlers => outcome'[u] # "completed"
  BY DEF SaidInv
<1>1. CASE EvTurnStep(u)
  BY <1>0, <1>1, EvTurnStepRuns, EvTurnStepSaid, SaidByOwner
<1>2. ASSUME NEW t \in Turn, t # u, EvTurnStep(t)
      PROVE  /\ pc'[u] = pc[u] /\ outcome'[u] = outcome[u] /\ status'[u] = status[u]
             /\ UNCHANGED <<stream[u], buffer[u], durable[u]>>
  BY <1>2, EvTurnStepRuns, OtherTurns, OtherRows, EvTurnStepSaid DEF vars, taskVars, storeVars
<1>3. CASE \E t \in Turn : t # u /\ EvTurnStep(t)
  BY <1>2, <1>3, SaidKept DEF HasRow, Said
<1>4. ASSUME NEW w \in Worker, EvProcessStep(w)
      PROVE  /\ pc'[u] = "ended" \/ (/\ pc'[u] = pc[u] /\ outcome'[u] = outcome[u]
                                     /\ buffer[u] \subseteq buffer'[u])
             /\ HasRow(u)' => HasRow(u)
             /\ durable[u] \subseteq durable'[u]
             /\ status'[u] = "completed" => status[u] = "completed"
             /\ Said(u)' \subseteq Said(u)
  <2>1. CASE UNCHANGED vars
    BY <1>4, <2>1, EvProcessStepSaid DEF vars, taskVars, storeVars, HasRow
  <2>2. CASE ProcessStep(w)
    <3>1. HasRow(u)' => HasRow(u)
      BY <1>0, <2>2, RowOrigin, ProcessStepPhases
    <3> QED
      BY <1>4, <2>2, <3>1, EvProcessStepSaid, ProcessStepPhases, ProcessesCompleteNothing
  <2> QED
    BY <1>4, <2>1, <2>2, EvProcessStepRuns
<1>5. CASE \E w \in Worker : EvProcessStep(w)
  BY <1>4, <1>5, SaidKept
<1>6. CASE \E s \in Session : RemoveEvents(s)
  <2>1. /\ UNCHANGED <<pc, outcome, stream, buffer>>
        /\ \/ status'[u] = status[u] /\ durable'[u] = durable[u]
           \/ status'[u] = "none"
    BY <1>6 DEF RemoveEvents, RemoveSession, DeleteSession, taskVars
  <2> QED
    BY <2>1, SaidKept DEF HasRow, Said
<1>7. CASE UNCHANGED <<vars, ownerVars>>
  BY <1>7, SaidKept DEF vars, taskVars, storeVars, ownerVars, HasRow, Said
<1> QED
  BY <1>1, <1>3, <1>5, <1>6, <1>7 DEF EvNext, ClientStep, evVars, eventVars

(***************************************************************************)
(* Whatever crashes, stalls, fails, is cancelled or is recovered, a row    *)
(* that says completed has all that the engine said in the table, so that  *)
(* who connects later replays the whole answer (executor.py 907-912).      *)
(***************************************************************************)
THEOREM CompletedTurnsAreStored == EvSpec => []CompletedIsDurable
<1>1. EvInit => SaidInv
  <2> SUFFICES ASSUME EvInit, NEW t \in Turn
               PROVE  pc[t] = "idle" /\ status[t] = "none" /\ Said(t) = {}
    BY DEF SaidInv, HasRow, Handlers
  <2>1. pc[t] = "idle" /\ status[t] = "none" /\ stream[t] = <<>>
    BY DEF EvInit, Init, StoreInit
  <2> QED
    BY <2>1 DEF Said, Elements
<1>2. TypeOK /\ OwnerTypeOK /\ SaidInv /\ [EvNext]_evVars => SaidInv'
  BY SaidStep
<1>3. SaidInv => CompletedIsDurable
  BY DEF SaidInv, Said, CompletedIsDurable
<1> QED
  BY <1>1, <1>2, <1>3, EventsTypeCorrect, EventsUseRuntime, RuntimeTypeCorrect, PTL DEF EvSpec
-----------------------------------------------------------------------------
(* The table has no gaps *)

(***************************************************************************)
(* Leases are renewed in time, streams stay, and no publication is given   *)
(* up while it may be in the stream already: with Redis calls succeed and  *)
(* nobody asks a task to stop, but workers crash; in memory, where         *)
(* publishing does not wait, tasks are cancelled, sessions are deleted and *)
(* the process is shut down at will.                                       *)
(***************************************************************************)
Calm ==
  /\ ~MayStall
  /\ Redis => ~MayCancel /\ MaxShutdowns = 0 /\ MaxFaults = 0
  /\ ~Redis => MaxCrashes = 0

\* What the runtime ensures where it is calm.
Unhurried == (Redis => \A t \in Turn : stop[t] = "none") /\ RecoversEnded

LEMMA CalmRuntime ==
  ASSUME Calm
  PROVE  Spec => []Unhurried
<1>1. CASE Redis
  <2>1. Prompt /\ MaxShutdowns = 0 /\ ~MayStall
    BY <1>1 DEF Calm, Prompt
  <2>2. PromptInv /\ RecoversEnded => Unhurried
    BY <2>1 DEF PromptInv, Unasked, Unhurried
  <2>3. Spec => []PromptInv /\ []RecoversEnded
    BY <2>1, PromptOwners, RecoveryFollows
  <2> QED
    BY <2>2, <2>3, PTL
<1>2. CASE ~Redis
  <2>1. ~MayStall
    BY DEF Calm
  <2>2. RecoversEnded => Unhurried
    BY <1>2 DEF Unhurried
  <2> QED
    BY <2>1, <2>2, RecoveryFollows, PTL
<1> QED
  BY <1>1, <1>2

Gapless(E) == \A e \in E : \A i \in 1 .. e.seq - 1 : \E f \in E : f.seq = i

\* Phases in which a task publishes.
Publishing == {"run", "post", "announce", "cancelPublish", "cancelAnnounce", "failPublish"}

LEMMA UnsentPhase ==
  ASSUME OwnerTypeOK, NEW t \in Turn, Unsent(t)
  PROVE  pc[t] \in Publishing
<1>1. sent[t] \in Nat /\ Script(t) # <<>>
  BY DEF OwnerTypeOK, Unsent
<1> QED
  BY <1>1 DEF Script, At, Publishing

\* Steps without events neither start a task nor take one back.
LEMMA QuietPhases ==
  ASSUME TypeOK, NEW t \in Turn, QuietTurnStep(t)
  PROVE  /\ pc'[t] \in TaskPhase => pc[t] \in TaskPhase
         /\ pc'[t] \in {"idle", "acquired", "launch"} => pc[t] \in {"idle", "acquired", "launch"}
<1> USE DEF TypeOK, TaskTypeOK, Goto, At, Continues, taskVars, TaskPhase, Running, Unwinding
<1>1. CASE StartTurn(t) \/ AbandonStart(t) \/ BeginTurn(t) \/ RejectLaunch(t)
  BY <1>1 DEF StartTurn, AbandonStart, BeginTurn, RejectLaunch
<1>2. CASE Pause(t) \/ Reply(t) \/ InterruptWait(t) \/ Restore(t)
  BY <1>2 DEF Pause, Reply, InterruptWait, Restore
<1>3. CASE Settle(t) \/ CancelSettle(t) \/ FailSettle(t)
  BY <1>3 DEF Settle, CancelSettle, FailSettle
<1>4. CASE ObserveCancel(t) \/ Heartbeat(t) \/ CoordinationFails(t)
  BY <1>4 DEF ObserveCancel, Heartbeat, CoordinationFails
<1>5. CASE RequestCancel(t) \/ LocalCancel(t) \/ AdminCancel(t) \/ LeaseExpires(t)
  BY <1>5 DEF RequestCancel, LocalCancel, AdminCancel, LeaseExpires
<1> QED
  BY <1>1, <1>2, <1>3, <1>4, <1>5 DEF QuietTurnStep

(***************************************************************************)
(* The inductive invariant: the buffer of a task has all of the stream, so *)
(* that a flush leaves no gap.  Recovery, which stores a prefix of the     *)
(* stream, publishes only when the task has ended.                         *)
(***************************************************************************)
BufferFull ==
  \A t \in Turn : /\ pc[t] \in {"idle", "acquired", "launch"} => stream[t] = <<>>
                  /\ pc[t] \in TaskPhase => Elements(stream[t]) \subseteq buffer[t]

LEMMA CalmTurnStep ==
  ASSUME Calm, TypeOK, OwnerTypeOK, Unhurried, BufferFull, NEW t \in Turn, EvTurnStep(t)
  PROVE  /\ pc'[t] \in {"idle", "acquired", "launch"} => stream'[t] = <<>>
         /\ pc'[t] \in TaskPhase => Elements(stream'[t]) \subseteq buffer'[t]
         /\ \/ durable'[t] = durable[t]
            \/ pc[t] \in TaskPhase /\ durable'[t] = durable[t] \cup buffer[t]
<1>0. /\ ~Fault /\ (Redis => stop[t] = "none") /\ faults \in Nat
      /\ pc[t] \in {"idle", "acquired", "launch"} => stream[t] = <<>>
      /\ pc[t] \in TaskPhase => Elements(stream[t]) \subseteq buffer[t]
  BY DEF Fault, Calm, Unhurried, BufferFull, TypeOK, BudgetTypeOK
<1>a. \A d \in Drafts : ToStream(t, d) =>
        Elements(stream'[t]) \subseteq Elements(stream[t]) \cup {Stamped(t, d)}
  BY StreamAfter
<1>b. \A E : Store(t, E) => durable'[t] \in {durable[t], durable[t] \cup E}
  BY DEF Store, OwnerTypeOK
<1> USE DEF TaskPhase, Running, Unwinding
<1>1. CASE QuietTurnStep(t) /\ UNCHANGED eventVars
  BY <1>0, <1>1, QuietPhases DEF eventVars, ownerVars
<1>2. CASE SendLaunch(t)
  <2>1. pc[t] = "launch" /\ pc'[t] = "run"
    BY <1>2 DEF SendLaunch, Launch, At, Goto, TypeOK, TaskTypeOK
  <2>2. /\ ToStream(t, SessionEvent) /\ UNCHANGED durable /\ SessionEvent \in Drafts
        /\ buffer'[t] = buffer[t] \cup {Stamped(t, SessionEvent)}
    BY <1>2 DEF SendLaunch, PublishLive, OwnerTypeOK, SessionEvent, Draft, Drafts, EventKind
  <2>3. Elements(stream[t]) = {}
    BY <1>0, <2>1 DEF Elements
  <2> QED
    BY <1>a, <2>1, <2>2, <2>3
<1>3. CASE SendLaunchFails(t)
  BY <1>0, <1>3 DEF SendLaunchFails, LaunchFails
<1>10. CASE InterruptEvents(t)
  <2>1. ~Redis
    BY <1>0, <1>10 DEF InterruptEvents, Interrupt
  <2>2. UNCHANGED <<stream, buffer>> /\ (UNCHANGED durable \/ Store(t, buffer[t]))
    BY <1>10, <2>1 DEF InterruptEvents, Flush
  <2>3. pc[t] \in TaskPhase /\ pc'[t] \in TaskPhase
    BY <1>10 DEF InterruptEvents, Interrupt, UnwindTo, Goto, TypeOK, TaskTypeOK
  <2> QED
    BY <1>0, <1>b, <2>2, <2>3
<1>4. CASE Send(t)
  <2>1. /\ UNCHANGED <<pc, durable>> /\ Unsent(t) /\ ToStream(t, NextDraft(t))
        /\ buffer'[t] = buffer[t] \cup {Stamped(t, NextDraft(t))}
    BY <1>4 DEF Send, PublishLive, OwnerTypeOK, vars, taskVars
  <2>2. NextDraft(t) \in Drafts /\ pc[t] \in Publishing
    BY <2>1, NextDraftType, UnsentPhase
  <2> QED
    BY <1>0, <1>a, <2>1, <2>2 DEF Publishing
<1>5. CASE FlushThrough(t)
  <2>1. Store(t, buffer[t]) /\ UNCHANGED <<stream, buffer>>
    BY <1>5 DEF FlushThrough, Flush
  <2>2. pc[t] \in {"run", "announce"} /\ pc'[t] \in {"settle", "post"}
    BY <1>5 DEF FlushThrough, Finish, Announce, Continues, At, Goto, TypeOK, TaskTypeOK
  <2> QED
    BY <1>0, <1>b, <2>1, <2>2
<1>6. CASE FlushLast(t)
  <2>1. pc[t] = "post" /\ pc'[t] = "cleanup" /\ faults' = faults
    BY <1>0, <1>6 DEF FlushLast, AfterDone, NoFault, Continues, At, Goto, TypeOK, TaskTypeOK
  <2>2. Store(t, buffer[t]) /\ UNCHANGED <<stream, buffer>>
    BY <1>6, <2>1 DEF FlushLast, Flush
  <2> QED
    BY <1>0, <1>b, <2>1, <2>2
<1>7. CASE FlushHandler(t)
  <2>1. /\ pc[t] \in {"cancelPublish", "cancelAnnounce", "failPublish"}
        /\ pc'[t] \in {"cancelSettle", "failSettle", "cleanup"} /\ faults' = faults
    BY <1>0, <1>7 DEF FlushHandler, CancelPublish, CancelAnnounce, FailPublish, NoFault, Continues,
                      At, Goto, TypeOK, TaskTypeOK
  <2>2. Store(t, buffer[t]) /\ UNCHANGED <<stream, buffer>>
    BY <1>7, <2>1 DEF FlushHandler, Flush
  <2> QED
    BY <1>0, <1>b, <2>1, <2>2
<1>8. CASE SendFails(t)
  <2>1. pc[t] \in {"run", "announce"} /\ pc'[t] = "failPublish" /\ faults' = faults
    BY <1>0, <1>8 DEF SendFails, Fail, NoFault, Continues, At, Goto, TypeOK, TaskTypeOK
  <2>2. UNCHANGED <<stream, buffer, durable>>
    BY <1>8, <2>1 DEF SendFails
  <2> QED
    BY <1>0, <2>1, <2>2
<1>9. CASE DropBuffer(t)
  BY <1>9 DEF DropBuffer, Cleanup, InterruptCleanup, Exit
<1> QED
  BY <1>1, <1>2, <1>3, <1>4, <1>5, <1>6, <1>7, <1>8, <1>9, <1>10 DEF EvTurnStep

LEMMA CalmProcessStep ==
  ASSUME Calm, TypeOK, OwnerTypeOK, Unhurried, BufferFull, NEW w \in Worker, EvProcessStep(w),
         NEW t \in Turn
  PROVE  /\ pc'[t] \in {"idle", "acquired", "launch"} => stream'[t] = <<>>
         /\ pc'[t] \in TaskPhase => Elements(stream'[t]) \subseteq buffer'[t]
         /\ \/ durable'[t] = durable[t]
            \/ \E n \in Nat : durable'[t] = durable[t] \cup {e \in Elements(stream[t]) : e.seq <= n}
<1> USE DEF TaskPhase, Running, Unwinding
<1>0. /\ ~Fault
      /\ pc[t] \in {"idle", "acquired", "launch"} => stream[t] = <<>>
      /\ pc[t] \in TaskPhase => Elements(stream[t]) \subseteq buffer[t]
      /\ rec[w].pc \in {"publish", "append"} => rec[w].turn \in Turn
      /\ rec[w].pc = "publish" => pc[rec[w].turn] = "ended"
  BY DEF Fault, Calm, Unhurried, RecoversEnded, BufferFull, TypeOK, BudgetTypeOK, RecTypeOK, Recovery
<1>1. pc'[t] = "ended" \/ pc'[t] = pc[t]
  BY EvProcessStepRuns, ProcessStepPhases DEF vars, taskVars
<1>2. CASE UNCHANGED <<stream[t], buffer[t], durable[t]>>
  BY <1>0, <1>1, <1>2
<1>3. CASE QuietProcessStep(w) /\ UNCHANGED eventVars
  BY <1>2, <1>3 DEF eventVars, ownerVars
<1>4. CASE CrashEvents(w)
  <2>1. UNCHANGED <<stream, durable>> /\ (buffer'[t] = buffer[t] \/ pc'[t] = "ended")
    BY <1>4 DEF CrashEvents, Crash, Exit, Calm, TypeOK, BudgetTypeOK
  <2> QED
    BY <1>2, <2>1
<1>5. CASE RecSendError(w) \/ RecSendDone(w)
  <2>1. /\ UNCHANGED <<pc, buffer, durable>>
        /\ rec[w].pc = "publish" /\ \E d \in Drafts : ToStream(rec[w].turn, d)
    BY <1>5 DEF RecSendError, RecSendDone, RecPublish, vars, taskVars, Draft, Drafts, EventKind,
                TerminalStatus
  <2>2. CASE rec[w].turn = t
    BY <1>0, <2>1, <2>2
  <2>3. CASE rec[w].turn # t
    BY <1>0, <1>2, <2>1, <2>3, SaidAfter
  <2> QED
    BY <2>2, <2>3
<1>6. CASE RecCopy(w)
  BY <1>2, <1>6 DEF RecCopy, ownerVars
<1>7. CASE RecStore(w)
  <2>1. UNCHANGED <<stream, buffer>> /\ copied[w] \in Nat /\ rec[w].turn \in Turn
    BY <1>0, <1>7 DEF RecStore, RecAppend, OwnerTypeOK
  <2>2. \/ durable'[t] = durable[t]
        \/ durable'[t] = durable[t] \cup {e \in Elements(stream[t]) : e.seq <= copied[w]}
    BY <1>7, <2>1 DEF RecStore, Store, OwnerTypeOK
  <2> QED
    BY <1>0, <1>1, <2>1, <2>2
<1>8. CASE RecGivesUp(w)
  BY <1>0, <1>8 DEF RecGivesUp, RecFails
<1> QED
  BY <1>3, <1>4, <1>5, <1>6, <1>7, <1>8 DEF EvProcessStep

\* A prefix of a numbered stream has no gap, and the union of two such sets.
LEMMA PrefixGapless ==
  ASSUME OwnerTypeOK, Numbered, NEW t \in Turn, NEW n \in Nat
  PROVE  /\ Gapless({e \in Elements(stream[t]) : e.seq <= n})
         /\ Gapless(Elements(stream[t]))
<1>1. stream[t] \in Seq(Event) /\ DOMAIN stream[t] = 1 .. Len(stream[t]) /\ Len(stream[t]) \in Nat
  BY DEF OwnerTypeOK
<1>2. \A e \in Elements(stream[t]) : e.seq \in DOMAIN stream[t]
  BY DEF Elements, Numbered
<1>3. \A e \in Elements(stream[t]) : \A i \in 1 .. e.seq - 1 :
        /\ stream[t][i] \in Elements(stream[t]) /\ stream[t][i].seq = i
        /\ e.seq <= n => i <= n
  BY <1>1, <1>2 DEF Elements, Numbered
<1> QED
  BY <1>3 DEF Gapless

LEMMA UnionGapless ==
  ASSUME NEW E, NEW F, Gapless(E), Gapless(F)
  PROVE  Gapless(E \cup F)
BY DEF Gapless

LEMMA GapStep ==
  ASSUME Calm, TypeOK, OwnerTypeOK, Unhurried, EventsInv, BufferFull, NoDurableGap,
         [EvNext]_evVars
  PROVE  BufferFull' /\ NoDurableGap'
<1> SUFFICES ASSUME NEW u \in Turn
             PROVE  /\ pc'[u] \in {"idle", "acquired", "launch"} => stream'[u] = <<>>
                    /\ pc'[u] \in TaskPhase => Elements(stream'[u]) \subseteq buffer'[u]
                    /\ Gapless(durable'[u])
  BY DEF BufferFull, NoDurableGap, Gapless
<1>1. /\ Gapless(durable[u])
      /\ pc[u] \in {"idle", "acquired", "launch"} => stream[u] = <<>>
      /\ pc[u] \in TaskPhase => Elements(stream[u]) \subseteq buffer[u]
  BY DEF NoDurableGap, Gapless, BufferFull
<1>2. CASE EvTurnStep(u)
  <2>1. ASSUME pc[u] \in TaskPhase
        PROVE  Gapless(buffer[u])
    <3>1. buffer[u] = Elements(stream[u])
      BY <1>1, <2>1 DEF EventsInv, CopiesInStream, InStream, Elements
    <3> QED
      BY <3>1, PrefixGapless DEF EventsInv
  <2> QED
    BY <1>1, <1>2, <2>1, CalmTurnStep, UnionGapless
<1>3. CASE UNCHANGED <<pc[u], stream[u], buffer[u], durable[u]>>
  BY <1>1, <1>3
<1>4. ASSUME NEW t \in Turn, t # u, EvTurnStep(t)
      PROVE  UNCHANGED <<pc[u], stream[u], buffer[u], durable[u]>>
  BY <1>4, EvTurnStepRuns, OtherTurns, EvTurnStepSaid DEF vars, taskVars
<1>5. ASSUME NEW w \in Worker, EvProcessStep(w)
      PROVE  /\ pc'[u] \in {"idle", "acquired", "launch"} => stream'[u] = <<>>
             /\ pc'[u] \in TaskPhase => Elements(stream'[u]) \subseteq buffer'[u]
             /\ Gapless(durable'[u])
  <2>1. ASSUME NEW n \in Nat,
               durable'[u] = durable[u] \cup {e \in Elements(stream[u]) : e.seq <= n}
        PROVE  Gapless(durable'[u])
    <3> DEFINE rows == {e \in Elements(stream[u]) : e.seq <= n}
    <3>1. Gapless(rows)
      BY PrefixGapless DEF EventsInv
    <3> HIDE DEF rows
    <3>2. Gapless(durable[u] \cup rows)
      BY <1>1, <3>1, UnionGapless
    <3> QED
      BY <2>1, <3>2 DEF rows
  <2> QED
    BY <1>1, <1>5, <2>1, CalmProcessStep
<1>6. ASSUME NEW s \in Session, RemoveEvents(s)
      PROVE  /\ UNCHANGED <<pc[u], stream[u], buffer[u]>>
             /\ durable'[u] = durable[u] \/ durable'[u] = {}
  BY <1>6 DEF RemoveEvents, RemoveSession, taskVars
<1>7. CASE UNCHANGED <<vars, ownerVars>>
  BY <1>3, <1>7 DEF vars, taskVars, ownerVars
<1>8. Gapless({})
  BY DEF Gapless
<1> QED
  BY <1>1, <1>2, <1>3, <1>4, <1>5, <1>6, <1>7, <1>8 DEF EvNext, ClientStep, evVars, eventVars

(***************************************************************************)
(* In a calm deployment the table never has a gap, however often workers   *)
(* crash between publishing and flushing and however recovery continues    *)
(* the numbering of a dead owner (lifecycle.py 565-569).                   *)
(***************************************************************************)
THEOREM DurableHasNoGap ==
  ASSUME Calm
  PROVE  EvSpec => []NoDurableGap
<1>1. EvInit => BufferFull /\ NoDurableGap
  <2> SUFFICES ASSUME EvInit
               PROVE  BufferFull /\ NoDurableGap
    OBVIOUS
  <2>1. \A t \in Turn : stream[t] = <<>> /\ durable[t] = {} /\ pc[t] = "idle"
    BY DEF EvInit, Init
  <2> QED
    BY <2>1 DEF BufferFull, NoDurableGap, TaskPhase, Running, Unwinding
<1>2. /\ TypeOK /\ OwnerTypeOK /\ Unhurried /\ EventsInv
      /\ BufferFull /\ NoDurableGap /\ [EvNext]_evVars
      => BufferFull' /\ NoDurableGap'
  BY GapStep
<1>3. StreamsStay
  BY DEF Calm, StreamsStay
<1>4. /\ EvSpec => []EventsInv
      /\ Spec => []Unhurried
  BY <1>3, EventsInvariant, CalmRuntime
<1> QED
  BY <1>1, <1>2, <1>4, EventsTypeCorrect, EventsUseRuntime, RuntimeTypeCorrect, PTL DEF EvSpec
-----------------------------------------------------------------------------
(* What clients are told of the outcome *)

(***************************************************************************)
(* The end of turn t may be announced as s: the row says so, or will: the  *)
(* task has failed, or recovery ends the turn, and only that it failed can *)
(* still be written.                                                       *)
(***************************************************************************)
Agrees(t, s) ==
  /\ pc[t] \notin {"idle", "acquired", "launch"}
  /\ Terminal(t) => s = status[t]
  /\ Nonterminal(t) => s = "failed" /\ pc[t] \in Undone

LEMMA AgreementLasts ==
  ASSUME RuntimeInv, Prompt, PromptInv, [Next]_vars, NEW u \in Turn, NEW s, Agrees(u, s)
  PROVE  Agrees(u, s)'
<1>0. TypeOK /\ StoreTypeOK /\ ~MayCancel /\ OwnRow /\ RecoveryIsLate /\ [StoreNext]_storeVars
  BY StoreStep DEF RuntimeInv, TypeOK, Prompt, PromptInv
<1> DEFINE Row == status'[u] = status[u] \/ status'[u] = "failed"
           Early == {"idle", "acquired", "launch"}
           Goal == /\ pc'[u] \notin Early
                   /\ pc[u] \in Undone => pc'[u] \in Undone /\ Row
<1>1. ASSUME UNCHANGED <<pc[u], status[u]>>
      PROVE  Goal
  BY <1>1 DEF Agrees
<1>2. ASSUME TurnStep(u)
      PROVE  Goal
  <2>1. pc'[u] \notin {"idle", "acquired"}
    BY <1>0, StartOrigin DEF Agrees, StartTurn, At
  <2> QED
    BY <1>0, <1>2, <2>1, WayToCompleted, OwnerSteps DEF Agrees
<1>3. ASSUME NEW t \in Turn, t # u, TurnStep(t)
      PROVE  Goal
  BY <1>0, <1>1, <1>3, OtherTurns, OtherRows DEF Agrees
<1>4. ASSUME NEW w \in Worker, ProcessStep(w)
      PROVE  Goal
  BY <1>0, <1>1, <1>4, ProcessStepPhases, ProcessStepRows DEF Agrees, Undone
<1>5. Goal
  BY <1>0, <1>1, <1>2, <1>3, <1>4 DEF Next, RemoveSession, vars, taskVars, storeVars, Agrees
<1>6. HasRow(u)' => HasRow(u)
  BY <1>0, RowOrigin DEF Agrees
<1>7. CASE Terminal(u)
  <2>1. status'[u] \in {status[u], "none"}
    BY <1>0, <1>7, OutcomeStep
  <2> QED
    BY <1>5, <1>7, <2>1 DEF Agrees, Terminal, Nonterminal, TerminalStatus, NonterminalStatus
<1>8. CASE Nonterminal(u)
  <2>1. s = "failed" /\ pc'[u] \in Undone /\ Row
    BY <1>5, <1>8 DEF Agrees
  <2> QED
    BY <1>5, <1>8, <2>1 DEF Agrees, Terminal, Nonterminal, TerminalStatus, NonterminalStatus
<1>9. CASE ~HasRow(u)
  BY <1>5, <1>6, <1>9 DEF Agrees, HasRow, Terminal, Nonterminal, TerminalStatus, NonterminalStatus
<1> QED
  BY <1>0, <1>7, <1>8, <1>9 DEF StoreTypeOK, Status, HasRow, Terminal, Nonterminal

Ending(e) == e.kind \in {"done", "synthesized"}

\* Every copy of an event of turn t.
Everywhere(t) == Elements(stream[t]) \cup buffer[t] \cup durable[t] \cup held[t] \cup Elements(shown[t])

ClientShape == shown = [t \in Turn |-> shown[t]] /\ held = [t \in Turn |-> held[t]]

EndsAgree == \A t \in Turn : \A e \in Everywhere(t) : Ending(e) => Agrees(t, e.status)

\* The DONE that a task is about to publish agrees with the row.
LEMMA DraftAgrees ==
  ASSUME TypeOK, OwnerTypeOK, OwnRow, DoneMatchesRow, NEW t \in Turn, Unsent(t),
         Ending(NextDraft(t))
  PROVE  /\ pc[t] \in {"announce", "cancelAnnounce", "failPublish"}
         /\ Terminal(t) => NextDraft(t).status = status[t]
         /\ Nonterminal(t) => NextDraft(t).status = "failed" /\ pc[t] = "failPublish"
<1>0. sent[t] \in Nat /\ outcome[t] \in TerminalStatus
  BY DEF OwnerTypeOK, TypeOK, TaskTypeOK
<1>1. CASE At(t, "run")
  <2>1. Script(t) = [i \in 1 .. MaxContent |-> Draft("content", "none")]
    BY <1>1 DEF Script, At
  <2>2. sent[t] + 1 \in 1 .. MaxContent
    BY <1>0, <2>1, EventBounds DEF Unsent
  <2> QED
    BY <2>1, <2>2 DEF NextDraft, Draft, Ending
<1>2. ASSUME NEW d, Script(t) = <<d>>
      PROVE  NextDraft(t) = d
  BY <1>0, <1>2 DEF Unsent, NextDraft
<1>3. ASSUME NEW d, NEW e, Script(t) = <<d, e>>
      PROVE  NextDraft(t) \in {d, e}
  <2>1. sent[t] + 1 \in 1 .. 2
    BY <1>0, <1>3 DEF Unsent
  <2> QED
    BY <1>3, <2>1 DEF NextDraft
<1>4. CASE At(t, "post") \/ At(t, "cancelPublish")
  BY <1>0, <1>2, <1>4 DEF Unsent, Script, Draft, Ending, At
<1>5. CASE At(t, "announce") \/ At(t, "cancelAnnounce")
  <2>1. NextDraft(t) = Draft("done", outcome[t])
    BY <1>2, <1>5 DEF Script, At
  <2>2. status[t] \in {outcome[t], "none"}
    BY <1>5 DEF DoneMatchesRow, At
  <2> QED
    BY <1>0, <1>5, <2>1, <2>2
       DEF Draft, At, Terminal, Nonterminal, TerminalStatus, NonterminalStatus
<1>6. CASE At(t, "failPublish")
  <2>1. NextDraft(t).status = "failed"
    BY <1>3, <1>6 DEF Script, Draft, At
  <2>2. ~Terminal(t)
    BY <1>6 DEF OwnRow, Undecided, At
  <2> QED
    BY <1>6, <2>1, <2>2 DEF At
<1> QED
  BY <1>1, <1>4, <1>5, <1>6, UnsentPhase DEF Publishing, At

\* Where calls succeed, a task adds to its stream what it sends, or may have
\* sent when it is interrupted.
LEMMA WhatTasksPublish ==
  ASSUME Prompt, TypeOK, OwnerTypeOK, NEW t \in Turn, EvTurnStep(t),
         NEW e \in Elements(stream'[t]), e \notin Elements(stream[t]), Ending(e)
  PROVE  /\ Unsent(t) /\ Ending(NextDraft(t)) /\ e.status = NextDraft(t).status
         /\ UNCHANGED status
         /\ pc'[t] = pc[t] \/ pc'[t] \in Unwinding
         /\ pc[t] = "failPublish" => pc'[t] \in Undone
<1>0. ~Fault /\ faults \in Nat
  BY DEF Fault, Prompt, TypeOK, BudgetTypeOK
<1>1. stream' # stream
  OBVIOUS
<1>2. ASSUME Unsent(t), ToStream(t, NextDraft(t))
      PROVE  Ending(NextDraft(t)) /\ e.status = NextDraft(t).status
  <2>1. e = Stamped(t, NextDraft(t))
    BY <1>2, NextDraftType, StreamAfter
  <2> QED
    BY <2>1 DEF Stamped, Ending
<1>3. CASE (QuietTurnStep(t) /\ UNCHANGED eventVars) \/ DropBuffer(t) \/ FlushThrough(t)
  BY <1>1, <1>3 DEF eventVars, ownerVars, DropBuffer, FlushThrough
<1>4. CASE SendLaunch(t)
  <2>1. ToStream(t, SessionEvent) /\ SessionEvent \in Drafts
    BY <1>4 DEF SendLaunch, PublishLive, SessionEvent, Draft, Drafts, EventKind
  <2>2. e = Stamped(t, SessionEvent)
    BY <2>1, StreamAfter
  <2> QED
    BY <2>2 DEF Stamped, SessionEvent, Draft, Ending
<1>5. CASE SendLaunchFails(t)
  BY <1>0, <1>5 DEF SendLaunchFails, LaunchFails
<1>6. CASE Send(t)
  BY <1>2, <1>6 DEF Send, PublishLive, vars, taskVars, storeVars, Undone
<1>7. CASE FlushLast(t)
  <2>1. faults' = faults
    BY <1>0, <1>7 DEF FlushLast, AfterDone, NoFault
  <2> QED
    BY <1>1, <1>7, <2>1 DEF FlushLast
<1>8. CASE FlushHandler(t)
  <2>1. faults' = faults
    BY <1>0, <1>8 DEF FlushHandler, CancelPublish, CancelAnnounce, FailPublish, NoFault
  <2> QED
    BY <1>1, <1>8, <2>1 DEF FlushHandler
<1>9. CASE SendFails(t)
  <2>1. faults' = faults
    BY <1>0, <1>9 DEF SendFails, Fail, NoFault
  <2> QED
    BY <1>1, <1>9, <2>1 DEF SendFails
<1>10. CASE InterruptEvents(t)
  <2>1. Interrupt(t) /\ UNCHANGED status /\ Unsent(t) /\ ToStream(t, NextDraft(t))
    BY <1>1, <1>10 DEF InterruptEvents, MaybePublished, storeVars
  <2>2. pc'[t] = UnwindTo(t) /\ UnwindTo(t) \in Unwinding
    BY <2>1 DEF Interrupt, UnwindTo, Unwinding, Goto, TypeOK, TaskTypeOK
  <2>3. pc[t] = "failPublish" => UnwindTo(t) = "cleanup"
    BY DEF UnwindTo, Unwinding
  <2> QED
    BY <1>2, <2>1, <2>2, <2>3 DEF Undone
<1> QED
  BY <1>3, <1>4, <1>5, <1>6, <1>7, <1>8, <1>9, <1>10 DEF EvTurnStep

LEMMA WhatRecoveryPublishes ==
  ASSUME Prompt, TypeOK, OwnerTypeOK, RecoveryIsLate, NEW w \in Worker, EvProcessStep(w),
         NEW u \in Turn, NEW e \in Elements(stream'[u]), e \notin Elements(stream[u])
  PROVE  Agrees(u, "failed") /\ e.status = "failed" /\ UNCHANGED <<pc, status>>
<1>0. /\ ~Fault /\ stream'[u] # stream[u] /\ stream'[u] # <<>>
      /\ rec[w].pc = "publish" => rec[w].turn \in Turn
  BY DEF Fault, Prompt, TypeOK, BudgetTypeOK, RecTypeOK, Recovery, Elements
<1>1. CASE (QuietProcessStep(w) /\ UNCHANGED eventVars) \/ RecCopy(w) \/ RecStore(w)
  BY <1>0, <1>1 DEF eventVars, ownerVars, RecCopy, RecStore
<1>2. CASE CrashEvents(w)
  BY <1>0, <1>2 DEF CrashEvents
<1>3. CASE RecGivesUp(w)
  BY <1>0, <1>3 DEF RecGivesUp, RecFails
<1>4. CASE RecSendError(w) \/ RecSendDone(w)
  <2>1. PICK d \in Drafts : d.status = "failed" /\ ToStream(rec[w].turn, d)
    BY <1>4 DEF RecSendError, RecSendDone, Draft, Drafts, EventKind, TerminalStatus
  <2>2. rec[w].pc = "publish" /\ UNCHANGED <<pc, status>>
    BY <1>4 DEF RecSendError, RecSendDone, RecPublish, vars, taskVars, storeVars
  <2>3. rec[w].turn = u /\ e = Stamped(u, d)
    BY <1>0, <2>1, <2>2, StreamAfter
  <2>4. Agrees(u, "failed")
    BY <2>2, <2>3 DEF RecoveryIsLate, Agrees, Undone, Terminal, TerminalStatus, NonterminalStatus
  <2> QED
    BY <2>1, <2>2, <2>3, <2>4 DEF Stamped
<1> QED
  BY <1>1, <1>2, <1>3, <1>4 DEF EvProcessStep

-----------------------------------------------------------------------------
\* A client shows and holds what it had and what it is sent.
LEMMA AcceptBrings ==
  ASSUME ClientShape, NEW t \in Turn, NEW E, Accept(t, E)
  PROVE  /\ ClientShape'
         /\ \A u \in Turn : \A e \in held'[u] \cup Elements(shown'[u]) :
              e \in held[u] \cup Elements(shown[u]) \/ (u = t /\ e \in E)
<1> DEFINE new == Newer(E, Len(shown[t]))
           arrived == new \cup {e \in held[t] : \A f \in new : f.seq # e.seq}
           Arrived(n) == \E e \in arrived : e.seq = n
           next == {e.seq : e \in {f \in arrived :
                      \A n \in Len(shown[t]) + 1 .. f.seq : Arrived(n)}}
<1>1. arrived \subseteq E \cup held[t]
  BY DEF Newer
<1>2. /\ shown' = [shown EXCEPT ![t] =
            [n \in DOMAIN shown[t] \cup next |->
               IF n \in DOMAIN shown[t] THEN shown[t][n]
               ELSE CHOOSE e \in arrived : e.seq = n]]
      /\ held' = [held EXCEPT ![t] = {e \in arrived : e.seq \notin next}]
  BY DEF Accept
<1>3. \A n \in next : \E e \in arrived : e.seq = n
  OBVIOUS
<1> HIDE DEF next, arrived
<1>4. ClientShape'
  BY <1>2 DEF ClientShape
<1>5. \A u \in Turn : u # t => shown'[u] = shown[u] /\ held'[u] = held[u]
  BY <1>2 DEF ClientShape
<1>6. held'[t] \subseteq arrived
  BY <1>2 DEF ClientShape
<1>7. shown'[t] = [n \in DOMAIN shown[t] \cup next |->
                     IF n \in DOMAIN shown[t] THEN shown[t][n]
                     ELSE CHOOSE e \in arrived : e.seq = n]
  BY <1>2 DEF ClientShape
<1>8. ASSUME NEW i \in DOMAIN shown'[t]
      PROVE  shown'[t][i] \in arrived \cup Elements(shown[t])
  BY <1>3, <1>7 DEF Elements
<1>9. Elements(shown'[t]) \subseteq arrived \cup Elements(shown[t])
  BY <1>8 DEF Elements
<1> QED
  BY <1>1, <1>4, <1>5, <1>6, <1>9

LEMMA ClientBrings ==
  ASSUME ClientShape, NEW t \in Turn, ClientStep(t)
  PROVE  /\ ClientShape'
         /\ \A u \in Turn : \A e \in held'[u] \cup Elements(shown'[u]) :
              \/ e \in Everywhere(u)
              \/ Terminal(u) /\ e.status = status[u]
<1> DEFINE Brought == \A u \in Turn : \A e \in held'[u] \cup Elements(shown'[u]) :
                        \/ e \in Everywhere(u)
                        \/ Terminal(u) /\ e.status = status[u]
<1>1. ASSUME UNCHANGED <<shown, held>>
      PROVE  ClientShape' /\ Brought
  BY <1>1 DEF ClientShape, Everywhere
<1>2. CASE Replay(t)
  <2>1. Accept(t, Newer(durable[t], sub[t].last))
    BY <1>2 DEF Replay, Yield
  <2> QED
    BY <2>1, AcceptBrings DEF Newer, Everywhere
<1>3. CASE Follow(t)
  <2>1. Accept(t, Newer(Elements(stream[t]), sub[t].last))
    BY <1>3 DEF Follow, Yield
  <2> QED
    BY <2>1, AcceptBrings DEF Newer, Everywhere
<1>4. CASE CheckEnd(t)
  <2>1. CASE Terminal(t)
    <3> DEFINE made == [seq |-> sub[t].last + 1, kind |-> "synthesized", status |-> status[t]]
    <3>1. Accept(t, {made}) /\ made.status = status[t]
      BY <1>4, <2>1 DEF CheckEnd
    <3> HIDE DEF made
    <3> QED
      BY <2>1, <3>1, AcceptBrings DEF Everywhere
  <2>2. CASE ~Terminal(t)
    BY <1>1, <1>4, <2>2 DEF CheckEnd
  <2> QED
    BY <2>1, <2>2
<1>5. CASE Subscribe(t) \/ CheckRow(t) \/ CheckLease(t) \/ TailTimeout(t)
  BY <1>1, <1>5 DEF Subscribe, CheckRow, CheckLease, TailTimeout
<1>6. CASE SubscriptionFails(t) \/ Resume(t)
  BY <1>1, <1>6 DEF SubscriptionFails, Resume
<1> QED
  BY <1>2, <1>3, <1>4, <1>5, <1>6 DEF ClientStep, Subscriber

LEMMA EndsStep ==
  ASSUME RuntimeInv, OwnerTypeOK, Prompt, PromptInv, DoneMatchesRow, ClientShape, EndsAgree,
         [EvNext]_evVars, OwnRow'
  PROVE  ClientShape' /\ EndsAgree'
<1>0. TypeOK /\ OwnRow /\ RecoveryIsLate /\ [Next]_vars /\ ~MayCancel
  BY EvStepRuns DEF RuntimeInv, PromptInv, Prompt
<1>1. ASSUME NEW u \in Turn, NEW e \in Everywhere(u), Ending(e)
      PROVE  Agrees(u, e.status)'
  BY <1>0, <1>1, AgreementLasts DEF EndsAgree
<1>2. ASSUME Copies, UNCHANGED clientVars,
             \A u \in Turn : \A e \in Elements(stream'[u]) :
               e \notin Elements(stream[u]) /\ Ending(e) => Agrees(u, e.status)'
      PROVE  ClientShape' /\ EndsAgree'
  <2>1. \A u \in Turn : Everywhere(u)' \subseteq Everywhere(u) \cup Elements(stream'[u])
    BY <1>2 DEF Copies, clientVars, Everywhere
  <2>2. EndsAgree'
    BY <1>1, <1>2, <2>1 DEF EndsAgree, Everywhere
  <2> QED
    BY <1>2, <2>2 DEF clientVars, ClientShape
<1>3. ASSUME NEW t \in Turn, EvTurnStep(t)
      PROVE  ClientShape' /\ EndsAgree'
  <2>1. ASSUME NEW e \in Elements(stream'[t]), e \notin Elements(stream[t]), Ending(e)
        PROVE  Agrees(t, e.status)'
    <3>1. /\ Unsent(t) /\ Ending(NextDraft(t)) /\ e.status = NextDraft(t).status
          /\ UNCHANGED status
          /\ pc'[t] = pc[t] \/ pc'[t] \in Unwinding
          /\ pc[t] = "failPublish" => pc'[t] \in Undone
      BY <1>0, <1>3, <2>1, WhatTasksPublish
    <3>2. /\ pc[t] \in {"announce", "cancelAnnounce", "failPublish"}
          /\ Terminal(t) => e.status = status[t]
          /\ Nonterminal(t) => e.status = "failed" /\ pc[t] = "failPublish"
      BY <1>0, <3>1, DraftAgrees
    <3> QED
      BY <3>1, <3>2 DEF Agrees, Terminal, Nonterminal, Unwinding
  <2>2. \A u \in Turn : u # t => stream'[u] = stream[u]
    BY <1>0, <1>3, EvTurnStepSaid
  <2> QED
    BY <1>0, <1>2, <1>3, <2>1, <2>2, EvTurnStepCopies
<1>4. ASSUME NEW w \in Worker, EvProcessStep(w)
      PROVE  ClientShape' /\ EndsAgree'
  <2>1. ASSUME NEW u \in Turn, NEW e \in Elements(stream'[u]), e \notin Elements(stream[u])
        PROVE  Agrees(u, e.status)'
    <3>1. Agrees(u, "failed") /\ e.status = "failed"
      BY <1>0, <1>4, <2>1, WhatRecoveryPublishes
    <3> QED
      BY <1>0, <3>1, AgreementLasts
  <2> QED
    BY <1>0, <1>2, <1>4, <2>1, EvProcessStepCopies
<1>5. ASSUME NEW t \in Turn, ClientStep(t)
      PROVE  ClientShape' /\ EndsAgree'
  <2>1. UNCHANGED <<vars, ownerVars>>
    BY <1>5 DEF ClientStep
  <2>2. ClientShape'
    BY <1>5, ClientBrings
  <2>3. ASSUME NEW u \in Turn, NEW e \in held'[u] \cup Elements(shown'[u]), Ending(e),
               Terminal(u), e.status = status[u]
        PROVE  Agrees(u, e.status)'
    <3>1. pc[u] \notin {"idle", "acquired", "launch"}
      BY <1>0, <2>3 DEF OwnRow, Undecided
    <3> QED
      BY <2>1, <2>3, <3>1
         DEF vars, taskVars, storeVars, Agrees, Terminal, Nonterminal, TerminalStatus,
             NonterminalStatus
  <2>4. \A u \in Turn : Everywhere(u)' \subseteq
                          Everywhere(u) \cup held'[u] \cup Elements(shown'[u])
    BY <2>1 DEF ownerVars, Everywhere
  <2>5. \A u \in Turn : \A e \in Everywhere(u)' : Ending(e) => Agrees(u, e.status)'
    BY <1>1, <1>5, <2>3, <2>4, ClientBrings
  <2> QED
    BY <2>2, <2>5 DEF EndsAgree
<1>6. \A s \in Session : ~RemoveEvents(s)
  BY <1>0 DEF RemoveEvents, RemoveSession
<1>7. CASE UNCHANGED evVars
  BY <1>0, <1>2, <1>7, ClientStepCopies DEF evVars, eventVars, ownerVars
<1> QED
  BY <1>3, <1>4, <1>5, <1>6, <1>7 DEF EvNext

(***************************************************************************)
(* Where workers are prompt, whatever a client is shown as the end of a    *)
(* turn, published by the owner, by recovery or made up from the row, is   *)
(* the outcome that the row keeps, in spite of crashes and shutdowns       *)
(* between publishing and writing (executor.py 1002-1085, recovery.py      *)
(* 82-115, service.py 160-179).                                            *)
(***************************************************************************)
THEOREM ClientsLearnTheOutcome ==
  ASSUME Prompt
  PROVE  EvSpec => []ClientToldOutcome
<1>1. EvInit => ClientShape /\ EndsAgree
  <2> SUFFICES ASSUME EvInit
               PROVE  ClientShape /\ EndsAgree
    OBVIOUS
  <2>1. ClientShape
    BY DEF EvInit, ClientShape
  <2>2. Elements(<<>>) = {}
    BY DEF Elements
  <2>3. /\ stream = [t \in Turn |-> <<>>] /\ shown = [t \in Turn |-> <<>>]
        /\ buffer = [t \in Turn |-> {}] /\ durable = [t \in Turn |-> {}]
        /\ held = [t \in Turn |-> {}]
    BY DEF EvInit
  <2>4. \A t \in Turn : Everywhere(t) = {}
    BY <2>2, <2>3 DEF Everywhere
  <2> QED
    BY <2>1, <2>4 DEF EndsAgree
<1>2. /\ RuntimeInv /\ OwnerTypeOK /\ PromptInv /\ DoneMatchesRow
      /\ ClientShape /\ EndsAgree /\ [EvNext]_evVars /\ PromptInv'
      => ClientShape' /\ EndsAgree'
  BY EndsStep DEF PromptInv
<1>3. EndsAgree => ClientToldOutcome
  BY DEF EndsAgree, ClientToldOutcome, Everywhere, Elements, Ending, Agrees
<1>4. Spec => []PromptInv
  BY PromptOwners
<1> QED
  BY <1>1, <1>2, <1>3, <1>4, EventsTypeCorrect, EventsUseRuntime, RuntimeInvariant,
     AnnouncedIsStored, PTL DEF EvSpec
-----------------------------------------------------------------------------
(* Clients follow the log *)

SubPhase == {"off", "replay", "check", "follow", "lease", "row", "end"}
Subscription == [pc : SubPhase, last : Nat, done : BOOLEAN, tail : BOOLEAN]

\* The first n events of turn t.
Prefix(t, n) == SubSeq(stream[t], 1, n)

(***************************************************************************)
(* The client of t was shown the first n events, and its subscription goes *)
(* on behind them or has ended with a DONE that was made up.               *)
(***************************************************************************)
ShownUpTo(t, n) ==
  \/ shown[t] = Prefix(t, n) /\ sub[t].last = n
  \/ /\ sub[t].pc = "end"
     /\ \E e \in Event : e.kind = "synthesized" /\ shown[t] = Append(Prefix(t, n), e)

ClientInv ==
  /\ sub \in [Turn -> Subscription]
  /\ shown \in [Turn -> Seq(Event)]
  /\ held = [t \in Turn |-> {}]
  /\ \A t \in Turn : \A e \in Elements(stream[t]) : e.kind # "synthesized"
  /\ \A t \in Turn : \E n \in 0 .. Len(stream[t]) : ShownUpTo(t, n)

\* A set of numbers that is bounded and not empty has a last.
LEMMA LastNumber ==
  ASSUME NEW k \in Nat, NEW S \in SUBSET (0 .. k), S # {}
  PROVE  \E m \in S : \A n \in S : n <= m
<1> DEFINE Less == {ss \in Nat \X Nat : ss[1] < ss[2]}
           Back == {k - n : n \in S}
<1>1. IsWellFoundedOn(Less, Nat)
  BY NatLessThanWellFounded, Zenon DEF OpToRel
<1>2. Back \subseteq Nat /\ Back # {}
  <2>1. \A n \in S : k - n \in Nat
    OBVIOUS
  <2> QED
    BY <2>1
<1>3. PICK x \in Back : \A y \in Back : <<y, x>> \notin Less
  <2> HIDE DEF Less, Back
  <2> QED
    BY <1>1, <1>2, WFMin, Zenon
<1>4. \A y \in Back : ~(y < x)
  BY <1>2, <1>3
<1>5. PICK m \in S : x = k - m
  OBVIOUS
<1>6. ASSUME NEW n \in S
      PROVE  n <= m
  <2>1. ~(k - n < k - m)
    BY <1>4, <1>5
  <2> QED
    BY <2>1
<1> QED
  BY <1>6

EventNo(E, i) == CHOOSE e \in E : e.seq = i

\* A client that holds nothing back shows events at once that continue what it has.
LEMMA AcceptRun ==
  ASSUME ClientInv, NEW t \in Turn, NEW n \in Nat, n = Len(shown[t]), NEW m \in Nat, m >= n,
         NEW E, \A e \in E : e.seq \in n + 1 .. m,
         \A i \in n + 1 .. m : \E e \in E : e.seq = i,
         Accept(t, E)
  PROVE  /\ held' = held
         /\ shown' = [shown EXCEPT ![t] =
              [i \in 1 .. m |-> IF i <= n THEN shown[t][i] ELSE EventNo(E, i)]]
<1> DEFINE new == Newer(E, Len(shown[t]))
           arrived == new \cup {e \in held[t] : \A f \in new : f.seq # e.seq}
           Arrived(i) == \E e \in arrived : e.seq = i
           next == {e.seq : e \in {f \in arrived :
                      \A i \in Len(shown[t]) + 1 .. f.seq : Arrived(i)}}
<1>1. arrived = E
  BY DEF Newer, ClientInv
<1>2. /\ shown' = [shown EXCEPT ![t] =
            [i \in DOMAIN shown[t] \cup next |->
               IF i \in DOMAIN shown[t] THEN shown[t][i]
               ELSE EventNo(arrived, i)]]
      /\ held' = [held EXCEPT ![t] = {e \in arrived : e.seq \notin next}]
  BY DEF Accept, ClientInv, EventNo
<1>3. next = n + 1 .. m
  <2>1. ASSUME NEW e \in E
        PROVE  \A i \in n + 1 .. e.seq : i \in n + 1 .. m
    OBVIOUS
  <2>2. \A f \in arrived : \A i \in Len(shown[t]) + 1 .. f.seq : Arrived(i)
    BY <1>1, <2>1
  <2>3. next = {e.seq : e \in E}
    BY <1>1, <2>2
  <2>4. \A i : i \in {e.seq : e \in E} <=> i \in n + 1 .. m
    OBVIOUS
  <2> QED
    BY <2>3, <2>4
<1> HIDE DEF next, arrived
<1>4. DOMAIN shown[t] = 1 .. n /\ DOMAIN shown[t] \cup next = 1 .. m
  BY <1>3 DEF ClientInv
<1>5. shown' = [shown EXCEPT ![t] =
            [i \in 1 .. m |-> IF i \in 1 .. n THEN shown[t][i] ELSE EventNo(E, i)]]
  BY <1>1, <1>2, <1>4
<1>6. \A i \in 1 .. m : i \in 1 .. n <=> i <= n
  OBVIOUS
<1>7. held' = held
  BY <1>1, <1>2, <1>3 DEF ClientInv
<1> QED
  BY <1>5, <1>6, <1>7

LEMMA Advanced ==
  ASSUME NEW s \in Subscription, NEW m \in Nat, NEW b \in BOOLEAN, NEW c \in BOOLEAN
  PROVE  /\ [s EXCEPT !.last = m, !.done = b, !.tail = c] \in Subscription
         /\ [s EXCEPT !.last = m, !.done = b, !.tail = c].last = m
BY DEF Subscription

\* What the table or the stream yields to a subscription.
LEMMA Delivered ==
  ASSUME OwnerTypeOK, ClientInv, NEW t \in Turn, NEW n \in 0 .. Len(stream[t]),
         shown[t] = Prefix(t, n), sub[t].last = n,
         NEW E, \A e \in E : InStream(t, e), Gapless(E), NEW p \in SubPhase, Yield(t, E, p)
  PROVE  \E m \in n .. Len(stream[t]) :
           /\ held' = held
           /\ shown' = [shown EXCEPT ![t] = Prefix(t, m)]
           /\ sub'[t].last = m
           /\ \E s \in Subscription : sub' = [sub EXCEPT ![t] = s]
<1> DEFINE new == Newer(E, n)
<1>0. /\ stream[t] \in Seq(Event) /\ DOMAIN stream[t] = 1 .. Len(stream[t])
      /\ Len(stream[t]) \in Nat /\ sub[t] \in Subscription /\ Len(shown[t]) = n
      /\ shown[t] = [i \in 1 .. n |-> stream[t][i]]
  BY DEF OwnerTypeOK, ClientInv, Prefix
<1>1. Accept(t, new) /\ sub' = [sub EXCEPT ![t] = [After(t, E) EXCEPT !.pc = p]]
  BY DEF Yield
<1>2. \A e \in new : e \in E /\ e.seq \in n + 1 .. Len(stream[t]) /\ stream[t][e.seq] = e
  BY <1>0 DEF Newer, InStream
<1>3. PICK m \in n .. Len(stream[t]) :
        /\ \A e \in new : e.seq \in n + 1 .. m
        /\ \A i \in n + 1 .. m : \E e \in new : e.seq = i
        /\ m = IF new = {} THEN n ELSE Latest(new).seq
  <2>1. CASE new = {}
    BY <1>0, <2>1
  <2>2. CASE new # {}
    <3> DEFINE S == {e.seq : e \in new}
    <3>1. S # {} /\ S \in SUBSET (0 .. Len(stream[t]))
      BY <1>0, <1>2, <2>2
    <3>2. PICK k \in S : \A j \in S : j <= k
      <4> HIDE DEF S
      <4> QED
        BY <1>0, <3>1, LastNumber
    <3>3. \E e \in new : \A f \in new : f.seq <= e.seq
      BY <3>2
    <3>4. Latest(new) \in new /\ \A f \in new : f.seq <= Latest(new).seq
      BY <3>3 DEF Latest
    <3> DEFINE l == Latest(new)
    <3>5. l.seq \in n + 1 .. Len(stream[t]) /\ l \in E
      BY <1>2, <3>4
    <3>6. \A i \in n + 1 .. l.seq : \E e \in new : e.seq = i
      <4> SUFFICES ASSUME NEW i \in n + 1 .. l.seq, i # l.seq
                   PROVE  \E e \in new : e.seq = i
        BY <3>4
      <4>1. i \in 1 .. l.seq - 1 /\ i > n
        BY <1>0, <3>5
      <4> QED
        BY <3>5, <4>1 DEF Gapless, Newer
    <3>7. \A e \in new : e.seq \in n + 1 .. l.seq
      BY <1>0, <1>2, <3>4, <3>5
    <3>8. l.seq \in n .. Len(stream[t])
      BY <1>0, <3>5
    <3> QED
      BY <2>2, <3>6, <3>7, <3>8
  <2> QED
    BY <2>1, <2>2
<1>4. sub'[t].last = m /\ \E s \in Subscription : sub' = [sub EXCEPT ![t] = s]
  <2>1. After(t, E) \in Subscription /\ After(t, E).last = m
    <3> DEFINE b == sub[t].done \/ Dones(new) # {}
               c == IF Dones(new) = {} THEN sub[t].tail
                    ELSE Latest(Dones(new)).status = "completed"
    <3>1. b \in BOOLEAN /\ c \in BOOLEAN
      BY <1>0 DEF Subscription
    <3>2. After(t, E) = [sub[t] EXCEPT !.last = m, !.done = b, !.tail = c]
      BY <1>3 DEF After
    <3>3. m \in Nat /\ sub[t] \in Subscription
      BY <1>0
    <3> HIDE DEF b, c
    <3>4. /\ [sub[t] EXCEPT !.last = m, !.done = b, !.tail = c] \in Subscription
          /\ [sub[t] EXCEPT !.last = m, !.done = b, !.tail = c].last = m
      BY <3>1, <3>3, Advanced, Zenon
    <3> QED
      BY <3>2, <3>4, Zenon
  <2>2. [After(t, E) EXCEPT !.pc = p] \in Subscription /\ [After(t, E) EXCEPT !.pc = p].last = m
    BY <2>1 DEF Subscription
  <2> QED
    BY <1>1, <2>2 DEF ClientInv
<1>5. m \in Nat /\ m >= n /\ n \in Nat
  BY <1>0
<1>6. /\ held' = held
      /\ shown' = [shown EXCEPT ![t] =
           [i \in 1 .. m |-> IF i <= n THEN shown[t][i] ELSE EventNo(new, i)]]
  <2>1. Accept(t, new)
    BY <1>1
  <2>2. \A e \in new : e.seq \in n + 1 .. m
    BY <1>3
  <2>3. \A i \in n + 1 .. m : \E e \in new : e.seq = i
    BY <1>3
  <2>4. n = Len(shown[t])
    BY <1>0
  <2> HIDE DEF new
  <2> QED
    BY <1>5, <2>1, <2>2, <2>3, <2>4, AcceptRun
<1>7. ASSUME NEW i \in 1 .. m, ~(i <= n)
      PROVE  EventNo(new, i) = stream[t][i]
  <2>1. \E e \in new : e.seq = i
    BY <1>0, <1>3, <1>7
  <2>2. EventNo(new, i) \in new /\ EventNo(new, i).seq = i
    BY <2>1 DEF EventNo
  <2> QED
    BY <1>2, <2>2
<1>8. [i \in 1 .. m |-> IF i <= n THEN shown[t][i] ELSE EventNo(new, i)] = Prefix(t, m)
  <2>1. Prefix(t, m) = [i \in 1 .. m |-> stream[t][i]]
    BY <1>0 DEF Prefix
  <2>2. \A i \in 1 .. m : (IF i <= n THEN shown[t][i] ELSE EventNo(new, i)) = stream[t][i]
    BY <1>0, <1>7
  <2> QED
    BY <2>1, <2>2
<1> QED
  BY <1>4, <1>6, <1>8

LEMMA PrefixFacts ==
  ASSUME OwnerTypeOK, NEW t \in Turn, NEW n \in 0 .. Len(stream[t])
  PROVE  /\ Prefix(t, n) \in Seq(Event) /\ Len(Prefix(t, n)) = n
         /\ Prefix(t, n) = [i \in 1 .. n |-> stream[t][i]]
         /\ \A i \in 1 .. n : stream[t][i] \in Elements(stream[t])
<1>1. stream[t] \in Seq(Event)
  BY DEF OwnerTypeOK
<1>2. \A i \in 1 .. n : i \in DOMAIN stream[t]
  BY <1>1
<1> QED
  BY <1>1, <1>2 DEF Prefix, Elements

\* Of events of the log, and a DONE made up behind them, those of the log count.
LEMMA LogPart ==
  ASSUME NEW x \in Seq(Event), \A i \in 1 .. Len(x) : x[i].kind # "synthesized",
         NEW events,
         \/ events = x
         \/ \E e \in Event : e.kind = "synthesized" /\ events = Append(x, e)
  PROVE  OfLog(events) = x
<1>1. Len(x) \in Nat /\ SubSeq(x, 1, Len(x)) = x
  OBVIOUS
<1>2. CASE events = x
  <2>1. ~MadeUp(x)
    <3> SUFFICES ASSUME x # <<>>
                 PROVE  x[Len(x)].kind # "synthesized"
      BY DEF MadeUp
    <3>1. Len(x) \in 1 .. Len(x)
      OBVIOUS
    <3> QED
      BY <3>1
  <2> QED
    BY <1>1, <1>2, <2>1 DEF OfLog
<1>3. ASSUME NEW e \in Event, e.kind = "synthesized", events = Append(x, e)
      PROVE  OfLog(events) = x
  <2>1. /\ Len(events) = Len(x) + 1 /\ events[Len(x) + 1] = e /\ events # <<>>
        /\ SubSeq(events, 1, Len(x)) = x
    BY <1>3
  <2>2. events[Len(events)].kind = "synthesized"
    BY <1>3, <2>1
  <2>3. MadeUp(events)
    BY <2>1, <2>2 DEF MadeUp
  <2>4. Len(events) - 1 = Len(x)
    BY <1>1, <2>1
  <2> QED
    BY <2>1, <2>3, <2>4 DEF OfLog
<1> QED
  BY <1>2, <1>3

ShownLog == [t \in Turn |-> OfLog(shown[t])]

\* Publishing adds to the log.
LEMMA OwnersPublish ==
  ASSUME OwnerTypeOK, ClientInv, Publishes, UNCHANGED clientVars
  PROVE  ClientInv' /\ [Log!LogNext]_<<stream, ShownLog>>
<1>1. UNCHANGED <<sub, shown, held>> /\ UNCHANGED ShownLog
  BY DEF clientVars, ShownLog
<1>2. CASE UNCHANGED stream
  <2>1. ClientInv'
    BY <1>1, <1>2 DEF ClientInv, ShownUpTo, Prefix
  <2> QED
    BY <1>1, <1>2, <2>1
<1>3. ASSUME NEW t \in Turn, NEW d \in Drafts, ToStream(t, d)
      PROVE  ClientInv' /\ Log!LogNext
  <2>1. /\ stream' = [stream EXCEPT ![t] = Append(stream[t], Stamped(t, d))]
        /\ stream[t] \in Seq(Event) /\ Stamped(t, d) \in Event
    BY <1>3, AppendStream DEF ToStream, OwnerTypeOK
  <2>2. stream'[t] = Append(stream[t], Stamped(t, d)) /\ \A u \in Turn : u # t => stream'[u] = stream[u]
    BY <2>1 DEF OwnerTypeOK
  <2>3. Len(stream'[t]) = Len(stream[t]) + 1 /\ stream'[t][Len(stream[t]) + 1] = Stamped(t, d)
    BY <2>1, <2>2
  <2>4. Log!Publish(t)
    BY <1>1, <2>1, <2>3 DEF Log!Publish, ShownLog
  <2>5. ASSUME NEW u \in Turn, NEW e \in Elements(stream'[u])
        PROVE  e.kind # "synthesized"
    <3>1. e \in Elements(stream[u]) \/ e = Stamped(t, d)
      BY <1>3, <2>2, <2>5, StreamAfter
    <3> QED
      BY <3>1 DEF ClientInv, Stamped, Drafts
  <2>6. ASSUME NEW u \in Turn, NEW n \in 0 .. Len(stream[u])
        PROVE  n \in 0 .. Len(stream'[u]) /\ Prefix(u, n)' = Prefix(u, n)
    <3>1. CASE u = t
      <4>1. SubSeq(Append(stream[t], Stamped(t, d)), 1, n) = SubSeq(stream[t], 1, n)
        BY <2>1, <2>6, <3>1
      <4>2. Len(stream[t]) \in Nat
        BY <2>1
      <4> QED
        BY <2>2, <2>3, <2>6, <3>1, <4>1, <4>2 DEF Prefix
    <3>2. CASE u # t
      BY <2>2, <3>2 DEF Prefix
    <3> QED
      BY <3>1, <3>2
  <2>7. ASSUME NEW u \in Turn
        PROVE  \E n \in 0 .. Len(stream'[u]) : ShownUpTo(u, n)'
    <3>1. PICK n \in 0 .. Len(stream[u]) : ShownUpTo(u, n)
      BY DEF ClientInv
    <3>2. ShownUpTo(u, n)'
      BY <1>1, <2>6, <3>1 DEF ShownUpTo
    <3> QED
      BY <2>6, <3>2
  <2>8. ClientInv'
    BY <1>1, <2>5, <2>7 DEF ClientInv
  <2> QED
    BY <2>4, <2>8 DEF Log!LogNext
<1> QED
  BY <1>2, <1>3 DEF Publishes

\* A client that was shown a made-up DONE takes no further step.
LEMMA ActiveClient ==
  ASSUME OwnerTypeOK, ClientInv, NEW t \in Turn, Subscriber(t), NEW n \in 0 .. Len(stream[t]),
         ShownUpTo(t, n)
  PROVE  shown[t] = Prefix(t, n) /\ sub[t].last = n
<1> SUFFICES ASSUME sub[t].pc = "end", NEW e \in Event, e.kind = "synthesized",
                    shown[t] = Append(Prefix(t, n), e)
             PROVE  FALSE
  BY DEF ShownUpTo
<1>1. Prefix(t, n) \in Seq(Event)
  BY PrefixFacts
<1>2. Len(shown[t]) \in DOMAIN shown[t] /\ shown[t][Len(shown[t])] = e
  BY <1>1
<1>3. Over(t)
  BY <1>2 DEF Over
<1> QED
  BY <1>3 DEF Subscriber, Subscribe, Replay, CheckRow, Follow, CheckLease, TailTimeout, CheckEnd,
              SubscriptionFails, Resume

\* What is shown of the log is what ShownUpTo says.
LEMMA ShownPrefix ==
  ASSUME OwnerTypeOK, NEW t \in Turn, \A e \in Elements(stream[t]) : e.kind # "synthesized",
         NEW n \in 0 .. Len(stream[t]), NEW events,
         \/ events = Prefix(t, n)
         \/ \E e \in Event : e.kind = "synthesized" /\ events = Append(Prefix(t, n), e)
  PROVE  OfLog(events) = Prefix(t, n)
<1>1. /\ Prefix(t, n) \in Seq(Event)
      /\ \A i \in 1 .. Len(Prefix(t, n)) : Prefix(t, n)[i].kind # "synthesized"
  BY PrefixFacts
<1> QED
  BY <1>1, LogPart

\* A step of a client that shows more of the log, or ends with a made-up DONE.
LEMMA ShowsMore ==
  ASSUME OwnerTypeOK, ClientInv, NEW t \in Turn, UNCHANGED ownerVars,
         NEW n \in 0 .. Len(stream[t]), ShownUpTo(t, n),
         NEW m \in n .. Len(stream[t]), ShownUpTo(t, m)',
         held' = held, NEW q \in Seq(Event), shown' = [shown EXCEPT ![t] = q],
         NEW s \in Subscription, sub' = [sub EXCEPT ![t] = s]
  PROVE  ClientInv' /\ Log!Show(t)
<1>0. /\ Len(stream[t]) \in Nat /\ m \in 0 .. Len(stream[t]) /\ n <= m
      /\ UNCHANGED stream /\ Prefix(t, m)' = Prefix(t, m)
  BY DEF ownerVars, OwnerTypeOK, Prefix
<1>1. \A u \in Turn : u # t => shown'[u] = shown[u] /\ sub'[u] = sub[u]
  BY DEF ClientInv
<1>2. \A u \in Turn : \E k \in 0 .. Len(stream'[u]) : ShownUpTo(u, k)'
  <2>1. ASSUME NEW u \in Turn, u # t
        PROVE  \E k \in 0 .. Len(stream'[u]) : ShownUpTo(u, k)'
    <3>1. PICK k \in 0 .. Len(stream[u]) : ShownUpTo(u, k)
      BY DEF ClientInv
    <3>2. ShownUpTo(u, k)'
      BY <1>0, <1>1, <2>1, <3>1 DEF ShownUpTo, Prefix
    <3> QED
      BY <1>0, <3>2
  <2> QED
    BY <1>0, <2>1
<1>3. ClientInv'
  <2>1. \A u \in Turn : \A e \in Elements(stream'[u]) : e.kind # "synthesized"
    BY <1>0 DEF ClientInv
  <2>2. sub' \in [Turn -> Subscription] /\ shown' \in [Turn -> Seq(Event)]
        /\ held' = [u \in Turn |-> {}]
    BY DEF ClientInv
  <2> QED
    BY <1>2, <2>1, <2>2 DEF ClientInv
<1>4. OfLog(shown[t]) = Prefix(t, n)
  BY ShownPrefix DEF ClientInv, ShownUpTo
<1>5. OfLog(shown'[t]) = Prefix(t, m)
  <2>1. \/ shown'[t] = Prefix(t, m)
        \/ \E e \in Event : e.kind = "synthesized" /\ shown'[t] = Append(Prefix(t, m), e)
    BY <1>0 DEF ShownUpTo
  <2> QED
    BY <1>0, <2>1, ShownPrefix DEF ClientInv
<1>6. ShownLog' = [ShownLog EXCEPT ![t] = Prefix(t, m)]
  <2>1. \A u \in Turn : OfLog(shown'[u]) = IF u = t THEN Prefix(t, m) ELSE OfLog(shown[u])
    BY <1>1, <1>5
  <2>2. ShownLog' = [u \in Turn |-> OfLog(shown'[u])]
    BY DEF ShownLog
  <2>3. [ShownLog EXCEPT ![t] = Prefix(t, m)]
          = [u \in Turn |-> IF u = t THEN Prefix(t, m) ELSE OfLog(shown[u])]
    BY DEF ShownLog
  <2> QED
    BY <2>1, <2>2, <2>3, Zenon
<1>7. Len(ShownLog[t]) = n /\ m \in Len(ShownLog[t]) .. Len(stream[t])
  BY <1>0, <1>4, PrefixFacts DEF ShownLog
<1>8. ShownLog' = [ShownLog EXCEPT ![t] = SubSeq(stream[t], 1, m)] /\ stream' = stream
  BY <1>0, <1>6 DEF Prefix
<1>9. Log!Show(t)
  BY <1>7, <1>8, Zenon DEF Log!Show, ShownLog
<1> QED
  BY <1>3, <1>9

LEMMA Resumed ==
  ASSUME NEW n \in Nat
  PROVE  /\ [NoSubscription EXCEPT !.pc = "replay", !.last = n] \in Subscription
         /\ [NoSubscription EXCEPT !.pc = "replay", !.last = n].last = n
BY DEF NoSubscription, Subscription, SubPhase

LEMMA ClientFollows ==
  ASSUME OwnerTypeOK, EventsInv, NoDurableGap, ClientInv, NEW t \in Turn, ClientStep(t)
  PROVE  ClientInv' /\ Log!LogNext
<1>0. Subscriber(t) /\ UNCHANGED ownerVars /\ stream' = stream
  BY DEF ClientStep, ownerVars
<1>1. PICK n \in 0 .. Len(stream[t]) : ShownUpTo(t, n)
  BY DEF ClientInv
<1>2. shown[t] = Prefix(t, n) /\ sub[t].last = n
  BY <1>0, <1>1, ActiveClient
<1>3. /\ sub[t] \in Subscription /\ shown[t] \in Seq(Event) /\ Len(shown[t]) = n
      /\ Len(stream[t]) \in Nat /\ n \in Nat
  BY <1>2, PrefixFacts DEF ClientInv, OwnerTypeOK
<1>4. ASSUME NEW E, \A e \in E : InStream(t, e), Gapless(E), NEW p \in SubPhase, Yield(t, E, p)
      PROVE  ClientInv' /\ Log!Show(t)
  <2>1. PICK m \in n .. Len(stream[t]) :
           /\ held' = held
           /\ shown' = [shown EXCEPT ![t] = Prefix(t, m)]
           /\ sub'[t].last = m
           /\ \E s \in Subscription : sub' = [sub EXCEPT ![t] = s]
    BY <1>2, <1>4, Delivered
  <2>2. Prefix(t, m) \in Seq(Event) /\ Prefix(t, m)' = Prefix(t, m)
    BY <1>0, <1>3, PrefixFacts DEF Prefix
  <2>3. shown'[t] = Prefix(t, m)
    BY <2>1 DEF ClientInv
  <2>4. ShownUpTo(t, m)'
    BY <2>1, <2>2, <2>3 DEF ShownUpTo
  <2> QED
    BY <1>0, <1>1, <2>1, <2>2, <2>4, ShowsMore
<1>5. CASE Replay(t)
  <2>1. (\A e \in durable[t] : InStream(t, e)) /\ Gapless(durable[t])
    BY DEF EventsInv, CopiesInStream, NoDurableGap, Gapless
  <2> DEFINE p == IF After(t, durable[t]).done THEN "check" ELSE "follow"
  <2>2. p \in SubPhase
    <3>1. p = "check" \/ p = "follow"
      BY Zenon
    <3> HIDE DEF p
    <3> QED
      BY <3>1 DEF SubPhase
  <2>3. Yield(t, durable[t], p)
    BY <1>5 DEF Replay
  <2> HIDE DEF p
  <2>4. ClientInv' /\ Log!Show(t)
    BY <1>4, <2>1, <2>2, <2>3
  <2> QED
    BY <2>4 DEF Log!LogNext
<1>6. CASE Follow(t)
  <2>1. (\A e \in Elements(stream[t]) : InStream(t, e)) /\ Gapless(Elements(stream[t]))
    BY PrefixGapless DEF EventsInv, Numbered, Elements, InStream
  <2> DEFINE now == After(t, Elements(stream[t]))
             p == IF ~now.done THEN "row" ELSE IF now.tail THEN "lease" ELSE "end"
  <2>2. p \in SubPhase
    <3>1. p = "row" \/ p = "lease" \/ p = "end"
      BY Zenon
    <3> HIDE DEF p
    <3> QED
      BY <3>1 DEF SubPhase
  <2>3. Yield(t, Elements(stream[t]), p)
    BY <1>6 DEF Follow
  <2> HIDE DEF p
  <2>4. ClientInv' /\ Log!Show(t)
    BY <1>4, <2>1, <2>2, <2>3
  <2> QED
    BY <2>4 DEF Log!LogNext
<1>7. ASSUME UNCHANGED <<shown, held>>, NEW s \in Subscription, s.last = n,
             sub' = [sub EXCEPT ![t] = s]
      PROVE  ClientInv' /\ Log!Show(t)
  <2>1. sub'[t] = s /\ shown' = [shown EXCEPT ![t] = shown[t]]
    BY <1>7 DEF ClientInv
  <2>2. ShownUpTo(t, n)'
    BY <1>0, <1>2, <1>7, <2>1 DEF ShownUpTo, Prefix
  <2>3. n \in n .. Len(stream[t])
    BY <1>3
  <2> QED
    BY <1>0, <1>1, <1>3, <1>7, <2>1, <2>2, <2>3, ShowsMore
<1>8. ASSUME NEW p \in SubPhase, SubGoto(t, p)
      PROVE  \E s \in Subscription : s.last = n /\ sub' = [sub EXCEPT ![t] = s]
  <2>1. sub' = [sub EXCEPT ![t] = [sub[t] EXCEPT !.pc = p]]
    BY <1>8 DEF SubGoto
  <2>2. [sub[t] EXCEPT !.pc = p] \in Subscription /\ [sub[t] EXCEPT !.pc = p].last = n
    BY <1>2, <1>3 DEF Subscription
  <2> QED
    BY <2>1, <2>2
<1> DEFINE Moved == \E s \in Subscription : s.last = n /\ sub' = [sub EXCEPT ![t] = s]
<1>13. /\ SubGoto(t, "replay") => Moved
       /\ SubGoto(t, "follow") => Moved
       /\ SubGoto(t, "end") => Moved
  <2>1. "replay" \in SubPhase /\ "follow" \in SubPhase /\ "end" \in SubPhase
    BY DEF SubPhase
  <2> QED
    BY <1>8, <2>1, Zenon
<1>9. CASE Subscribe(t) \/ CheckRow(t) \/ CheckLease(t) \/ TailTimeout(t) \/ SubscriptionFails(t)
  <2>1. /\ UNCHANGED <<shown, held>>
        /\ SubGoto(t, "replay") \/ SubGoto(t, "follow") \/ SubGoto(t, "end")
    <3>1. CASE CheckRow(t)
      <4>1. CASE sub[t].tail /\ status[t] = "running"
        BY <3>1, <4>1 DEF CheckRow
      <4>2. CASE ~(sub[t].tail /\ status[t] = "running")
        BY <3>1, <4>2 DEF CheckRow
      <4> QED
        BY <4>1, <4>2
    <3>2. CASE CheckLease(t)
      <4>1. CASE Active(t)
        BY <3>2, <4>1 DEF CheckLease
      <4>2. CASE ~Active(t)
        BY <3>2, <4>2 DEF CheckLease
      <4> QED
        BY <4>1, <4>2
    <3>3. CASE Subscribe(t) \/ TailTimeout(t) \/ SubscriptionFails(t)
      BY <3>3 DEF Subscribe, TailTimeout, SubscriptionFails
    <3> QED
      BY <1>9, <3>1, <3>2, <3>3
  <2>2. \E s \in Subscription : s.last = n /\ sub' = [sub EXCEPT ![t] = s]
    BY <1>13, <2>1
  <2>3. ClientInv' /\ Log!Show(t)
    BY <1>7, <2>1, <2>2
  <2> QED
    BY <2>3 DEF Log!LogNext
<1>10. CASE Resume(t)
  <2> DEFINE s == [NoSubscription EXCEPT !.pc = "replay", !.last = Len(shown[t])]
  <2>1. sub' = [sub EXCEPT ![t] = s] /\ UNCHANGED <<shown, held>>
    BY <1>10 DEF Resume
  <2>2. s \in Subscription /\ s.last = n
    BY <1>3, Resumed
  <2> HIDE DEF s
  <2>3. ClientInv' /\ Log!Show(t)
    BY <1>7, <2>1, <2>2
  <2> QED
    BY <2>3 DEF Log!LogNext
<1>11. CASE CheckEnd(t) /\ ~Terminal(t)
  <2>1. UNCHANGED <<shown, held>> /\ (SubGoto(t, "follow") \/ SubGoto(t, "end"))
    <3>1. CASE Nonterminal(t)
      BY <1>11, <3>1 DEF CheckEnd
    <3>2. CASE ~Nonterminal(t)
      BY <1>11, <3>2 DEF CheckEnd
    <3> QED
      BY <3>1, <3>2
  <2>2. \E s \in Subscription : s.last = n /\ sub' = [sub EXCEPT ![t] = s]
    BY <1>13, <2>1
  <2>3. ClientInv' /\ Log!Show(t)
    BY <1>7, <2>1, <2>2
  <2> QED
    BY <2>3 DEF Log!LogNext
<1>12. CASE CheckEnd(t) /\ Terminal(t)
  <2> DEFINE made == [seq |-> n + 1, kind |-> "synthesized", status |-> status[t]]
  <2>1. made \in Event /\ made.seq = n + 1 /\ made.kind = "synthesized"
    BY <1>3, <1>12 DEF Event, EventKind, Terminal
  <2>2. Accept(t, {made}) /\ SubGoto(t, "end")
    BY <1>2, <1>12 DEF CheckEnd, Terminal, Nonterminal, TerminalStatus, NonterminalStatus
  <2> HIDE DEF made
  <2>3. /\ held' = held
        /\ shown' = [shown EXCEPT ![t] =
             [i \in 1 .. n + 1 |-> IF i <= n THEN shown[t][i] ELSE EventNo({made}, i)]]
    <3>1. /\ n + 1 \in Nat /\ n + 1 >= n /\ \A e \in {made} : e.seq \in n + 1 .. n + 1
          /\ \A i \in n + 1 .. n + 1 : \E e \in {made} : e.seq = i
      BY <1>3, <2>1
    <3> QED
      BY <1>3, <2>2, <3>1, AcceptRun
  <2>4. EventNo({made}, n + 1) = made
    BY <2>1 DEF EventNo
  <2>5. [i \in 1 .. n + 1 |-> IF i <= n THEN shown[t][i] ELSE EventNo({made}, i)]
          = Append(shown[t], made)
    <3>1. /\ Append(shown[t], made) = [i \in 1 .. n + 1 |-> Append(shown[t], made)[i]]
          /\ \A i \in 1 .. n : Append(shown[t], made)[i] = shown[t][i]
          /\ Append(shown[t], made)[n + 1] = made
      BY <1>3, <2>1
    <3>2. \A i \in 1 .. n + 1 : IF i <= n THEN i \in 1 .. n ELSE i = n + 1
      BY <1>3
    <3> QED
      BY <2>4, <3>1, <3>2
  <2>6. /\ shown' = [shown EXCEPT ![t] = Append(Prefix(t, n), made)]
        /\ Append(Prefix(t, n), made) \in Seq(Event)
    <3>1. Append(shown[t], made) \in Seq(Event)
      BY <1>3, <2>1
    <3>2. shown' = [shown EXCEPT ![t] = Append(shown[t], made)]
      BY <2>3, <2>5, Zenon
    <3> QED
      BY <1>2, <3>1, <3>2
  <2>7. sub'[t].pc = "end" /\ \E s \in Subscription : sub' = [sub EXCEPT ![t] = s]
    <3>1. \E s \in Subscription : sub' = [sub EXCEPT ![t] = s]
      BY <1>13, <2>2
    <3>2. sub'[t] = [sub[t] EXCEPT !.pc = "end"]
      BY <2>2 DEF SubGoto, ClientInv
    <3> QED
      BY <1>3, <3>1, <3>2 DEF Subscription
  <2>8. shown'[t] = Append(Prefix(t, n), made) /\ Prefix(t, n)' = Prefix(t, n)
    BY <1>0, <2>6 DEF ClientInv, Prefix
  <2>9. ShownUpTo(t, n)' /\ n \in n .. Len(stream[t])
    BY <1>3, <2>1, <2>7, <2>8 DEF ShownUpTo
  <2> QED
    BY <1>0, <1>1, <2>3, <2>6, <2>7, <2>9, ShowsMore DEF Log!LogNext
<1> QED
  BY <1>0, <1>5, <1>6, <1>9, <1>10, <1>11, <1>12 DEF Subscriber

\* The table having no gap, what the client is shown keeps up with the stream.
LEMMA ClientInvariant ==
  ASSUME Calm
  PROVE  EvSpec => []ClientInv /\ Log!LogInit /\ [][Log!LogNext]_<<stream, ShownLog>>
<1>0. StreamsStay
  BY DEF Calm, StreamsStay
<1>1. EvInit => ClientInv /\ Log!LogInit
  <2> SUFFICES ASSUME EvInit
               PROVE  ClientInv /\ Log!LogInit
    OBVIOUS
  <2>1. /\ stream = [t \in Turn |-> <<>>] /\ shown = [t \in Turn |-> <<>>]
        /\ sub = [t \in Turn |-> NoSubscription] /\ held = [t \in Turn |-> {}]
    BY DEF EvInit
  <2>2. \A t \in Turn : Prefix(t, 0) = <<>> /\ Elements(stream[t]) = {}
    <3>1. SubSeq(<<>>, 1, 0) = <<>> /\ Elements(<<>>) = {}
      BY DEF Elements
    <3>2. \A t \in Turn : stream[t] = <<>>
      BY <2>1
    <3> QED
      BY <3>1, <3>2 DEF Prefix
  <2>3. \A t \in Turn : 0 \in 0 .. Len(stream[t]) /\ ShownUpTo(t, 0)
    <3> SUFFICES ASSUME NEW t \in Turn
                 PROVE  0 \in 0 .. Len(stream[t]) /\ ShownUpTo(t, 0)
      OBVIOUS
    <3>1. stream[t] = <<>> /\ shown[t] = <<>> /\ sub[t] = NoSubscription
      BY <2>1
    <3>2. sub[t].last = 0
      BY <3>1 DEF NoSubscription
    <3> QED
      BY <2>2, <3>1, <3>2 DEF ShownUpTo
  <2>4. OfLog(<<>>) = <<>>
    BY DEF OfLog, MadeUp
  <2>5. Log!LogInit
    BY <2>1, <2>4 DEF Log!LogInit
  <2>6. NoSubscription \in Subscription /\ <<>> \in Seq(Event)
    <3>1. "off" \in SubPhase
      BY DEF SubPhase
    <3>2. NoSubscription \in Subscription
      BY <3>1, Zenon DEF NoSubscription, Subscription
    <3> QED
      BY <3>2
  <2>7. ClientInv
    BY <2>1, <2>2, <2>3, <2>6 DEF ClientInv
  <2> QED
    BY <2>5, <2>7
<1>2. /\ TypeOK /\ OwnerTypeOK /\ EventsInv /\ NoDurableGap /\ ClientInv /\ [EvNext]_evVars
      => ClientInv' /\ [Log!LogNext]_<<stream, ShownLog>>
  <2> SUFFICES ASSUME TypeOK, OwnerTypeOK, EventsInv, NoDurableGap, ClientInv, [EvNext]_evVars
               PROVE  ClientInv' /\ [Log!LogNext]_<<stream, ShownLog>>
    OBVIOUS
  <2>1. ASSUME NEW t \in Turn, ClientStep(t)
        PROVE  ClientInv' /\ [Log!LogNext]_<<stream, ShownLog>>
    BY <2>1, ClientFollows
  <2>2. ASSUME Publishes, UNCHANGED clientVars
        PROVE  ClientInv' /\ [Log!LogNext]_<<stream, ShownLog>>
    BY <2>2, OwnersPublish
  <2>3. CASE UNCHANGED evVars
    BY <2>2, <2>3 DEF evVars, eventVars, ownerVars, Publishes
  <2> QED
    BY <1>0, <2>1, <2>2, <2>3, EvTurnStepCopies, EvProcessStepCopies, RemoveEventsCopies
       DEF EvNext, StreamsStay
<1>3. /\ EvSpec => []EventsInv
      /\ EvSpec => []NoDurableGap
  BY <1>0, EventsInvariant, DurableHasNoGap
<1> QED
  BY <1>1, <1>2, <1>3, EventsTypeCorrect, EventsUseRuntime, RuntimeTypeCorrect, PTL
     DEF EvSpec

(***************************************************************************)
(* In a calm deployment the events of a turn and its client implement the  *)
(* abstract log: through crashes of workers that share a backend, cancels, *)
(* shutdowns and deletions in memory, recoveries, broken connections and   *)
(* subscriptions, what the client is shown, but for a DONE made up at the  *)
(* end, is a growing prefix of one growing log (service.py 91-179,         *)
(* TurnRuntimeClient.ts 237-301).                                          *)
(***************************************************************************)
THEOREM ClientsFollowTheLog ==
  ASSUME Calm
  PROVE  EvSpec => ImplementsLog
<1> QED
  BY ClientInvariant, PTL DEF ImplementsLog, Log!LogSpec, ShownLog

(***************************************************************************)
(* In a calm deployment the client's reordering buffer is never needed:    *)
(* between its steps nothing is held back, waiting for a replay to fill a  *)
(* gap (TurnRuntimeClient.ts 237-301).                                     *)
(***************************************************************************)
THEOREM NothingIsHeldBack ==
  ASSUME Calm
  PROVE  EvSpec => [](\A t \in Turn : held[t] = {})
<1>1. ClientInv => \A t \in Turn : held[t] = {}
  BY DEF ClientInv
<1> QED
  BY <1>1, ClientInvariant, PTL
=============================================================================
