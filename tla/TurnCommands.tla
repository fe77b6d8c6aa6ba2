----------------------------- MODULE TurnCommands -----------------------------
(***************************************************************************)
(* The commands of a turn (app/service.py over the command stream of the   *)
(* coordinator): a browser tab puts a reply or a cancel into its outbox,   *)
(* sends it again on every new connection until it is acknowledged; the    *)
(* process of the connection looks at the turn's lease and submits the     *)
(* command; the coordination task of the turn's owner reads the stream and *)
(* feeds the reply queue, from which ask_user takes the answer.            *)
(*                                                                         *)
(* One turn, which keeps its lease to its end.  A command is identified by *)
(* its position in the order of creation, kept with what it was meant for. *)
(***************************************************************************)
EXTENDS Naturals, Sequences, FiniteSets, SequencesExt

CONSTANTS
  Tab,           \* clients that show the turn
  Asks,          \* bound on the questions that the turn asks
  MaxSent,       \* bound on the commands
  MaxBreaks,     \* bound on the connections that break
  Impatient      \* more than one reply may be sent to a question

ASSUME AsksIsCount == Asks \in Nat /\ MaxSent \in Nat /\ MaxBreaks \in Nat
ASSUME ImpatientIsBoolean == Impatient \in BOOLEAN

VARIABLES
  task,          \* the turn's task: it works, awaits a reply, or is over
  asked,         \* questions asked so far
  answers,       \* the commands whose replies answered them
  inbox,         \* the turn's reply queue
  owned,         \* the turn's lease is live
  stream, known_ids,   \* the command stream and the ids it has had
  readTo,        \* the coordination task's command_cursor
  coordinating,  \* the coordination task runs
  sent,          \* the commands created: kind and question
  outbox,        \* each tab's pending commands
  unsent,        \* those not yet sent on its connection
  wire,          \* commands on the connection, in order
  handling,      \* the command whose lease was looked at, 0 for none
  acks,          \* acknowledgements on the connection
  adrift,          \* commands that broken connections have still to handle
  accepted,      \* commands that were submitted for an acknowledgement (history)
  breaks

commandVars == <<task, asked, answers, inbox, owned, stream, known_ids, readTo,
                 coordinating, sent, outbox, unsent, wire, handling, acks, adrift,
                 accepted, breaks>>
turnSide == <<task, asked, answers, inbox, owned, readTo, coordinating>>
tabSide == <<sent, outbox, unsent>>
linkSide == <<wire, handling, acks, adrift, breaks>>

Id == 1..MaxSent

CommandTypeOK ==
  /\ task \in {"busy", "waiting", "over"}
  /\ asked \in 0..Asks /\ answers \in Seq(Id) /\ inbox \in Seq(Id)
  /\ owned \in BOOLEAN /\ coordinating \in BOOLEAN
  /\ stream \in Seq(Id) /\ known_ids \subseteq Id /\ readTo \in 0..Len(stream)
  /\ sent \in Seq([kind : {"reply", "cancel"}, to : 0..Asks])
  /\ outbox \in [Tab -> SUBSET Id] /\ unsent \in [Tab -> SUBSET Id]
  /\ wire \in [Tab -> Seq(Id)] /\ acks \in [Tab -> Seq(Id)]
  /\ handling \in [Tab -> Id \cup {0}]
  /\ adrift \subseteq Id /\ accepted \subseteq Id
  /\ breaks \in Nat

CommandInit ==
  /\ task = "busy" /\ asked = 0 /\ answers = <<>> /\ inbox = <<>>
  /\ owned = TRUE /\ coordinating = TRUE
  /\ stream = <<>> /\ known_ids = {} /\ readTo = 0
  /\ sent = <<>>
  /\ outbox = [x \in Tab |-> {}] /\ unsent = [x \in Tab |-> {}]
  /\ wire = [x \in Tab |-> <<>>] /\ acks = [x \in Tab |-> <<>>]
  /\ handling = [x \in Tab |-> 0]
  /\ adrift = {} /\ accepted = {}
  /\ breaks = 0

\* ask_user: _wait_for_user_reply.
AskUser ==
  /\ task = "busy" /\ asked < Asks
  /\ task' = "waiting"
  /\ asked' = asked + 1
  /\ UNCHANGED <<answers, inbox, owned, readTo, coordinating, stream, known_ids,
                 accepted, tabSide, linkSide>>

\* reply_queue.get returns.
TakeReply ==
  /\ task = "waiting" /\ inbox # <<>>
  /\ task' = "busy"
  /\ answers' = Append(answers, Head(inbox))
  /\ inbox' = Tail(inbox)
  /\ UNCHANGED <<asked, owned, readTo, coordinating, stream, known_ids, accepted,
                 tabSide, linkSide>>

\* The end of the task: its reply queue and its coordination go, then the lease.
Over ==
  /\ task' = "over"
  /\ inbox' = <<>>
  /\ coordinating' = FALSE

EndTurn ==
  /\ task = "busy"
  /\ Over
  /\ UNCHANGED <<asked, answers, owned, readTo, stream, known_ids, accepted, tabSide,
                 linkSide>>

ReleaseTurn ==
  /\ task = "over" /\ owned
  /\ owned' = FALSE
  /\ UNCHANGED <<task, asked, answers, inbox, readTo, coordinating, stream, known_ids,
                 accepted, tabSide, linkSide>>

\* Mutation: the cursor goes to the end of what was read.
ConsumeFirst ==
  /\ coordinating /\ readTo < Len(stream)
  /\ readTo' = Len(stream)
  /\ IF sent[stream[readTo + 1]].kind = "cancel"
       THEN Over
       ELSE inbox' = Append(inbox, stream[readTo + 1]) /\ UNCHANGED <<task, coordinating>>
  /\ UNCHANGED <<asked, answers, owned, stream, known_ids, accepted, tabSide, linkSide>>

\* _coordinate_execution: a cancel ends the task, a reply joins the queue.
Consume ==
  /\ coordinating /\ readTo < Len(stream)
  /\ readTo' = readTo + 1
  /\ IF sent[stream[readTo + 1]].kind = "cancel"
       THEN Over
       ELSE inbox' = Append(inbox, stream[readTo + 1]) /\ UNCHANGED <<task, coordinating>>
  /\ UNCHANGED <<asked, answers, owned, stream, known_ids, accepted, tabSide, linkSide>>

-----------------------------------------------------------------------------
\* send: the command is put into the outbox.
Put(x, command) ==
  /\ Len(sent) < MaxSent
  /\ sent' = Append(sent, command)
  /\ outbox' = [outbox EXCEPT ![x] = @ \cup {Len(sent) + 1}]
  /\ unsent' = [unsent EXCEPT ![x] = @ \cup {Len(sent) + 1}]
  /\ UNCHANGED <<turnSide, stream, known_ids, accepted, linkSide>>

RepliedTo(k) == \E i \in DOMAIN sent : sent[i].kind = "reply" /\ sent[i].to = k

\* submitUserReply and the composer, while the last card looks unresolved.
SendReply(x) ==
  /\ asked > 0 /\ (Impatient \/ ~RepliedTo(asked))
  /\ Put(x, [kind |-> "reply", to |-> asked])

SendCancel(x) ==
  /\ \A i \in DOMAIN sent : sent[i].kind = "reply"
  /\ Put(x, [kind |-> "cancel", to |-> 0])

First(ids) == CHOOSE i \in ids : \A j \in ids : i <= j

\* flushPending, in the order of the outbox.
Transmit(x) ==
  /\ unsent[x] # {}
  /\ wire' = [wire EXCEPT ![x] = Append(@, First(unsent[x]))]
  /\ unsent' = [unsent EXCEPT ![x] = @ \ {First(@)}]
  /\ UNCHANGED <<turnSide, stream, known_ids, accepted, sent, outbox, handling, acks,
                 adrift, breaks>>

\* The row and the lease are read; a command they refuse is answered at once.
Refuses(i) == ~owned \/ (sent[i].kind = "cancel" /\ task = "over")

CheckLease(x) ==
  /\ wire[x] # <<>> /\ handling[x] = 0
  /\ wire' = [wire EXCEPT ![x] = Tail(@)]
  /\ IF Refuses(Head(wire[x]))
       THEN acks' = [acks EXCEPT ![x] = Append(@, Head(wire[x]))] /\ UNCHANGED handling
       ELSE handling' = [handling EXCEPT ![x] = Head(wire[x])] /\ UNCHANGED acks
  /\ UNCHANGED <<turnSide, stream, known_ids, accepted, tabSide, adrift, breaks>>

\* Mutation: an id that was seen is submitted again.
EnterAgain(i) ==
  /\ known_ids' = known_ids \cup {i}
  /\ stream' = Append(stream, i)

\* submit_command: an id is taken once.
Enter(i) ==
  /\ known_ids' = known_ids \cup {i}
  /\ stream' = IF i \in known_ids THEN stream ELSE Append(stream, i)

\* Mutation: a duplicate is not acknowledged.
SubmitSilently(x) ==
  /\ handling[x] # 0
  /\ Enter(handling[x])
  /\ accepted' = accepted \cup {handling[x]}
  /\ acks' = IF handling[x] \in known_ids
               THEN acks ELSE [acks EXCEPT ![x] = Append(@, handling[x])]
  /\ handling' = [handling EXCEPT ![x] = 0]
  /\ UNCHANGED <<turnSide, tabSide, wire, adrift, breaks>>

\* The command is submitted, or was before: either way it is acknowledged.
SubmitCommand(x) ==
  /\ handling[x] # 0
  /\ Enter(handling[x])
  /\ accepted' = accepted \cup {handling[x]}
  /\ acks' = [acks EXCEPT ![x] = Append(@, handling[x])]
  /\ handling' = [handling EXCEPT ![x] = 0]
  /\ UNCHANGED <<turnSide, tabSide, wire, adrift, breaks>>

\* The handler of a broken connection goes on with what it had received.
SubmitLate ==
  /\ adrift # {}
  /\ adrift' = adrift \ {First(adrift)}
  /\ IF Refuses(First(adrift)) THEN UNCHANGED <<stream, known_ids>> ELSE Enter(First(adrift))
  /\ UNCHANGED <<turnSide, accepted, tabSide, wire, handling, acks, breaks>>

\* The acknowledgement, accepted or not, takes the command out of the outbox.
CommandAck(x) ==
  /\ acks[x] # <<>>
  /\ outbox' = [outbox EXCEPT ![x] = @ \ {Head(acks[x])}]
  /\ unsent' = [unsent EXCEPT ![x] = @ \ {Head(acks[x])}]
  /\ acks' = [acks EXCEPT ![x] = Tail(@)]
  /\ UNCHANGED <<turnSide, stream, known_ids, accepted, sent, wire, handling, adrift, breaks>>

\* The connection breaks and the tab comes back with its outbox.
Break(x) ==
  /\ breaks < MaxBreaks /\ breaks' = breaks + 1
  /\ \E received \in Prefixes(wire[x]) :
       adrift' = adrift \cup ToSet(received) \cup ({handling[x]} \ {0})
  /\ wire' = [wire EXCEPT ![x] = <<>>] /\ acks' = [acks EXCEPT ![x] = <<>>]
  /\ handling' = [handling EXCEPT ![x] = 0]
  /\ unsent' = [unsent EXCEPT ![x] = outbox[x]]
  /\ UNCHANGED <<turnSide, stream, known_ids, accepted, sent, outbox>>

Carry(x) == Transmit(x) \/ CheckLease(x) \/ SubmitCommand(x) \/ CommandAck(x)

CommandNext ==
  \/ AskUser \/ TakeReply \/ EndTurn \/ ReleaseTurn \/ Consume \/ SubmitLate
  \/ \E x \in Tab : SendReply(x) \/ SendCancel(x) \/ Carry(x) \/ Break(x)

CommandSpec == CommandInit /\ [][CommandNext]_commandVars

\* Connections and handlers work; nobody has to ask, answer or cancel.
CommandFairness == \A x \in Tab : WF_commandVars(Carry(x))

CommandFairSpec == CommandSpec /\ CommandFairness

-----------------------------------------------------------------------------
(***************************************************************************)
(* A question is answered by a reply that was sent to it: a reply that is  *)
(* sent again after its acknowledgement was lost does not answer the next  *)
(* question (redis.py _SUBMIT_COMMAND_LUA, memory.py submit_command).      *)
(***************************************************************************)
RepliesAnswerTheirQuestion ==
  \A k \in DOMAIN answers : sent[answers[k]].to = k

\* What the coordination task has still to read.
Ahead == ToSet(SubSeq(stream, readTo + 1, Len(stream)))

(***************************************************************************)
(* A command that was acknowledged as accepted is on its way to the turn,  *)
(* whoever reads what from the stream and when: a reply while the turn     *)
(* waits for it, a cancel until the turn is over (lifecycle.py             *)
(* _coordinate_execution).                                                 *)
(***************************************************************************)
AcceptedCommandsArrive ==
  \A i \in accepted :
    IF sent[i].kind = "cancel"
      THEN task # "over" => i \in Ahead
      ELSE task = "waiting" /\ sent[i].to = asked => i \in Ahead \cup ToSet(inbox)

(***************************************************************************)
(* Every command leaves the outbox in the end, also one whose first        *)
(* acknowledgement was lost ("must acknowledge that retry as success so a  *)
(* client that lost the first ACK can retire its durable outbox entry").   *)
(***************************************************************************)
CommandsRetire == []<>(\A x \in Tab : outbox[x] = {})
=============================================================================
