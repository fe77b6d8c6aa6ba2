-------------------------- MODULE TurnCommands_proofs --------------------------
(***************************************************************************)
(* Proofs about the commands of a turn, for any tabs, questions, commands  *)
(* and broken connections.                                                 *)
(*                                                                         *)
(* What a reply answers is decided where it is read, and it may have been  *)
(* sent on several connections before.  Travelling says that whatever is   *)
(* on its way was created; Streamed, that the stream has every id it knows *)
(* exactly once; Addressed, that a reply is meant for a question that was  *)
(* asked; Counted, how many answers there are.  From these, Fed: the turn  *)
(* has not missed a cancel among what it read, nor a reply to the question *)
(* it waits for.  OneEach needs that nobody replies to a question twice;   *)
(* then Fresh: what is in the inbox is meant for a question without an     *)
(* answer, so it is meant for the question that is open.  UnderWay and     *)
(* Acknowledged follow the commands of the outboxes over the connections.  *)
(***************************************************************************)
EXTENDS TurnCommands, SequenceTheorems, WellFoundedInduction, TLAPS

Created == 1..Len(sent)

\* Whatever is on its way was created.
Travelling ==
  /\ \A x \in Tab :
       /\ outbox[x] \subseteq Created /\ unsent[x] \subseteq Created
       /\ handling[x] \in Created \cup {0}
       /\ \A k \in 1..Len(wire[x]) : wire[x][k] \in Created
  /\ adrift \subseteq Created
  /\ known_ids \subseteq Created
  /\ accepted \subseteq known_ids

\* The stream has every known id once.
Streamed ==
  /\ \A k \in 1..Len(stream) : stream[k] \in known_ids
  /\ \A i \in known_ids : \E k \in 1..Len(stream) : stream[k] = i
  /\ \A k, l \in 1..Len(stream) : stream[k] = stream[l] => k = l

\* A reply is meant for a question that was asked, a cancel for none.
Addressed ==
  \A i \in Created : IF sent[i].kind = "reply" THEN sent[i].to \in 1..asked
                                               ELSE sent[i].to = 0

\* The answers and the inbox are replies, and come from what was read.
HasRead == {stream[k] : k \in 1..readTo}

Counted ==
  /\ task = "busy" => Len(answers) = asked
  /\ task = "waiting" => Len(answers) + 1 = asked
  /\ task = "over" => inbox = <<>>
  /\ coordinating <=> task # "over"
  /\ Len(answers) <= asked
  /\ \A k \in 1..Len(answers) : /\ answers[k] \in HasRead
                                /\ sent[answers[k]].kind = "reply"
                                /\ task = "waiting" => sent[answers[k]].to < asked
  /\ \A k \in 1..Len(inbox) : inbox[k] \in HasRead /\ sent[inbox[k]].kind = "reply"

\* What was read has had its effect, or is in the inbox.
Fed ==
  \A k \in 1..readTo :
    /\ sent[stream[k]].kind = "cancel" => task = "over"
    /\ task = "waiting" /\ sent[stream[k]].to = asked
         => \E l \in 1..Len(inbox) : inbox[l] = stream[k]

\* Nobody replied twice.
OneEach ==
  \A i, j \in Created :
    sent[i].kind = "reply" /\ sent[j].kind = "reply" /\ sent[i].to = sent[j].to => i = j

Fresh ==
  /\ \A k \in 1..Len(answers) : sent[answers[k]].to = k
  /\ \A k \in 1..Len(inbox) : sent[inbox[k]].to > Len(answers)
  /\ \A k, l \in 1..Len(inbox) : inbox[k] = inbox[l] => k = l

CommandInv == CommandTypeOK /\ Travelling /\ Streamed /\ Addressed /\ Counted /\ Fed

-----------------------------------------------------------------------------
(* The operators *)

\* A set of numbers that is not empty has a first.
LEMMA FirstIsLeast ==
  ASSUME NEW ids \in SUBSET Nat, ids # {}
  PROVE  First(ids) \in ids
<1> DEFINE Less == {ss \in Nat \X Nat : ss[1] < ss[2]}
<1>1. IsWellFoundedOn(Less, Nat)
  BY NatLessThanWellFounded, Zenon DEF OpToRel
<1>2. PICK x \in ids : \A y \in ids : <<y, x>> \notin Less
  <2> HIDE DEF Less
  <2> QED
    BY <1>1, WFMin, Zenon
<1>3. \A y \in ids : x <= y
  <2>1. ASSUME NEW y \in ids, y < x
        PROVE  FALSE
    <3>1. <<y, x>> \in Less
      BY <2>1
    <3> QED
      BY <1>2, <3>1
  <2> QED
    BY <2>1
<1> QED
  BY <1>3 DEF First

\* What a handler received of a connection was on that connection.
LEMMA ReceivedWasSent ==
  ASSUME NEW S, NEW w \in Seq(S), NEW received \in Prefixes(w)
  PROVE  ToSet(received) \subseteq {w[k] : k \in 1..Len(w)}
<1>1. PICK l \in 0..Len(w) : received = SubSeq(w, 1, l)
  BY DEF Prefixes
<1>2. /\ received \in Seq(S) /\ Len(received) = l
      /\ \A i \in 1..l : received[i] = w[i]
  BY <1>1, ElementOfSeq, LenProperties, SubSeqProperties
<1> QED
  BY <1>2 DEF ToSet

\* What is ahead of the cursor stands behind it in the stream.
LEMMA AheadStandsBehind ==
  ASSUME stream \in Seq(Id), readTo \in 0..Len(stream),
         NEW k \in readTo + 1..Len(stream)
  PROVE  stream[k] \in Ahead
<1> DEFINE rest == SubSeq(stream, readTo + 1, Len(stream))
<1>1. /\ rest \in Seq(Id)
      /\ Len(rest) = Len(stream) - readTo
      /\ \A i \in 1..Len(stream) - readTo : rest[i] = stream[readTo + i]
  BY SubSeqProperties, ElementOfSeq, LenProperties
<1>2. k - readTo \in DOMAIN rest /\ rest[k - readTo] = stream[k]
  BY <1>1
<1> QED
  BY <1>2 DEF Ahead, ToSet

-----------------------------------------------------------------------------
(* The initial state *)

LEMMA InitHasInv == CommandInit => CommandInv /\ OneEach /\ Fresh
<1> USE AsksIsCount DEF CommandInit
<1>1. CommandInit => CommandTypeOK
  BY DEF CommandTypeOK
<1>2. CommandInit => Travelling /\ Streamed
  BY DEF Travelling, Streamed
<1>3. CommandInit => Addressed /\ Counted /\ Fed
  BY DEF Addressed, Counted, Fed, Created
<1>4. CommandInit => OneEach /\ Fresh
  BY DEF OneEach, Fresh, Created
<1> QED
  BY <1>1, <1>2, <1>3, <1>4 DEF CommandInv

-----------------------------------------------------------------------------
(* The steps of the turn *)

TurnStep == AskUser \/ TakeReply \/ EndTurn \/ ReleaseTurn \/ Consume

LEMMA TurnLeavesTheRest ==
  ASSUME TurnStep
  PROVE  UNCHANGED <<stream, known_ids, accepted, tabSide, linkSide>>
BY DEF TurnStep, AskUser, TakeReply, EndTurn, ReleaseTurn, Consume, Over

LEMMA TurnKeepsType ==
  ASSUME CommandTypeOK, TurnStep
  PROVE  CommandTypeOK'
<1> USE DEF Id
<1>1. UNCHANGED <<stream, known_ids, accepted, tabSide, linkSide>>
  BY TurnLeavesTheRest
<1>2. CASE AskUser \/ ReleaseTurn
  <2>1. asked' \in 0..Asks
    BY <1>2, AsksIsCount DEF CommandTypeOK, AskUser, ReleaseTurn
  <2> QED
    BY <1>1, <1>2, <2>1 DEF CommandTypeOK, AskUser, ReleaseTurn, tabSide, linkSide
<1>3. CASE TakeReply
  <2>1. answers' \in Seq(Id) /\ inbox' \in Seq(Id)
    <3>1. answers \in Seq(Id) /\ inbox \in Seq(Id) /\ inbox # <<>>
      BY <1>3 DEF CommandTypeOK, TakeReply
    <3>2. Head(inbox) \in Id /\ Tail(inbox) \in Seq(Id)
      BY <3>1, HeadTailProperties
    <3>3. Append(answers, Head(inbox)) \in Seq(Id)
      BY <3>1, <3>2, AppendProperties
    <3> QED
      BY <1>3, <3>2, <3>3 DEF TakeReply
  <2> QED
    BY <1>1, <1>3, <2>1 DEF CommandTypeOK, TakeReply, tabSide, linkSide
<1>4. CASE EndTurn
  BY <1>1, <1>4, EmptySeq DEF CommandTypeOK, EndTurn, Over, tabSide, linkSide
<1>5. CASE Consume
  <2>1. readTo' \in 0..Len(stream') /\ stream[readTo + 1] \in Id
    <3>1. stream \in Seq(Id) /\ readTo \in 0..Len(stream) /\ stream' = stream
      BY <1>1 DEF CommandTypeOK
    <3>2. Len(stream) \in Nat
      BY <3>1, LenProperties
    <3>3. readTo < Len(stream) /\ readTo' = readTo + 1
      BY <1>5 DEF Consume
    <3>4. readTo + 1 \in 1..Len(stream)
      BY <3>1, <3>2, <3>3
    <3>5. stream[readTo + 1] \in Id
      BY <3>1, <3>4, ElementOfSeq
    <3> QED
      BY <3>1, <3>2, <3>3, <3>5
  <2>2. inbox' \in Seq(Id)
    <3>1. inbox \in Seq(Id) /\ <<>> \in Seq(Id)
      BY EmptySeq DEF CommandTypeOK
    <3>2. Append(inbox, stream[readTo + 1]) \in Seq(Id)
      BY <2>1, <3>1, AppendProperties
    <3> QED
      BY <1>5, <3>1, <3>2 DEF Consume, Over
  <2>3. task' \in {"busy", "waiting", "over"} /\ coordinating' \in BOOLEAN
    BY <1>5 DEF CommandTypeOK, Consume, Over
  <2> QED
    BY <1>1, <1>5, <2>1, <2>2, <2>3 DEF CommandTypeOK, Consume, tabSide, linkSide
<1> QED
  BY <1>2, <1>3, <1>4, <1>5 DEF TurnStep

\* A cursor that only moves on forgets nothing.
LEMMA ReadStaysRead ==
  ASSUME CommandTypeOK, TurnStep
  PROVE  HasRead \subseteq HasRead'
<1>1. readTo \in Nat /\ readTo' \in {readTo, readTo + 1} /\ stream' = stream
  BY TurnLeavesTheRest, LenProperties
     DEF CommandTypeOK, TurnStep, AskUser, TakeReply, EndTurn, ReleaseTurn, Consume
<1> QED
  BY <1>1 DEF HasRead

LEMMA TurnKeepsCounted ==
  ASSUME CommandInv, TurnStep
  PROVE  Counted' /\ Addressed'
<1>1. /\ UNCHANGED <<stream, known_ids, sent>>
      /\ HasRead \subseteq HasRead'
  BY TurnLeavesTheRest, ReadStaysRead DEF tabSide, CommandInv
<1>2. /\ answers \in Seq(Id) /\ Len(answers) \in Nat
      /\ inbox \in Seq(Id) /\ Len(inbox) \in Nat
      /\ asked \in Nat /\ Len(sent) \in Nat
      /\ Counted /\ Addressed
  BY LenProperties, AsksIsCount DEF CommandInv, CommandTypeOK
<1>3. HasRead \subseteq Created
  BY DEF CommandInv, CommandTypeOK, HasRead, Streamed, Travelling
<1>4. Addressed'
  <2>1. asked' \in {asked, asked + 1}
    BY DEF TurnStep, AskUser, TakeReply, EndTurn, ReleaseTurn, Consume
  <2> QED
    BY <1>1, <1>2, <2>1 DEF Addressed, Created
<1>5. CASE AskUser
  <2>1. \A k \in 1..Len(answers) : sent[answers[k]].to \in 1..asked
    BY <1>2, <1>3 DEF Counted, Addressed
  <2> QED
    BY <1>1, <1>2, <1>4, <1>5, <2>1 DEF AskUser, Counted
<1>6. CASE TakeReply
  <2>1. /\ task = "waiting" /\ task' = "busy" /\ inbox # <<>>
        /\ UNCHANGED <<asked, coordinating>>
    BY <1>6 DEF TakeReply
  <2>2. /\ Len(inbox) >= 1 /\ Len(inbox') = Len(inbox) - 1 /\ Head(inbox) = inbox[1]
        /\ Head(inbox) \in Id
        /\ \A k \in 1..Len(inbox') : inbox'[k] = inbox[k + 1]
    BY <1>2, <1>6, <2>1, HeadTailProperties, EmptySeq DEF TakeReply
  <2>3. /\ Len(answers') = Len(answers) + 1
        /\ \A k \in 1..Len(answers) : answers'[k] = answers[k]
        /\ answers'[Len(answers) + 1] = inbox[1]
    BY <1>2, <1>6, <2>2, AppendProperties DEF TakeReply
  <2>4. \A k \in 1..Len(answers') : answers'[k] \in HasRead' /\ sent'[answers'[k]].kind = "reply"
    <3>1. ASSUME NEW k \in 1..Len(answers')
          PROVE  k \in 1..Len(answers) \/ answers'[k] = inbox[1]
      BY <1>2, <2>3, <3>1
    <3>2. inbox[1] \in HasRead /\ sent[inbox[1]].kind = "reply"
      BY <1>2, <2>2 DEF Counted
    <3> QED
      BY <1>1, <1>2, <2>3, <3>1, <3>2 DEF Counted
  <2>5. \A k \in 1..Len(inbox') : inbox'[k] \in HasRead' /\ sent'[inbox'[k]].kind = "reply"
    <3>1. ASSUME NEW k \in 1..Len(inbox')
          PROVE  k + 1 \in 1..Len(inbox)
      BY <1>2, <2>2, <3>1
    <3> QED
      BY <1>1, <1>2, <2>2, <3>1 DEF Counted
  <2>6. Len(answers') = asked'
    BY <1>2, <2>1, <2>3 DEF Counted
  <2>7. coordinating
    BY <1>2, <2>1 DEF Counted
  <2> QED
    BY <1>2, <1>4, <2>1, <2>4, <2>5, <2>6, <2>7 DEF Counted
<1>7. CASE EndTurn
  BY <1>1, <1>2, <1>4, <1>7, EmptySeq DEF EndTurn, Over, Counted
<1>8. CASE ReleaseTurn
  BY <1>1, <1>2, <1>4, <1>8 DEF ReleaseTurn, Counted
<1>9. CASE Consume
  <2>1. task # "over" /\ UNCHANGED <<asked, answers>>
    BY <1>2, <1>9 DEF Consume, Counted
  <2>2. \A k \in 1..Len(answers') : /\ answers'[k] \in HasRead'
                                    /\ sent'[answers'[k]].kind = "reply"
                                    /\ task = "waiting" => sent'[answers'[k]].to < asked
    BY <1>1, <1>2, <2>1 DEF Counted
  <2>3. CASE sent[stream[readTo + 1]].kind = "cancel"
    <3>1. task' = "over" /\ inbox' = <<>> /\ ~coordinating'
      BY <1>9, <2>3 DEF Consume, Over
    <3> QED
      BY <1>2, <1>4, <2>1, <2>2, <3>1, EmptySeq DEF Counted
  <2>4. CASE sent[stream[readTo + 1]].kind # "cancel"
    <3>1. /\ stream[readTo + 1] \in Id /\ stream[readTo + 1] \in Created
          /\ stream[readTo + 1] \in HasRead'
      BY <1>1, <1>9, ElementOfSeq, LenProperties
         DEF Consume, CommandInv, CommandTypeOK, Streamed, Travelling, HasRead
    <3>2. sent[stream[readTo + 1]].kind = "reply"
      <4>1. sent[stream[readTo + 1]] \in [kind : {"reply", "cancel"}, to : 0..Asks]
        BY <3>1, ElementOfSeq DEF CommandInv, CommandTypeOK, Created
      <4> QED
        BY <2>4, <4>1
    <3>3. /\ Len(inbox') = Len(inbox) + 1
          /\ \A k \in 1..Len(inbox) : inbox'[k] = inbox[k]
          /\ inbox'[Len(inbox) + 1] = stream[readTo + 1]
      BY <1>2, <1>9, <2>4, <3>1, AppendProperties DEF Consume
    <3>4. UNCHANGED <<task, coordinating>>
      BY <1>9, <2>4 DEF Consume
    <3>5. \A k \in 1..Len(inbox') : inbox'[k] \in HasRead' /\ sent'[inbox'[k]].kind = "reply"
      BY <1>1, <1>2, <3>1, <3>2, <3>3 DEF Counted
    <3> QED
      BY <1>2, <1>4, <2>1, <2>2, <3>4, <3>5 DEF Counted
  <2> QED
    BY <2>3, <2>4
<1> QED
  BY <1>4, <1>5, <1>6, <1>7, <1>8, <1>9 DEF TurnStep

LEMMA TurnKeepsFed ==
  ASSUME CommandInv, TurnStep
  PROVE  Fed'
<1>1. UNCHANGED <<stream, known_ids, sent>>
  BY TurnLeavesTheRest DEF tabSide
<1>2. /\ inbox \in Seq(Id) /\ Len(inbox) \in Nat
      /\ stream \in Seq(Id) /\ Len(stream) \in Nat /\ readTo \in 0..Len(stream)
      /\ asked \in Nat
      /\ \A k \in 1..Len(stream) : stream[k] \in Id /\ stream[k] \in Created
      /\ Fed /\ Counted
  BY LenProperties, ElementOfSeq
     DEF CommandInv, CommandTypeOK, Streamed, Travelling
<1>3. CASE AskUser
  <2>1. \A k \in 1..readTo : sent[stream[k]].to \in 0..asked
    BY <1>2 DEF CommandInv, Addressed
  <2> QED
    BY <1>1, <1>2, <1>3, <2>1 DEF AskUser, Fed
<1>4. CASE TakeReply
  BY <1>1, <1>2, <1>4 DEF TakeReply, Fed
<1>5. CASE EndTurn
  BY <1>1, <1>2, <1>5 DEF EndTurn, Over, Fed
<1>6. CASE ReleaseTurn
  BY <1>1, <1>2, <1>6 DEF ReleaseTurn, Fed
<1>7. CASE Consume
  <2>1. CASE sent[stream[readTo + 1]].kind = "cancel"
    BY <1>1, <1>2, <1>7, <2>1 DEF Consume, Over, Fed
  <2>2. CASE sent[stream[readTo + 1]].kind # "cancel"
    <3>1. /\ readTo' = readTo + 1 /\ UNCHANGED <<task, asked>>
          /\ readTo + 1 \in 1..Len(stream)
      BY <1>2, <1>7, <2>2 DEF Consume
    <3>2. /\ Len(inbox') = Len(inbox) + 1
          /\ \A k \in 1..Len(inbox) : inbox'[k] = inbox[k]
          /\ inbox'[Len(inbox) + 1] = stream[readTo + 1]
      BY <1>2, <1>7, <2>2, <3>1, AppendProperties DEF Consume
    <3>3. ASSUME NEW k \in 1..readTo
          PROVE  /\ sent[stream[k]].kind = "cancel" => task = "over"
                 /\ task = "waiting" /\ sent[stream[k]].to = asked
                      => \E l \in 1..Len(inbox') : inbox'[l] = stream[k]
      BY <1>2, <3>2 DEF Fed
    <3>4. Len(inbox) + 1 \in 1..Len(inbox')
      BY <1>2, <3>2
    <3>5. \A k \in 1..readTo' : k \in 1..readTo \/ k = readTo + 1
      BY <1>2, <3>1
    <3> QED
      BY <1>1, <2>2, <3>1, <3>2, <3>3, <3>4, <3>5 DEF Fed
  <2> QED
    BY <2>1, <2>2
<1> QED
  BY <1>3, <1>4, <1>5, <1>6, <1>7 DEF TurnStep

\* The reply that is taken is the only one to the open question; the reply that
\* is read was not read before, and so is to no question with an answer.
LEMMA TurnKeepsFresh ==
  ASSUME CommandInv, OneEach, Fresh, TurnStep
  PROVE  Fresh'
<1>1. UNCHANGED <<stream, known_ids, sent>>
  BY TurnLeavesTheRest DEF tabSide
<1>2. /\ inbox \in Seq(Id) /\ Len(inbox) \in Nat
      /\ answers \in Seq(Id) /\ Len(answers) \in Nat
      /\ stream \in Seq(Id) /\ Len(stream) \in Nat /\ readTo \in 0..Len(stream)
      /\ asked \in Nat
      /\ Streamed /\ Addressed /\ Counted
  BY LenProperties DEF CommandInv, CommandTypeOK
<1>3. HasRead \subseteq Created
  BY <1>2 DEF CommandInv, HasRead, Streamed, Travelling
<1>4. CASE AskUser \/ ReleaseTurn
  BY <1>1, <1>4 DEF AskUser, ReleaseTurn, Fresh
<1>5. CASE EndTurn
  BY <1>1, <1>5, EmptySeq DEF EndTurn, Over, Fresh
<1>6. CASE TakeReply
  <2>1. Len(answers) + 1 = asked /\ inbox # <<>>
    BY <1>2, <1>6 DEF TakeReply, Counted
  <2>2. /\ Len(inbox) >= 1 /\ Len(inbox') = Len(inbox) - 1
        /\ Head(inbox) = inbox[1] /\ Head(inbox) \in Id
    BY <1>2, <1>6, <2>1, HeadTailProperties, EmptySeq DEF TakeReply
  <2>3. ASSUME NEW k \in 1..Len(inbox)
        PROVE  inbox[k] \in Created /\ sent[inbox[k]].kind = "reply" /\ sent[inbox[k]].to = asked
    <3>1. inbox[k] \in Created /\ sent[inbox[k]].kind = "reply"
      BY <1>2, <1>3 DEF Counted
    <3>2. sent[inbox[k]].to \in 1..asked /\ sent[inbox[k]].to > Len(answers)
      BY <1>2, <3>1 DEF Addressed, Fresh
    <3> QED
      BY <1>2, <2>1, <3>1, <3>2
  <2>4. Len(inbox) = 1
    <3>1. SUFFICES ASSUME Len(inbox) > 1
                   PROVE  FALSE
      BY <1>2, <2>2
    <3>2. 1 \in 1..Len(inbox) /\ 2 \in 1..Len(inbox)
      BY <1>2, <3>1
    <3>3. inbox[1] = inbox[2]
      BY <2>3, <3>2 DEF OneEach
    <3> QED
      BY <3>2, <3>3 DEF Fresh
  <2>5. /\ Len(answers') = Len(answers) + 1
        /\ \A k \in 1..Len(answers) : answers'[k] = answers[k]
        /\ answers'[Len(answers) + 1] = inbox[1]
    BY <1>2, <1>6, <2>2, AppendProperties DEF TakeReply
  <2>6. \A k \in 1..Len(answers') : sent'[answers'[k]].to = k
    <3>1. \A k \in 1..Len(answers') : k \in 1..Len(answers) \/ k = Len(answers) + 1
      BY <1>2, <2>5
    <3>2. sent[inbox[1]].to = Len(answers) + 1
      BY <2>1, <2>2, <2>3, <2>4
    <3> QED
      BY <1>1, <2>5, <3>1, <3>2 DEF Fresh
  <2> QED
    BY <2>2, <2>4, <2>6 DEF Fresh
<1>7. CASE Consume
  <2>1. answers' = answers
    BY <1>7 DEF Consume
  <2>2. CASE sent[stream[readTo + 1]].kind = "cancel"
    BY <1>1, <1>7, <2>1, <2>2, EmptySeq DEF Consume, Over, Fresh
  <2>3. CASE sent[stream[readTo + 1]].kind # "cancel"
    <3> DEFINE new == stream[readTo + 1]
    <3>1. readTo + 1 \in 1..Len(stream)
      BY <1>2, <1>7 DEF Consume
    <3>2. new \in Id /\ new \in Created /\ new \notin HasRead
      BY <1>2, <3>1, ElementOfSeq DEF CommandInv, Streamed, Travelling, HasRead
    <3>3. sent[new].kind = "reply"
      <4>1. sent[new] \in [kind : {"reply", "cancel"}, to : 0..Asks]
        BY <3>2, ElementOfSeq DEF CommandInv, CommandTypeOK, Created
      <4> QED
        BY <2>3, <4>1
    <3>4. sent[new].to \in Nat \ {0}
      BY <1>2, <3>2, <3>3 DEF Addressed
    <3>5. sent[new].to > Len(answers)
      <4>1. SUFFICES ASSUME sent[new].to \in 1..Len(answers)
                     PROVE  FALSE
        BY <1>2, <3>4
      <4> DEFINE old == answers[sent[new].to]
      <4>2. old \in HasRead /\ sent[old].kind = "reply" /\ sent[old].to = sent[new].to
        BY <1>2, <4>1 DEF Counted, Fresh
      <4> QED
        BY <1>3, <3>2, <3>3, <4>2 DEF OneEach
    <3>6. /\ Len(inbox') = Len(inbox) + 1
          /\ \A k \in 1..Len(inbox) : inbox'[k] = inbox[k]
          /\ inbox'[Len(inbox) + 1] = new
      BY <1>2, <1>7, <2>3, <3>2, AppendProperties DEF Consume
    <3>7. \A k \in 1..Len(inbox') : k \in 1..Len(inbox) \/ k = Len(inbox) + 1
      BY <1>2, <3>6
    <3>8. \A k \in 1..Len(inbox) : inbox[k] # new
      BY <1>2, <3>2 DEF Counted
    <3>9. \A k \in 1..Len(inbox') : sent'[inbox'[k]].to > Len(answers')
      BY <1>1, <2>1, <3>5, <3>6, <3>7 DEF Fresh
    <3>10. \A k, l \in 1..Len(inbox') : inbox'[k] = inbox'[l] => k = l
      BY <3>6, <3>7, <3>8 DEF Fresh
    <3> QED
      BY <1>1, <2>1, <3>9, <3>10 DEF Fresh
  <2> QED
    BY <2>2, <2>3
<1> QED
  BY <1>4, <1>5, <1>6, <1>7 DEF TurnStep

LEMMA TurnKeepsInv ==
  ASSUME CommandInv, TurnStep
  PROVE  CommandInv'
<1>1. UNCHANGED <<stream, known_ids, accepted, tabSide, linkSide>>
  BY TurnLeavesTheRest
<1>2. Travelling' /\ Streamed'
  BY <1>1 DEF CommandInv, Travelling, Streamed, Created, tabSide, linkSide
<1> QED
  BY <1>2, TurnKeepsType, TurnKeepsCounted, TurnKeepsFed DEF CommandInv

-----------------------------------------------------------------------------
(* A command is created *)

PutStep == \E x \in Tab : SendReply(x) \/ SendCancel(x)

\* The new command has the next id, and nothing that was there mentions it.
LEMMA PutAppends ==
  ASSUME CommandInv, PutStep
  PROVE  \E x \in Tab, to \in 0..Asks, kind \in {"reply", "cancel"} :
           /\ Put(x, [kind |-> kind, to |-> to])
           /\ kind = "reply" => to = asked /\ asked > 0
           /\ kind = "cancel" => to = 0
           /\ kind = "reply" => Impatient \/ ~RepliedTo(to)
<1>1. asked \in 0..Asks /\ 0 \in 0..Asks
  BY AsksIsCount DEF CommandInv, CommandTypeOK
<1>2. PICK x \in Tab : SendReply(x) \/ SendCancel(x)
  BY DEF PutStep
<1>3. CASE SendReply(x)
  BY <1>1, <1>3 DEF SendReply
<1>4. CASE SendCancel(x)
  BY <1>1, <1>4 DEF SendCancel
<1> QED
  BY <1>2, <1>3, <1>4

LEMMA PutKeepsInv ==
  ASSUME CommandInv, PutStep
  PROVE  /\ CommandInv'
         /\ ~Impatient /\ OneEach /\ Fresh => OneEach' /\ Fresh'
<1>1. PICK x \in Tab, to \in 0..Asks, kind \in {"reply", "cancel"} :
        /\ Put(x, [kind |-> kind, to |-> to])
        /\ kind = "reply" => to = asked /\ asked > 0
        /\ kind = "cancel" => to = 0
        /\ kind = "reply" => Impatient \/ ~RepliedTo(to)
  BY PutAppends
<1> DEFINE new == Len(sent) + 1
<1> DEFINE Command == [kind : {"reply", "cancel"}, to : 0..Asks]
<1>2. /\ sent \in Seq(Command) /\ Len(sent) \in Nat /\ new \in Id
      /\ asked \in Nat
      /\ UNCHANGED <<turnSide, stream, known_ids, accepted, linkSide>>
  <2>1. sent \in Seq(Command) /\ asked \in Nat
    BY AsksIsCount DEF CommandInv, CommandTypeOK
  <2>2. Len(sent) \in Nat
    BY <2>1, LenProperties
  <2> QED
    BY <1>1, <2>1, <2>2, AsksIsCount DEF Put, Id
<1>3. /\ sent' \in Seq(Command) /\ Len(sent') = new
      /\ \A i \in Created : sent'[i] = sent[i]
      /\ sent'[new] = [kind |-> kind, to |-> to]
  BY <1>1, <1>2, AppendProperties DEF Put, Created
<1>4. Created' = Created \cup {new} /\ new \notin Created
  BY <1>2, <1>3 DEF Created
<1>5. /\ outbox' = [outbox EXCEPT ![x] = @ \cup {new}]
      /\ unsent' = [unsent EXCEPT ![x] = @ \cup {new}]
  BY <1>1 DEF Put
<1>6. CommandTypeOK'
  BY <1>2, <1>3, <1>5 DEF CommandInv, CommandTypeOK, turnSide, linkSide
<1>7. Travelling'
  BY <1>2, <1>4, <1>5 DEF CommandInv, CommandTypeOK, Travelling, linkSide
<1>8. Streamed'
  BY <1>2 DEF CommandInv, Streamed
<1>9. Addressed'
  BY <1>1, <1>2, <1>3, <1>4 DEF CommandInv, Addressed, turnSide
<1>10. HasRead' = HasRead /\ HasRead \subseteq Created
  BY <1>2 DEF HasRead, CommandInv, CommandTypeOK, Streamed, Travelling, turnSide
<1>11. \A k \in 1..readTo : stream[k] \in HasRead
  BY DEF HasRead
<1>12. /\ \A k \in 1..Len(answers) : sent'[answers[k]] = sent[answers[k]]
       /\ \A k \in 1..Len(inbox) : sent'[inbox[k]] = sent[inbox[k]]
       /\ \A k \in 1..readTo : sent'[stream[k]] = sent[stream[k]]
  BY <1>3, <1>10, <1>11 DEF CommandInv, Counted
<1>13. Counted'
  BY <1>2, <1>10, <1>12 DEF CommandInv, Counted, turnSide
<1>14. Fed'
  BY <1>2, <1>12 DEF CommandInv, Fed, turnSide
<1>15. ASSUME ~Impatient, OneEach, Fresh
       PROVE  OneEach' /\ Fresh'
  <2>1. ASSUME NEW i \in Created, sent[i].kind = "reply", kind = "reply"
        PROVE  sent[i].to # to
    BY <1>1, <1>2, <1>15, <2>1, LenProperties DEF RepliedTo, Created
  <2>2. OneEach'
    BY <1>3, <1>4, <1>15, <2>1 DEF OneEach
  <2>3. Fresh'
    BY <1>2, <1>12, <1>15 DEF Fresh, turnSide
  <2> QED
    BY <2>2, <2>3
<1> QED
  BY <1>6, <1>7, <1>8, <1>9, <1>13, <1>14, <1>15 DEF CommandInv

-----------------------------------------------------------------------------
(* The connections *)

LinkStep == \E x \in Tab : Transmit(x) \/ CheckLease(x) \/ CommandAck(x) \/ Break(x)

\* The connections touch neither the turn nor the stream.
LEMMA LinkLeavesTheRest ==
  ASSUME LinkStep
  PROVE  UNCHANGED <<turnSide, stream, known_ids, accepted, sent>>
BY DEF LinkStep, Transmit, CheckLease, CommandAck, Break, tabSide

LEMMA LinkKeepsTravelling ==
  ASSUME CommandTypeOK, Travelling, LinkStep
  PROVE  CommandTypeOK' /\ Travelling'
<1>1. UNCHANGED <<turnSide, stream, known_ids, accepted, sent>> /\ Created' = Created
  BY LinkLeavesTheRest DEF Created
<1>2. SUFFICES /\ outbox' \in [Tab -> SUBSET (Id \cap Created)]
               /\ unsent' \in [Tab -> SUBSET (Id \cap Created)]
               /\ wire' \in [Tab -> Seq(Id)] /\ acks' \in [Tab -> Seq(Id)]
               /\ handling' \in [Tab -> (Id \cap Created) \cup {0}]
               /\ adrift' \subseteq Id \cap Created
               /\ breaks' \in Nat
               /\ \A y \in Tab : \A k \in 1..Len(wire'[y]) : wire'[y][k] \in Created
  BY <1>1 DEF CommandTypeOK, Travelling, turnSide
<1>3. /\ outbox \in [Tab -> SUBSET (Id \cap Created)]
      /\ unsent \in [Tab -> SUBSET (Id \cap Created)]
      /\ wire \in [Tab -> Seq(Id)] /\ acks \in [Tab -> Seq(Id)]
      /\ handling \in [Tab -> (Id \cap Created) \cup {0}]
      /\ adrift \subseteq Id \cap Created
      /\ breaks \in Nat
      /\ \A y \in Tab : \A k \in 1..Len(wire[y]) : wire[y][k] \in Created
  BY DEF CommandTypeOK, Travelling
<1>4. PICK x \in Tab : Transmit(x) \/ CheckLease(x) \/ CommandAck(x) \/ Break(x)
  BY DEF LinkStep
<1>5. \A y \in Tab : wire[y] \in Seq(Id) /\ acks[y] \in Seq(Id)
  BY <1>3
<1>6. CASE Transmit(x)
  <2> DEFINE next == First(unsent[x])
  <2>1. unsent[x] # {} /\ unsent[x] \in SUBSET Nat /\ unsent[x] \subseteq Id \cap Created
    BY <1>3, <1>6 DEF Transmit, Id
  <2>2. next \in Id /\ next \in Created
    BY <2>1, FirstIsLeast
  <2>3. /\ wire'[x] \in Seq(Id) /\ Len(wire'[x]) = Len(wire[x]) + 1 /\ Len(wire[x]) \in Nat
        /\ \A k \in 1..Len(wire[x]) : wire'[x][k] = wire[x][k]
        /\ wire'[x][Len(wire[x]) + 1] = next
    BY <1>3, <1>5, <1>6, <2>2, AppendProperties, LenProperties DEF Transmit
  <2>4. \A k \in 1..Len(wire'[x]) : wire'[x][k] \in Created
    <3>1. \A k \in 1..Len(wire'[x]) : k \in 1..Len(wire[x]) \/ k = Len(wire[x]) + 1
      BY <2>3
    <3> QED
      BY <1>3, <2>2, <2>3, <3>1
  <2>5. \A y \in Tab : y # x => wire'[y] = wire[y]
    BY <1>3, <1>6 DEF Transmit
  <2>6. wire' \in [Tab -> Seq(Id)]
    BY <1>3, <1>6, <2>3 DEF Transmit
  <2>7. unsent' \in [Tab -> SUBSET (Id \cap Created)]
    BY <1>3, <1>6 DEF Transmit
  <2> QED
    BY <1>3, <1>6, <2>4, <2>5, <2>6, <2>7 DEF Transmit
<1>7. CASE CheckLease(x)
  <2>1. wire[x] # <<>> /\ wire[x] \in Seq(Id)
    BY <1>5, <1>7 DEF CheckLease
  <2>2. /\ Head(wire[x]) \in Id /\ Tail(wire[x]) \in Seq(Id)
        /\ Len(wire[x]) \in Nat /\ Len(wire[x]) >= 1 /\ Head(wire[x]) = wire[x][1]
        /\ Len(Tail(wire[x])) = Len(wire[x]) - 1
        /\ \A k \in 1..Len(Tail(wire[x])) : Tail(wire[x])[k] = wire[x][k + 1]
    BY <2>1, HeadTailProperties, LenProperties, EmptySeq
  <2>3. Head(wire[x]) \in Created
    BY <1>3, <2>2
  <2>4. \A k \in 1..Len(Tail(wire[x])) : Tail(wire[x])[k] \in Created
    <3>1. \A k \in 1..Len(Tail(wire[x])) : k + 1 \in 1..Len(wire[x])
      BY <2>2
    <3> QED
      BY <1>3, <2>2, <3>1
  <2>5. wire' = [wire EXCEPT ![x] = Tail(wire[x])]
    BY <1>7 DEF CheckLease
  <2>6. handling' \in [Tab -> (Id \cap Created) \cup {0}]
    <3> DEFINE taken == Head(wire[x])
    <3>1. handling' = handling \/ handling' = [handling EXCEPT ![x] = taken]
      BY <1>7 DEF CheckLease
    <3>2. taken \in Id \cap Created
      BY <2>2, <2>3
    <3> HIDE DEF taken
    <3> QED
      BY <1>3, <3>1, <3>2
  <2>7. acks' \in [Tab -> Seq(Id)]
    <3>1. Append(acks[x], Head(wire[x])) \in Seq(Id)
      BY <1>5, <2>2, AppendProperties
    <3> QED
      BY <1>3, <1>7, <3>1 DEF CheckLease
  <2>8. /\ wire' \in [Tab -> Seq(Id)]
        /\ \A y \in Tab : \A k \in 1..Len(wire'[y]) : wire'[y][k] \in Created
    <3>1. \A y \in Tab : wire'[y] = IF y = x THEN Tail(wire[x]) ELSE wire[y]
      BY <1>3, <2>5
    <3> QED
      BY <1>3, <2>2, <2>4, <2>5, <3>1
  <2> QED
    BY <1>3, <1>7, <2>6, <2>7, <2>8 DEF CheckLease, tabSide
<1>8. CASE CommandAck(x)
  <2>1. Tail(acks[x]) \in Seq(Id)
    BY <1>5, <1>8, HeadTailProperties DEF CommandAck
  <2> QED
    BY <1>3, <1>8, <2>1 DEF CommandAck
<1>9. CASE Break(x)
  <2>1. PICK received \in Prefixes(wire[x]) :
          adrift' = adrift \cup ToSet(received) \cup ({handling[x]} \ {0})
    BY <1>9 DEF Break
  <2>2. {wire[x][k] : k \in 1..Len(wire[x])} \subseteq Id \cap Created
    BY <1>3, <1>5, ElementOfSeq
  <2>3. ToSet(received) \subseteq Id \cap Created
    BY <1>5, <2>2, ReceivedWasSent
  <2>4. adrift' \subseteq Id \cap Created
    BY <1>3, <2>1, <2>3
  <2>5. /\ wire' = [wire EXCEPT ![x] = <<>>] /\ acks' = [acks EXCEPT ![x] = <<>>]
        /\ handling' = [handling EXCEPT ![x] = 0]
        /\ unsent' = [unsent EXCEPT ![x] = outbox[x]]
        /\ breaks' = breaks + 1 /\ outbox' = outbox
    BY <1>9 DEF Break
  <2>6. <<>> \in Seq(Id) /\ Len(<<>>) = 0
    BY EmptySeq
  <2>7. \A y \in Tab : \A k \in 1..Len(wire'[y]) : wire'[y][k] \in Created
    <3>1. \A y \in Tab : wire'[y] = IF y = x THEN <<>> ELSE wire[y]
      BY <1>3, <2>5
    <3> QED
      BY <1>3, <2>6, <3>1
  <2>8. /\ wire' \in [Tab -> Seq(Id)] /\ acks' \in [Tab -> Seq(Id)]
        /\ unsent' \in [Tab -> SUBSET (Id \cap Created)]
        /\ handling' \in [Tab -> (Id \cap Created) \cup {0}]
    BY <1>3, <2>5, <2>6
  <2> QED
    BY <1>3, <2>4, <2>5, <2>7, <2>8
<1> QED
  BY <1>4, <1>6, <1>7, <1>8, <1>9

LEMMA LinkKeepsInv ==
  ASSUME CommandInv, LinkStep
  PROVE  CommandInv' /\ (OneEach => OneEach') /\ (Fresh => Fresh')
<1>1. UNCHANGED <<turnSide, stream, known_ids, accepted, sent>>
  BY LinkLeavesTheRest
<1>2. CommandTypeOK' /\ Travelling'
  BY LinkKeepsTravelling DEF CommandInv
<1>3. Streamed' /\ Addressed' /\ Counted' /\ Fed'
  BY <1>1 DEF CommandInv, Streamed, Addressed, Counted, Fed, HasRead, Created, turnSide
<1> QED
  BY <1>1, <1>2, <1>3 DEF CommandInv, OneEach, Fresh, Created, turnSide

-----------------------------------------------------------------------------
(* A command enters the stream *)

SubmitStep == SubmitLate \/ \E x \in Tab : SubmitCommand(x)

\* Either the stream stays as it is, or a new id is put behind it.
LEMMA SubmitEnters ==
  ASSUME CommandInv, SubmitStep
  PROVE  /\ UNCHANGED <<turnSide, tabSide, wire, breaks>>
         /\ \/ UNCHANGED <<stream, known_ids>> /\ accepted' = accepted
            \/ \E i \in Id \cap Created : Enter(i) /\ accepted' \subseteq accepted \cup {i}
         /\ adrift' \subseteq adrift
         /\ acks' \in [Tab -> Seq(Id)]
         /\ handling' \in [Tab -> (Id \cap Created) \cup {0}]
<1>1. /\ adrift \subseteq Id \cap Created
      /\ acks \in [Tab -> Seq(Id)]
      /\ handling \in [Tab -> (Id \cap Created) \cup {0}]
  BY DEF CommandInv, CommandTypeOK, Travelling
<1>2. CASE SubmitLate
  <2>1. First(adrift) \in Id \cap Created
    <3>1. adrift # {} /\ adrift \in SUBSET Nat
      BY <1>1, <1>2 DEF SubmitLate, Id
    <3> QED
      BY <1>1, <3>1, FirstIsLeast
  <2> QED
    BY <1>1, <1>2, <2>1 DEF SubmitLate
<1>3. ASSUME NEW x \in Tab, SubmitCommand(x)
      PROVE  /\ UNCHANGED <<turnSide, tabSide, wire, breaks>>
             /\ \E i \in Id \cap Created : Enter(i) /\ accepted' \subseteq accepted \cup {i}
             /\ adrift' \subseteq adrift
             /\ acks' \in [Tab -> Seq(Id)]
             /\ handling' \in [Tab -> (Id \cap Created) \cup {0}]
  <2>1. handling[x] \in Id \cap Created
    BY <1>1, <1>3 DEF SubmitCommand
  <2>2. Append(acks[x], handling[x]) \in Seq(Id)
    BY <1>1, <2>1, AppendProperties
  <2> QED
    BY <1>1, <1>3, <2>1, <2>2 DEF SubmitCommand
<1> QED
  BY <1>2, <1>3 DEF SubmitStep

LEMMA SubmitKeepsInv ==
  ASSUME CommandInv, SubmitStep
  PROVE  CommandInv' /\ (OneEach => OneEach') /\ (Fresh => Fresh')
<1>1. /\ UNCHANGED <<turnSide, tabSide, wire, breaks>>
      /\ \/ UNCHANGED <<stream, known_ids>> /\ accepted' = accepted
         \/ \E i \in Id \cap Created : Enter(i) /\ accepted' \subseteq accepted \cup {i}
      /\ adrift' \subseteq adrift
      /\ acks' \in [Tab -> Seq(Id)]
      /\ handling' \in [Tab -> (Id \cap Created) \cup {0}]
  BY SubmitEnters
<1>2. /\ stream \in Seq(Id) /\ Len(stream) \in Nat /\ readTo \in 0..Len(stream)
      /\ known_ids \subseteq Id \cap Created /\ accepted \subseteq known_ids
      /\ Streamed
  BY LenProperties DEF CommandInv, CommandTypeOK, Travelling
<1>3. /\ stream' \in Seq(Id) /\ Len(stream') \in Nat /\ readTo \in 0..Len(stream')
      /\ \A k \in 1..readTo : stream'[k] = stream[k]
      /\ known_ids' \subseteq Id \cap Created /\ accepted' \subseteq known_ids'
      /\ Streamed'
  <2>1. CASE UNCHANGED <<stream, known_ids>> /\ accepted' = accepted
    BY <1>2, <2>1 DEF Streamed
  <2>2. ASSUME NEW i \in Id \cap Created, i \in known_ids,
               Enter(i), accepted' \subseteq accepted \cup {i}
        PROVE  UNCHANGED <<stream, known_ids>> /\ accepted' \subseteq known_ids
    BY <1>2, <2>2 DEF Enter
  <2>3. ASSUME NEW i \in Id \cap Created, i \notin known_ids,
               Enter(i), accepted' \subseteq accepted \cup {i}
        PROVE  /\ stream' \in Seq(Id) /\ Len(stream') \in Nat /\ readTo \in 0..Len(stream')
               /\ \A k \in 1..readTo : stream'[k] = stream[k]
               /\ known_ids' \subseteq Id \cap Created /\ accepted' \subseteq known_ids'
               /\ Streamed'
    <3>1. /\ stream' \in Seq(Id) /\ Len(stream') = Len(stream) + 1
          /\ \A k \in 1..Len(stream) : stream'[k] = stream[k]
          /\ stream'[Len(stream) + 1] = i
      BY <1>2, <2>3, AppendProperties DEF Enter
    <3>2. known_ids' = known_ids \cup {i}
      BY <2>3 DEF Enter
    <3>3. \A k \in 1..Len(stream') : k \in 1..Len(stream) \/ k = Len(stream) + 1
      BY <1>2, <3>1
    <3>4. \A k \in 1..Len(stream) : k \in 1..Len(stream') /\ stream[k] # i
      BY <1>2, <2>3, <3>1 DEF Streamed
    <3>5. Len(stream) + 1 \in 1..Len(stream')
      BY <1>2, <3>1
    <3>6. \A k \in 1..Len(stream') : stream'[k] \in known_ids'
      BY <1>2, <3>1, <3>2, <3>3 DEF Streamed
    <3>7. \A j \in known_ids' : \E k \in 1..Len(stream') : stream'[k] = j
      BY <1>2, <3>1, <3>2, <3>4, <3>5 DEF Streamed
    <3>8. \A k, l \in 1..Len(stream') : stream'[k] = stream'[l] => k = l
      BY <1>2, <3>1, <3>3, <3>4 DEF Streamed
    <3>9. Streamed'
      BY <3>6, <3>7, <3>8 DEF Streamed
    <3> QED
      BY <1>2, <2>3, <3>1, <3>2, <3>9
  <2>4. CASE UNCHANGED <<stream, known_ids>> /\ accepted' \subseteq known_ids
    BY <1>2, <2>4 DEF Streamed
  <2> QED
    BY <1>1, <2>1, <2>2, <2>3, <2>4
<1>4. CommandTypeOK'
  BY <1>1, <1>2, <1>3 DEF CommandInv, CommandTypeOK, turnSide, tabSide
<1>5. Created' = Created /\ HasRead' = HasRead
  BY <1>1, <1>3 DEF Created, HasRead, turnSide, tabSide
<1>6. Travelling'
  BY <1>1, <1>3, <1>5 DEF CommandInv, Travelling, tabSide
<1>7. Addressed' /\ Counted'
  BY <1>1, <1>5 DEF CommandInv, Addressed, Counted, turnSide, tabSide
<1>8. Fed'
  BY <1>1, <1>3 DEF CommandInv, Fed, turnSide, tabSide
<1>9. (OneEach => OneEach') /\ (Fresh => Fresh')
  BY <1>1, <1>5 DEF OneEach, Fresh, turnSide, tabSide
<1> QED
  BY <1>3, <1>4, <1>6, <1>7, <1>8, <1>9 DEF CommandInv

-----------------------------------------------------------------------------
(* The theorems *)

LEMMA StepKeepsInv ==
  ASSUME CommandInv, [CommandNext]_commandVars
  PROVE  /\ CommandInv'
         /\ ~Impatient /\ OneEach /\ Fresh => OneEach' /\ Fresh'
<1>1. CASE TurnStep
  <2>1. OneEach => OneEach'
    BY <1>1, TurnLeavesTheRest DEF OneEach, Created, tabSide
  <2> QED
    BY <1>1, <2>1, TurnKeepsInv, TurnKeepsFresh
<1>2. CASE PutStep
  BY <1>2, PutKeepsInv
<1>3. CASE LinkStep
  BY <1>3, LinkKeepsInv
<1>4. CASE SubmitStep
  BY <1>4, SubmitKeepsInv
<1>5. CASE UNCHANGED commandVars
  BY <1>5 DEF commandVars, CommandInv, CommandTypeOK, Travelling, Streamed, Addressed,
       Counted, Fed, OneEach, Fresh, Created, HasRead
<1> QED
  BY <1>1, <1>2, <1>3, <1>4, <1>5
     DEF CommandNext, Carry, TurnStep, PutStep, LinkStep, SubmitStep

LEMMA InvHolds == CommandSpec => []CommandInv
<1>1. CommandInit => CommandInv
  BY InitHasInv
<1>2. CommandInv /\ [CommandNext]_commandVars => CommandInv'
  BY StepKeepsInv
<1> QED
  BY <1>1, <1>2, PTL DEF CommandSpec

(***************************************************************************)
(* The variables of the command path keep their types.                     *)
(***************************************************************************)
THEOREM CommandTypes == CommandSpec => []CommandTypeOK
<1>1. CommandInv => CommandTypeOK
  BY DEF CommandInv
<1> QED
  BY <1>1, InvHolds, PTL

(***************************************************************************)
(* A command that the coordinator accepted reaches the turn, for any tabs  *)
(* and any connections that break (lifecycle.py _coordinate_execution): it *)
(* is ahead of the cursor, or it has had its effect, or it waits in the    *)
(* reply queue of the question that it answers.                            *)
(***************************************************************************)
THEOREM AcceptedCommandsAreNotLost == CommandSpec => []AcceptedCommandsArrive
<1>1. CommandInv => AcceptedCommandsArrive
  <2> SUFFICES ASSUME CommandInv, NEW i \in accepted
               PROVE  IF sent[i].kind = "cancel"
                        THEN task # "over" => i \in Ahead
                        ELSE task = "waiting" /\ sent[i].to = asked
                               => i \in Ahead \cup ToSet(inbox)
    BY DEF AcceptedCommandsArrive
  <2>1. /\ stream \in Seq(Id) /\ Len(stream) \in Nat /\ readTo \in 0..Len(stream)
        /\ inbox \in Seq(Id) /\ DOMAIN inbox = 1..Len(inbox)
    BY LenProperties DEF CommandInv, CommandTypeOK
  <2>2. PICK k \in 1..Len(stream) : stream[k] = i
    BY DEF CommandInv, Streamed, Travelling
  <2>3. CASE k \in readTo + 1..Len(stream)
    BY <2>1, <2>2, <2>3, AheadStandsBehind
  <2>4. CASE k \in 1..readTo
    BY <2>1, <2>2, <2>4 DEF CommandInv, Fed, ToSet
  <2> QED
    BY <2>1, <2>3, <2>4
<1> QED
  BY <1>1, InvHolds, PTL

(***************************************************************************)
(* A command that is sent again on any number of connections stands in the *)
(* stream of the turn once (redis.py _SUBMIT_COMMAND_LUA, memory.py        *)
(* submit_command).                                                        *)
(***************************************************************************)
THEOREM CommandsAreTakenOnce ==
  CommandSpec => [](\A k, l \in 1..Len(stream) : stream[k] = stream[l] => k = l)
<1>1. CommandInv => \A k, l \in 1..Len(stream) : stream[k] = stream[l] => k = l
  BY DEF CommandInv, Streamed
<1> QED
  BY <1>1, InvHolds, PTL

(***************************************************************************)
(* As long as nobody replies to a question twice, each question is         *)
(* answered by the reply to it, and a reply that is sent again never       *)
(* answers the next one.                                                   *)
(***************************************************************************)
THEOREM RepliesGoToTheirQuestion ==
  ASSUME ~Impatient
  PROVE  CommandSpec => []RepliesAnswerTheirQuestion
<1> DEFINE Patient == CommandInv /\ OneEach /\ Fresh
<1>1. CommandInit => Patient
  BY InitHasInv
<1>2. Patient /\ [CommandNext]_commandVars => Patient'
  BY StepKeepsInv
<1>3. Patient => RepliesAnswerTheirQuestion
  BY LenProperties DEF CommandInv, CommandTypeOK, Fresh, RepliesAnswerTheirQuestion
<1> QED
  BY <1>1, <1>2, <1>3, PTL DEF CommandSpec

-----------------------------------------------------------------------------
(* Where a command of an outbox is *)

On(queue) == {queue[k] : k \in 1..Len(queue)}

\* A command in the outbox is to be sent, or something of it is on the connection.
UnderWay(x) == outbox[x] \subseteq unsent[x] \cup On(wire[x]) \cup {handling[x]} \cup On(acks[x])

\* The coordinator has had the command, or the turn cannot take it any more.
Settled(i) == i \in known_ids \/ Refuses(i)

Acknowledged ==
  /\ \A x \in Tab : \A i \in On(acks[x]) : i \in Created /\ Settled(i)
  /\ \A i \in Created : Settled(i) \/ \E x \in Tab : i \in outbox[x]

LEMMA OnAppend ==
  ASSUME NEW S, NEW queue \in Seq(S), NEW e \in S
  PROVE  On(Append(queue, e)) = On(queue) \cup {e}
<1>1. /\ Len(queue) \in Nat /\ Len(Append(queue, e)) = Len(queue) + 1
      /\ \A k \in 1..Len(queue) : Append(queue, e)[k] = queue[k]
      /\ Append(queue, e)[Len(queue) + 1] = e
  BY AppendProperties, LenProperties
<1>2. \A k \in 1..Len(queue) + 1 : k \in 1..Len(queue) \/ k = Len(queue) + 1
  BY <1>1
<1>3. 1..Len(queue) \subseteq 1..Len(queue) + 1 /\ Len(queue) + 1 \in 1..Len(queue) + 1
  BY <1>1
<1> QED
  BY <1>1, <1>2, <1>3 DEF On

LEMMA OnTail ==
  ASSUME NEW S, NEW queue \in Seq(S), queue # <<>>
  PROVE  On(queue) = {Head(queue)} \cup On(Tail(queue))
<1>1. /\ Len(queue) \in Nat /\ Len(queue) >= 1 /\ Head(queue) = queue[1]
      /\ Len(Tail(queue)) = Len(queue) - 1
      /\ \A k \in 1..Len(Tail(queue)) : Tail(queue)[k] = queue[k + 1]
  BY HeadTailProperties, LenProperties, EmptySeq
<1>2. \A k \in 1..Len(queue) : k = 1 \/ (k - 1 \in 1..Len(queue) - 1 /\ k = (k - 1) + 1)
  BY <1>1
<1>3. \A k \in 1..Len(queue) - 1 : k + 1 \in 1..Len(queue)
  BY <1>1
<1>4. On(queue) \subseteq {Head(queue)} \cup On(Tail(queue))
  <2> SUFFICES ASSUME NEW k \in 1..Len(queue)
               PROVE  queue[k] \in {Head(queue)} \cup On(Tail(queue))
    BY DEF On
  <2>1. CASE k = 1
    BY <1>1, <2>1
  <2>2. CASE k - 1 \in 1..Len(queue) - 1 /\ k = (k - 1) + 1
    BY <1>1, <2>2 DEF On
  <2> QED
    BY <1>2, <2>1, <2>2
<1>5. On(Tail(queue)) \subseteq On(queue)
  BY <1>1, <1>3 DEF On
<1>6. Head(queue) \in On(queue)
  BY <1>1 DEF On
<1> QED
  BY <1>4, <1>5, <1>6

LEMMA OnNothing == On(<<>>) = {}
<1>1. Len(<<>>) = 0
  BY EmptySeq
<1> QED
  BY <1>1 DEF On

\* What a step on the connection of x does for its commands.
Keeps(x) ==
  /\ \A y \in Tab : y # x => UNCHANGED <<outbox[y], unsent[y], wire[y], handling[y], acks[y]>>
  /\ UnderWay(x) => UnderWay(x)'
  /\ \A i \in On(acks[x])' : i \in On(acks[x]) \/ (i \in Created /\ Settled(i)')
  /\ \A i \in outbox[x] : i \in outbox[x]' \/ i \in On(acks[x])

LEMMA CarryKeeps ==
  ASSUME CommandInv, NEW x \in Tab, Carry(x) \/ Break(x)
  PROVE  Keeps(x)
<1>1. /\ outbox \in [Tab -> SUBSET (Id \cap Created)]
      /\ unsent \in [Tab -> SUBSET (Id \cap Created)]
      /\ wire \in [Tab -> Seq(Id)] /\ acks \in [Tab -> Seq(Id)]
      /\ handling \in [Tab -> (Id \cap Created) \cup {0}]
      /\ \A k \in 1..Len(wire[x]) : wire[x][k] \in Created
  BY DEF CommandInv, CommandTypeOK, Travelling
<1>2. wire[x] \in Seq(Id) /\ acks[x] \in Seq(Id)
  BY <1>1
<1>3. CASE Transmit(x)
  <2> DEFINE next == First(unsent[x])
  <2>1. next \in unsent[x] /\ next \in Id
    <3>1. unsent[x] # {} /\ unsent[x] \in SUBSET Nat
      BY <1>1, <1>3 DEF Transmit, Id
    <3> QED
      BY <1>1, <3>1, FirstIsLeast
  <2>2. /\ wire' = [wire EXCEPT ![x] = Append(wire[x], next)]
        /\ unsent' = [unsent EXCEPT ![x] = unsent[x] \ {next}]
        /\ UNCHANGED <<outbox, handling, acks>>
    BY <1>3 DEF Transmit
  <2>3. On(Append(wire[x], next)) = On(wire[x]) \cup {next}
    BY <1>2, <2>1, OnAppend
  <2> HIDE DEF next
  <2>4. wire'[x] = Append(wire[x], next) /\ unsent'[x] = unsent[x] \ {next}
    BY <1>1, <2>2
  <2>5. \A y \in Tab : y # x => UNCHANGED <<wire[y], unsent[y]>>
    BY <1>1, <2>2
  <2> QED
    BY <2>2, <2>3, <2>4, <2>5 DEF Keeps, UnderWay
<1>4. CASE CheckLease(x)
  <2> DEFINE taken == Head(wire[x])
  <2>1. wire[x] # <<>> /\ handling[x] = 0 /\ UNCHANGED <<outbox, unsent, known_ids, owned, task, sent>>
    BY <1>4 DEF CheckLease, turnSide, tabSide
  <2>2. On(wire[x]) = {taken} \cup On(Tail(wire[x])) /\ taken \in Id
    BY <1>2, <2>1, OnTail, HeadTailProperties
  <2>3. taken \in Created
    <3>1. taken \in On(wire[x])
      BY <2>2
    <3> QED
      BY <1>1, <3>1, Zenon DEF On
  <2>4. /\ wire' = [wire EXCEPT ![x] = Tail(wire[x])]
        /\ \/ /\ Refuses(taken)
              /\ acks' = [acks EXCEPT ![x] = Append(acks[x], taken)]
              /\ handling' = handling
           \/ /\ handling' = [handling EXCEPT ![x] = taken]
              /\ acks' = acks
    BY <1>4 DEF CheckLease
  <2>5. On(Append(acks[x], taken)) = On(acks[x]) \cup {taken}
    BY <1>2, <2>2, OnAppend
  <2>6. 0 \notin outbox[x]
    BY <1>1 DEF Created
  <2> HIDE DEF taken
  <2>7. wire'[x] = Tail(wire[x]) /\ \A y \in Tab : y # x => wire'[y] = wire[y]
    BY <1>1, <2>4
  <2>8. \A y \in Tab : y # x => UNCHANGED <<handling[y], acks[y]>>
    BY <1>1, <2>4
  <2>9. \/ Refuses(taken) /\ acks'[x] = Append(acks[x], taken) /\ handling'[x] = handling[x]
        \/ handling'[x] = taken /\ acks'[x] = acks[x]
    BY <1>1, <2>4
  <2>10. \A i : Refuses(i) => Refuses(i)'
    BY <2>1 DEF Refuses
  <2> QED
    BY <2>1, <2>2, <2>3, <2>5, <2>6, <2>7, <2>8, <2>9, <2>10 DEF Keeps, UnderWay, Settled
<1>5. CASE SubmitCommand(x)
  <2> DEFINE command == handling[x]
  <2>1. /\ command # 0 /\ UNCHANGED <<outbox, unsent, wire>>
        /\ acks' = [acks EXCEPT ![x] = Append(acks[x], command)]
        /\ handling' = [handling EXCEPT ![x] = 0]
        /\ known_ids' = known_ids \cup {command}
    BY <1>5 DEF SubmitCommand, Enter, tabSide
  <2>2. command \in Id \cap Created
    BY <1>1, <2>1
  <2>3. On(Append(acks[x], command)) = On(acks[x]) \cup {command}
    BY <1>2, <2>2, OnAppend
  <2>4. /\ acks'[x] = Append(acks[x], command)
        /\ \A y \in Tab : y # x => UNCHANGED <<handling[y], acks[y]>>
    BY <1>1, <2>1
  <2> QED
    BY <2>1, <2>2, <2>3, <2>4 DEF Keeps, UnderWay, Settled
<1>6. CASE CommandAck(x)
  <2> DEFINE answered == Head(acks[x])
  <2>1. acks[x] # <<>> /\ UNCHANGED <<wire, handling>>
    BY <1>6 DEF CommandAck
  <2>2. On(acks[x]) = {answered} \cup On(Tail(acks[x]))
    BY <1>2, <2>1, OnTail
  <2>3. /\ outbox' = [outbox EXCEPT ![x] = outbox[x] \ {answered}]
        /\ unsent' = [unsent EXCEPT ![x] = unsent[x] \ {answered}]
        /\ acks' = [acks EXCEPT ![x] = Tail(acks[x])]
    BY <1>6 DEF CommandAck
  <2> HIDE DEF answered
  <2>4. /\ outbox'[x] = outbox[x] \ {answered} /\ unsent'[x] = unsent[x] \ {answered}
        /\ acks'[x] = Tail(acks[x])
        /\ \A y \in Tab : y # x => UNCHANGED <<outbox[y], unsent[y], acks[y]>>
    BY <1>1, <2>3
  <2> QED
    BY <2>1, <2>2, <2>4 DEF Keeps, UnderWay
<1>7. CASE Break(x)
  <2>1. /\ wire' = [wire EXCEPT ![x] = <<>>] /\ acks' = [acks EXCEPT ![x] = <<>>]
        /\ handling' = [handling EXCEPT ![x] = 0]
        /\ unsent' = [unsent EXCEPT ![x] = outbox[x]]
        /\ outbox' = outbox
    BY <1>7 DEF Break
  <2>2. /\ acks'[x] = <<>> /\ unsent'[x] = outbox[x]
        /\ \A y \in Tab : y # x => UNCHANGED <<unsent[y], wire[y], handling[y], acks[y]>>
    BY <1>1, <2>1
  <2> QED
    BY <2>1, <2>2, OnNothing DEF Keeps, UnderWay
<1> QED
  BY <1>3, <1>4, <1>5, <1>6, <1>7 DEF Carry

\* Ids stay known, a turn that is over stays over, and a lease that is gone stays gone.
LEMMA SettledStays ==
  ASSUME CommandInv, [CommandNext]_commandVars, NEW i \in Created
  PROVE  i \in Created' /\ (Settled(i) => Settled(i)')
<1>1. known_ids \subseteq known_ids'
  BY DEF CommandNext, commandVars, AskUser, TakeReply, EndTurn, ReleaseTurn, Consume, SubmitLate,
         Enter, SendReply, SendCancel, Put, Carry, Transmit, CheckLease, SubmitCommand,
         CommandAck, Break
<1>2. owned' => owned
  BY DEF CommandNext, commandVars, AskUser, TakeReply, EndTurn, ReleaseTurn, Consume, SubmitLate,
         SendReply, SendCancel, Put, Carry, Transmit, CheckLease, SubmitCommand,
         CommandAck, Break, turnSide, CommandInv, CommandTypeOK
<1>3. task = "over" => task' = "over"
  BY DEF CommandNext, commandVars, AskUser, TakeReply, EndTurn, ReleaseTurn, Consume, SubmitLate,
         SendReply, SendCancel, Put, Carry, Transmit, CheckLease, SubmitCommand,
         CommandAck, Break, turnSide, Over, CommandInv, Counted
<1>4. i \in Created' /\ sent'[i] = sent[i]
  <2>1. CASE sent' = sent
    BY <2>1 DEF Created
  <2>2. ASSUME NEW x \in Tab, NEW c \in [kind : {"reply", "cancel"}, to : 0..Asks], Put(x, c)
        PROVE  i \in Created' /\ sent'[i] = sent[i]
    <3>1. sent \in Seq([kind : {"reply", "cancel"}, to : 0..Asks])
      BY DEF CommandInv, CommandTypeOK
    <3>2. sent' = Append(sent, c)
      BY <2>2 DEF Put
    <3> QED
      BY <3>1, <3>2, AppendProperties, LenProperties DEF Created
  <2>3. CASE PutStep
    BY <2>2, <2>3, PutAppends
  <2>4. CASE ~PutStep
    <3>1. sent' = sent
      BY <2>4 DEF CommandNext, commandVars, AskUser, TakeReply, EndTurn, ReleaseTurn, Consume,
             SubmitLate, Carry, Transmit, CheckLease, SubmitCommand, CommandAck, Break, tabSide,
             PutStep
    <3> QED
      BY <2>1, <3>1
  <2> QED
    BY <2>3, <2>4
<1> QED
  BY <1>1, <1>2, <1>3, <1>4 DEF Settled, Refuses

LEMMA UnderWayStep ==
  ASSUME CommandInv, \A x \in Tab : UnderWay(x), Acknowledged, [CommandNext]_commandVars
  PROVE  (\A x \in Tab : UnderWay(x)') /\ Acknowledged'
<1>1. CASE /\ UNCHANGED <<outbox, unsent, wire, acks, handling, sent>>
           /\ \A i \in Created : Settled(i) => Settled(i)'
  BY <1>1 DEF UnderWay, Acknowledged, Created
<1>2. ASSUME NEW x \in Tab, Carry(x) \/ Break(x)
      PROVE  (\A y \in Tab : UnderWay(y)') /\ Acknowledged'
  <2>1. Keeps(x) /\ UNCHANGED sent
    BY <1>2, CarryKeeps DEF Carry, Transmit, CheckLease, SubmitCommand, CommandAck, Break, tabSide
  <2>2. \A i \in Created : i \in Created' /\ (Settled(i) => Settled(i)')
    BY <1>2, SettledStays DEF CommandNext
  <2>3. \A y \in Tab : UnderWay(y)'
    BY <2>1 DEF Keeps, UnderWay
  <2>4. \A y \in Tab : \A i \in On(acks[y])' : i \in Created' /\ Settled(i)'
    <3>1. ASSUME NEW y \in Tab, NEW i \in On(acks[y])'
          PROVE  i \in On(acks[y]) \/ (i \in Created /\ Settled(i)')
      BY <2>1, <3>1 DEF Keeps
    <3> QED
      BY <2>2, <3>1 DEF Acknowledged
  <2>5. \A i \in Created' : Settled(i)' \/ \E y \in Tab : i \in outbox'[y]
    <3> SUFFICES ASSUME NEW i \in Created', ~Settled(i)'
                 PROVE  \E y \in Tab : i \in outbox'[y]
      OBVIOUS
    <3>1. i \in Created /\ ~Settled(i)
      BY <2>1, <2>2 DEF Created
    <3>2. PICK y \in Tab : i \in outbox[y] /\ i \notin On(acks[y])
      BY <3>1 DEF Acknowledged
    <3> QED
      BY <2>1, <3>2 DEF Keeps
  <2> QED
    BY <2>3, <2>4, <2>5 DEF Acknowledged
<1>3. CASE PutStep
  <2>1. PICK x \in Tab, command \in [kind : {"reply", "cancel"}, to : 0..Asks] : Put(x, command)
    BY <1>3, PutAppends
  <2> DEFINE new == Len(sent) + 1
  <2>2. /\ outbox' = [outbox EXCEPT ![x] = @ \cup {new}]
        /\ unsent' = [unsent EXCEPT ![x] = @ \cup {new}]
        /\ UNCHANGED <<wire, handling, acks>>
    BY <2>1 DEF Put, linkSide
  <2>3. Created' = Created \cup {new}
    <3>1. sent \in Seq([kind : {"reply", "cancel"}, to : 0..Asks]) /\ sent' = Append(sent, command)
      BY <2>1 DEF Put, CommandInv, CommandTypeOK
    <3>2. Len(sent') = Len(sent) + 1 /\ Len(sent) \in Nat
      BY <3>1, AppendProperties, LenProperties
    <3> QED
      BY <3>2 DEF Created
  <2> HIDE DEF new
  <2>4. outbox \in [Tab -> SUBSET Id] /\ unsent \in [Tab -> SUBSET Id]
    BY DEF CommandInv, CommandTypeOK
  <2>5. /\ outbox'[x] = outbox[x] \cup {new} /\ unsent'[x] = unsent[x] \cup {new}
        /\ \A y \in Tab : y # x => UNCHANGED <<outbox[y], unsent[y]>>
    BY <2>2, <2>4
  <2>6. \A i \in Created : Settled(i) => Settled(i)'
    BY SettledStays
  <2>7. \A y \in Tab : UnderWay(y)'
    BY <2>2, <2>5 DEF UnderWay
  <2> QED
    BY <2>2, <2>3, <2>5, <2>6, <2>7 DEF Acknowledged
<1>4. CASE TurnStep \/ SubmitLate \/ UNCHANGED commandVars
  <2>1. UNCHANGED <<outbox, unsent, wire, acks, handling, sent>>
    BY <1>4, TurnLeavesTheRest DEF SubmitLate, commandVars, tabSide, linkSide
  <2>2. \A i \in Created : Settled(i) => Settled(i)'
    BY SettledStays
  <2> QED
    BY <1>1, <2>1, <2>2
<1> QED
  BY <1>2, <1>3, <1>4 DEF CommandNext, TurnStep, PutStep

LEMMA UnderWayHolds == CommandSpec => [](Acknowledged /\ \A x \in Tab : UnderWay(x))
<1>1. CommandInit => Acknowledged /\ \A x \in Tab : UnderWay(x)
  <2> SUFFICES ASSUME CommandInit
               PROVE  Acknowledged /\ \A x \in Tab : UnderWay(x)
    OBVIOUS
  <2>1. Len(sent) = 0 /\ \A x \in Tab : acks[x] = <<>> /\ outbox[x] = {}
    BY EmptySeq DEF CommandInit
  <2> QED
    BY <2>1, OnNothing DEF Acknowledged, UnderWay, Created
<1>2. /\ CommandInv /\ (Acknowledged /\ \A x \in Tab : UnderWay(x)) /\ [CommandNext]_commandVars
      => (Acknowledged /\ \A x \in Tab : UnderWay(x))'
  BY UnderWayStep
<1> QED
  BY <1>1, <1>2, InvHolds, PTL DEF CommandSpec

(***************************************************************************)
(* No command waits in an outbox for nothing, whatever connections break   *)
(* and whatever acknowledgements get lost: it is to be sent on its tab's   *)
(* connection, or the command or its acknowledgement is on that            *)
(* connection (TurnRuntimeClient.ts flushPending; what CommandsRetire      *)
(* needs of safety).                                                       *)
(***************************************************************************)
THEOREM OutboxIsUnderWay ==
  CommandSpec => [](\A x \in Tab : \A i \in outbox[x] :
                      \/ i \in unsent[x] \/ i \in On(wire[x])
                      \/ handling[x] = i \/ i \in On(acks[x]))
<1>1. Acknowledged /\ (\A x \in Tab : UnderWay(x))
      => \A x \in Tab : \A i \in outbox[x] :
           \/ i \in unsent[x] \/ i \in On(wire[x])
           \/ handling[x] = i \/ i \in On(acks[x])
  BY DEF UnderWay
<1> QED
  BY <1>1, UnderWayHolds, PTL

(***************************************************************************)
(* A command is given up by the outboxes only when it need not be sent     *)
(* again: the coordinator has had its id, or the turn can take it no       *)
(* longer, because its lease is gone or, for a cancel, because it is over  *)
(* (app/service.py submit_user_reply and cancel_turn).                     *)
(***************************************************************************)
THEOREM RetiredCommandsAreSettled ==
  CommandSpec => [](\A i \in Created : (\A x \in Tab : i \notin outbox[x]) => Settled(i))
<1>1. Acknowledged
      => \A i \in Created : (\A x \in Tab : i \notin outbox[x]) => Settled(i)
  BY DEF Acknowledged
<1> QED
  BY <1>1, UnderWayHolds, PTL
=============================================================================
