---------------------------- MODULE TaskLogs_proofs ----------------------------
(***************************************************************************)
(* Proofs about the log streams of tasks, for any tasks, followers and     *)
(* limits.                                                                 *)
(*                                                                         *)
(* EndsReachFollowers is not inductive: who joins after the end replays a  *)
(* buffer, and the end may have left that buffer for a tombstone and come  *)
(* back in the meantime.  EndKept says that the archive has it, unless it  *)
(* was forgotten or a thread has logged behind it.                         *)
(***************************************************************************)
EXTENDS TaskLogs, SequenceTheorems, TLAPS

Archive ==
  [kept : SUBSET Job, log : [Job -> Seq(1..MaxEvents)], timed : SUBSET Job,
   tombs : SUBSET Job, forgotten : SUBSET Job]

\* An archive that has event no of task j, the last of its buffer or a tombstone.
Has(s, j, no) ==
  IF j \in s.kept THEN s.log[j] # <<>> /\ Last(s.log[j]) = no ELSE j \in s.tombs

EndKept ==
  \A j \in Job : endNo[j] > 0 /\ emitted[j] = endNo[j] /\ j \notin archive.forgotten
                   => Has(archive, j, endNo[j])

\* Ends were emitted, tombstones are of ended tasks, and what is handed on has a number.
Counted ==
  /\ \A j \in Job : endNo[j] <= emitted[j]
  /\ \A j \in archive.tombs : endNo[j] > 0
  /\ \A e \in Emitter : giving[e].to # {} => giving[e].no > 0

\* Who asked for a stream follows a task; who replays has something to replay.
Following ==
  \A f \in Follower : /\ reading[f] # "new" => follows[f] \in Job
                      /\ reading[f] = "replay" => backlog[f] # <<>>

\* The end of task i is owed to follower f.
Owed(f, i) ==
  /\ reading[f] \in {"replay", "live"} /\ follows[f] = i /\ ~missedEnd[f]
  /\ endNo[i] > 0 /\ emitted[i] = endNo[i] /\ i \notin archive.forgotten

Reach == \A f \in Follower, i \in Job : Owed(f, i) => EndUnderWay(f, i)

LogInv == LogTypeOK /\ Counted /\ Following /\ EndKept /\ Reach

-----------------------------------------------------------------------------
(* The archive *)

LEMMA ElementsAre ==
  ASSUME NEW S, NEW q \in Seq(S)
  PROVE  ToSet(q) \subseteq S
BY DEF ToSet

LEMMA AppendedTo ==
  ASSUME NEW S, NEW q \in Seq(S), NEW x \in S
  PROVE  x \in ToSet(Append(q, x)) /\ ToSet(q) \subseteq ToSet(Append(q, x))
<1> DEFINE r == Append(q, x)
<1>1. /\ Len(r) \in DOMAIN r /\ r[Len(r)] = x
      /\ \A i \in DOMAIN q : i \in DOMAIN r /\ r[i] = q[i]
  OBVIOUS
<1> QED
  BY <1>1 DEF ToSet

LEMMA TakenFrom ==
  ASSUME NEW S, NEW q \in Seq(S), q # <<>>
  PROVE  /\ Head(q) \in S /\ Tail(q) \in Seq(S)
         /\ \A x \in ToSet(q) : x = Head(q) \/ x \in ToSet(Tail(q))
         /\ IF Len(q) > 1 THEN Tail(q) # <<>> /\ Last(Tail(q)) = Last(q)
            ELSE Last(q) = Head(q)
<1>1. /\ Head(q) \in S /\ Tail(q) \in Seq(S) /\ Len(Tail(q)) = Len(q) - 1
      /\ \A i \in 1..(Len(q) - 1) : Tail(q)[i] = q[i + 1]
  BY HeadTailProperties
<1>2. Len(q) \in Nat /\ Len(q) > 0 /\ Head(q) = q[1]
  OBVIOUS
<1>3. ASSUME NEW i \in DOMAIN q, i # 1
      PROVE  q[i] \in ToSet(Tail(q))
  <2>1. i - 1 \in 1..(Len(q) - 1) /\ (i - 1) + 1 = i
    BY <1>2, <1>3
  <2>2. i - 1 \in DOMAIN Tail(q) /\ Tail(q)[i - 1] = q[i]
    BY <1>1, <1>2, <2>1
  <2> QED
    BY <2>2 DEF ToSet
<1>4. \A x \in ToSet(q) : x = Head(q) \/ x \in ToSet(Tail(q))
  BY <1>2, <1>3 DEF ToSet
<1>5. CASE Len(q) > 1
  <2>1. Len(q) - 1 \in 1..(Len(q) - 1) /\ (Len(q) - 1) + 1 = Len(q)
    BY <1>2, <1>5
  <2>2. Tail(q)[Len(Tail(q))] = q[Len(q)]
    BY <1>1, <2>1
  <2>3. Len(q) - 1 # 0
    <3> DEFINE n == Len(q)
    <3>1. n \in Nat /\ n > 1
      BY <1>2, <1>5
    <3> HIDE DEF n
    <3>2. n - 1 # 0
      BY <3>1
    <3> QED
      BY <3>2 DEF n
  <2>4. Tail(q) # <<>>
    BY <1>1, <2>3, Len(<<>>) = 0
  <2> QED
    BY <1>1, <1>4, <1>5, <2>2, <2>4 DEF Last
<1>6. CASE ~(Len(q) > 1)
  <2> DEFINE n == Len(q)
  <2>1. n = 1
    <3>1. n \in Nat /\ n > 0 /\ ~(n > 1)
      BY <1>2, <1>6
    <3> HIDE DEF n
    <3> QED
      BY <3>1
  <2> QED
    BY <1>1, <1>2, <1>4, <1>6, <2>1 DEF Last
<1> QED
  BY <1>5, <1>6

\* From s to r nothing is lost but what r has forgotten.
Keeps(s, r, last) ==
  /\ r \in Archive
  /\ s.forgotten \subseteq r.forgotten
  /\ (\A j \in s.tombs : last[j] > 0) => \A j \in r.tombs : last[j] > 0
  /\ \A j \in Job : Has(s, j, last[j]) /\ j \notin r.forgotten => Has(r, j, last[j])

LEMMA KeepsTransitive ==
  ASSUME NEW s, NEW r, NEW q, NEW last, Keeps(s, r, last), Keeps(r, q, last)
  PROVE  Keeps(s, q, last)
BY DEF Keeps

\* A buffer that is dropped leaves its end.
LEMMA DroppedKeeps ==
  ASSUME NEW s \in Archive, NEW gone \in SUBSET Job, NEW last \in [Job -> 0..MaxEvents]
  PROVE  Keeps(s, Dropped(s, gone, last), last)
<1> DEFINE log == [j \in Job |-> IF j \in gone THEN <<>> ELSE s.log[j]]
           ended == {j \in gone : last[j] \in ToSet(s.log[j])}
           r == Dropped(s, gone, last)
<1>1. /\ r = [s EXCEPT !.kept = s.kept \ gone, !.timed = s.timed \ gone, !.log = log,
                       !.tombs = s.tombs \cup ended]
      /\ r.kept = s.kept \ gone /\ r.log = log
      /\ r.tombs = s.tombs \cup ended /\ r.forgotten = s.forgotten
  <2>1. r = [s EXCEPT !.kept = s.kept \ gone, !.timed = s.timed \ gone, !.log = log,
                      !.tombs = s.tombs \cup ended]
    BY Zenon DEF Dropped
  <2> HIDE DEF r, log, ended
  <2> QED
    BY <2>1 DEF Archive
<1>0. /\ s.kept \in SUBSET Job /\ s.log \in [Job -> Seq(1..MaxEvents)]
      /\ s.timed \in SUBSET Job /\ s.tombs \in SUBSET Job /\ s.forgotten \in SUBSET Job
  BY DEF Archive
<1>2. log \in [Job -> Seq(1..MaxEvents)]
  <2>1. <<>> \in Seq(1..MaxEvents)
    OBVIOUS
  <2>2. \A j \in Job : (IF j \in gone THEN <<>> ELSE s.log[j]) \in Seq(1..MaxEvents)
    BY <1>0, <2>1
  <2> QED
    BY <2>2, Zenon
<1>3. ended \in SUBSET Job
  <2> HIDE DEF r, log
  <2> QED
    BY Zenon
<1>4. \A j \in ended : last[j] > 0
  <2> SUFFICES ASSUME NEW j \in Job, last[j] \in ToSet(s.log[j])
               PROVE  last[j] > 0
    BY Zenon
  <2>1. s.log[j] \in Seq(1..MaxEvents)
    BY <1>0
  <2>2. ToSet(s.log[j]) \subseteq 1..MaxEvents
    BY <2>1, ElementsAre
  <2>3. last[j] \in 1..MaxEvents
    BY <2>2
  <2> QED
    BY <2>3, LogBounds
<1>5. ASSUME NEW j \in Job, Has(s, j, last[j])
      PROVE  Has(r, j, last[j])
  <2>1. CASE j \in gone /\ j \in s.kept
    <3>1. s.log[j] \in Seq(1..MaxEvents) /\ s.log[j] # <<>> /\ s.log[j][Len(s.log[j])] = last[j]
      BY <1>5, <2>1 DEF Has, Archive, Last
    <3>2. Len(s.log[j]) \in DOMAIN s.log[j]
      BY <3>1
    <3>3. last[j] \in ToSet(s.log[j])
      BY <3>1, <3>2 DEF ToSet
    <3>4. j \in ended
      BY <2>1, <3>3
    <3> HIDE DEF r, log, ended
    <3> QED
      BY <1>1, <2>1, <3>4 DEF Has
  <2>2. CASE j \in s.kept /\ j \notin gone
    <3>1. log[j] = s.log[j]
      BY <2>2
    <3> HIDE DEF r, log, ended
    <3> QED
      BY <1>1, <1>5, <2>2, <3>1 DEF Has
  <2>3. CASE j \notin s.kept
    <3> HIDE DEF r, log, ended
    <3> QED
      BY <1>1, <1>5, <2>3 DEF Has
  <2> QED
    BY <2>1, <2>2, <2>3
<1>6. r \in Archive
  <2> HIDE DEF r, log, ended
  <2> QED
    BY <1>0, <1>1, <1>2, <1>3 DEF Archive
<1> HIDE DEF r, log, ended
<1> QED
  BY <1>1, <1>4, <1>5, <1>6 DEF Keeps, r

\* A tombstone that is dropped is forgotten.
LEMMA FadedKeeps ==
  ASSUME NEW s \in Archive, NEW lost \in SUBSET Job, NEW last
  PROVE  Keeps(s, Faded(s, lost), last)
<1> DEFINE r == Faded(s, lost)
<1>1. /\ r = [s EXCEPT !.tombs = s.tombs \ lost, !.forgotten = s.forgotten \cup lost]
      /\ r.kept = s.kept /\ r.log = s.log
      /\ r.tombs = s.tombs \ lost /\ r.forgotten = s.forgotten \cup lost
  BY DEF Faded, Archive
<1> HIDE DEF r
<1>2. r \in Archive
  <2>1. /\ s.kept \in SUBSET Job /\ s.log \in [Job -> Seq(1..MaxEvents)]
        /\ s.timed \in SUBSET Job /\ s.tombs \ lost \in SUBSET Job
        /\ s.forgotten \cup lost \in SUBSET Job
    BY DEF Archive
  <2> QED
    BY <1>1, <2>1 DEF Archive
<1>3. \A j \in Job : Has(s, j, last[j]) /\ j \notin r.forgotten => Has(r, j, last[j])
  BY <1>1 DEF Has
<1> QED
  BY <1>1, <1>2, <1>3 DEF Keeps, r

LEMMA PrunedKeeps ==
  ASSUME NEW s \in Archive, NEW order, NEW last \in [Job -> 0..MaxEvents], NEW followed,
         NEW q \in Pruned(s, order, last, followed)
  PROVE  Keeps(s, q, last)
<1>1. PICK n : LET d == Dropped(s, Oldest(order, s.timed \ followed, n), last)
               IN  \E m : q = Faded(d, Oldest(order, d.tombs, m))
  BY Zenon DEF Pruned
<1> DEFINE gone == Oldest(order, s.timed \ followed, n)
           d == Dropped(s, gone, last)
<1>2. PICK m : q = Faded(d, Oldest(order, d.tombs, m))
  BY <1>1
<1>3. gone \in SUBSET Job
  BY DEF Oldest, Archive
<1> HIDE DEF gone
<1>4. Keeps(s, d, last)
  BY <1>3, DroppedKeeps
<1> HIDE DEF d
<1>5. d \in Archive
  BY <1>4 DEF Keeps
<1>6. Oldest(order, d.tombs, m) \in SUBSET Job
  BY <1>5 DEF Oldest, Archive
<1>7. Keeps(d, q, last)
  BY <1>2, <1>5, <1>6, FadedKeeps
<1> QED
  BY <1>4, <1>7, KeepsTransitive

\* A buffer that is made anew gets the end from the tombstone.
LEMMA RestoredKeeps ==
  ASSUME LogTypeOK, NEW s \in Archive, NEW j \in Job, \A i \in s.tombs : endNo[i] > 0
  PROVE  Keeps(s, Restored(s, j), endNo) /\ j \in Restored(s, j).kept
<1> DEFINE r == Restored(s, j)
<1>1. CASE j \in s.kept
  BY <1>1 DEF Restored, Keeps
<1>2. CASE j \notin s.kept /\ j \notin s.tombs
  <2>1. r = [s EXCEPT !.kept = s.kept \cup {j}, !.log[j] = <<>>]
    BY <1>2 DEF Restored, Archive
  <2> HIDE DEF r
  <2>2. /\ r.kept = s.kept \cup {j} /\ r.log = [s.log EXCEPT ![j] = <<>>]
        /\ r.tombs = s.tombs /\ r.forgotten = s.forgotten
    BY <2>1 DEF Archive
  <2>3. r \in Archive
    <3>1. <<>> \in Seq(1..MaxEvents)
      OBVIOUS
    <3> QED
      BY <2>1, <3>1 DEF Archive
  <2>4. \A i \in Job : i # j => r.log[i] = s.log[i]
    BY <2>2 DEF Archive
  <2>5. \A i \in Job : Has(s, i, endNo[i]) => Has(r, i, endNo[i])
    BY <1>2, <2>2, <2>4 DEF Has
  <2> QED
    BY <2>2, <2>3, <2>5 DEF Keeps, r
<1>3. CASE j \notin s.kept /\ j \in s.tombs
  <2>1. r = [s EXCEPT !.kept = s.kept \cup {j}, !.log[j] = <<endNo[j]>>,
                      !.timed = s.timed \cup {j}, !.tombs = s.tombs \ {j}]
    <3> DEFINE a == IF j \in s.tombs THEN <<endNo[j]>> ELSE <<>>
               b == IF j \in s.tombs THEN s.timed \cup {j} ELSE s.timed
    <3>1. r = [s EXCEPT !.kept = s.kept \cup {j}, !.log[j] = a, !.timed = b,
                        !.tombs = s.tombs \ {j}]
      BY <1>3, Zenon DEF Restored
    <3>2. a = <<endNo[j]>> /\ b = s.timed \cup {j}
      BY <1>3, Zenon
    <3> HIDE DEF r, a, b
    <3> QED
      BY <3>1, <3>2, Zenon
  <2> HIDE DEF r
  <2>2. /\ r.kept = s.kept \cup {j} /\ r.log = [s.log EXCEPT ![j] = <<endNo[j]>>]
        /\ r.tombs = s.tombs \ {j} /\ r.forgotten = s.forgotten
    BY <2>1 DEF Archive
  <2>3. <<endNo[j]>> \in Seq(1..MaxEvents)
    BY <1>3, LogBounds DEF LogTypeOK
  <2>4. r \in Archive
    BY <2>1, <2>3 DEF Archive
  <2>5. r.log[j] = <<endNo[j]>> /\ \A i \in Job : i # j => r.log[i] = s.log[i]
    BY <2>2 DEF Archive
  <2>6. r.log[j] # <<>> /\ Last(r.log[j]) = endNo[j]
    BY <2>5 DEF Last
  <2>7. \A i \in Job : Has(s, i, endNo[i]) => Has(r, i, endNo[i])
    BY <1>3, <2>2, <2>5, <2>6 DEF Has
  <2> QED
    BY <2>2, <2>4, <2>7 DEF Keeps, r
<1> QED
  BY <1>1, <1>2, <1>3

LEMMA EnsuredKeeps ==
  ASSUME LogTypeOK, Counted, NEW j \in Job, Ensured(j)
  PROVE  Keeps(archive, archive', endNo) /\ j \in archive'.kept
<1>1. archive \in Archive /\ endNo \in [Job -> 0..MaxEvents]
  BY DEF LogTypeOK, Archive
<1>2. PICK s \in Pruned(archive, ends, endNo, {follows[f] : f \in Joined}) :
        archive' = Restored(s, j)
  BY DEF Ensured
<1>3. Keeps(archive, s, endNo)
  BY <1>1, <1>2, PrunedKeeps
<1>4. s \in Archive /\ \A i \in s.tombs : endNo[i] > 0
  BY <1>3 DEF Keeps, Counted
<1>5. Keeps(s, archive', endNo) /\ j \in archive'.kept
  BY <1>2, <1>4, RestoredKeeps
<1> QED
  BY <1>3, <1>5, KeepsTransitive

\* What an archive keeps it still has after a step of a follower.
LEMMA QuietKeeps ==
  ASSUME LogInv, UNCHANGED <<emitted, endNo, giving>>, Keeps(archive, archive', endNo)
  PROVE  Counted' /\ EndKept' /\ archive' \in Archive
BY DEF LogInv, Counted, EndKept, Keeps

\* An event in the buffer of its task.
LEMMA BufferedHas ==
  ASSUME NEW s \in Archive, NEW j \in Job, NEW no \in 1..MaxEvents
  PROVE  LET r == Buffered(s, j, no)
         IN  /\ r \in Archive /\ r.tombs = s.tombs /\ r.forgotten = s.forgotten
             /\ Has(r, j, no)
             /\ \A i \in Job : \A n : i # j => (Has(r, i, n) <=> Has(s, i, n))
<1> DEFINE old == IF Len(s.log[j]) < BufferSize THEN s.log[j] ELSE Tail(s.log[j])
           r == Buffered(s, j, no)
<1>1. s.log[j] \in Seq(1..MaxEvents) /\ BufferSize \in Nat \ {0}
  BY LogBounds DEF Archive
<1>2. old \in Seq(1..MaxEvents)
  <2>1. CASE Len(s.log[j]) < BufferSize
    BY <1>1, <2>1
  <2>2. CASE ~(Len(s.log[j]) < BufferSize)
    <3>1. s.log[j] # <<>>
      <4>1. Len(<<>>) = 0
        OBVIOUS
      <4>2. 0 < BufferSize
        BY <1>1
      <4> QED
        BY <2>2, <4>1, <4>2
    <3>2. Tail(s.log[j]) \in Seq(1..MaxEvents)
      BY <1>1, <3>1, HeadTailProperties
    <3>3. old = Tail(s.log[j])
      BY <2>2, Zenon
    <3> QED
      BY <3>2, <3>3, Zenon
  <2> QED
    BY <2>1, <2>2
<1>3. r = [s EXCEPT !.kept = s.kept \cup {j}, !.log[j] = Append(old, no)]
  BY DEF Buffered, Archive
<1> HIDE DEF r, old
<1>4. /\ Append(old, no) \in Seq(1..MaxEvents) /\ Append(old, no) # <<>>
      /\ Last(Append(old, no)) = no
  BY <1>2 DEF Last
<1>5. /\ r.kept = s.kept \cup {j} /\ r.log = [s.log EXCEPT ![j] = Append(old, no)]
      /\ r.tombs = s.tombs /\ r.forgotten = s.forgotten
  BY <1>3 DEF Archive
<1>6. r \in Archive
  BY <1>3, <1>4 DEF Archive
<1>7. r.log[j] = Append(old, no) /\ \A i \in Job : i # j => r.log[i] = s.log[i]
  BY <1>5 DEF Archive
<1>8. Has(r, j, no)
  BY <1>4, <1>5, <1>7 DEF Has
<1>9. \A i \in Job : \A n : i # j => (Has(r, i, n) <=> Has(s, i, n))
  BY <1>5, <1>7 DEF Has
<1> QED
  BY <1>5, <1>6, <1>8, <1>9 DEF r

-----------------------------------------------------------------------------
(* The steps *)

\* An archive in which task j has ended.
LEMMA TimedHas ==
  ASSUME NEW s \in Archive, NEW j \in Job
  PROVE  LET r == [s EXCEPT !.timed = s.timed \cup {j}]
         IN  /\ r \in Archive /\ r.tombs = s.tombs /\ r.forgotten = s.forgotten
             /\ \A i, n : Has(r, i, n) <=> Has(s, i, n)
<1> DEFINE r == [s EXCEPT !.timed = s.timed \cup {j}]
<1>1. /\ r \in Archive /\ r.tombs = s.tombs /\ r.forgotten = s.forgotten
      /\ r.kept = s.kept /\ r.log = s.log
  BY DEF Archive
<1> HIDE DEF r
<1>2. \A i, n : Has(r, i, n) <=> Has(s, i, n)
  BY <1>1 DEF Has
<1> QED
  BY <1>1, <1>2 DEF r

\* What emit does to the archive.
LEMMA EmitArchives ==
  ASSUME LogTypeOK, NEW e \in Emitter, NEW j \in Job, NEW isEnd \in BOOLEAN, Emit(e, j, isEnd)
  PROVE  /\ emitted[j] + 1 \in 1..MaxEvents
         /\ endNo' \in [Job -> 0..MaxEvents]
         /\ emitted' \in [Job -> 0..MaxEvents]
         /\ \E s \in Archive :
              /\ s.tombs = archive.tombs /\ s.forgotten = archive.forgotten
              /\ Has(s, j, emitted[j] + 1)
              /\ \A i \in Job : \A n : i # j => (Has(s, i, n) <=> Has(archive, i, n))
              /\ Keeps(s, archive', endNo')
<1> DEFINE no == emitted[j] + 1
           stored == Buffered(archive, j, no)
           timed == [stored EXCEPT !.timed = stored.timed \cup {j}]
           followed == {follows[f] : f \in Joined}
<1>1. archive \in Archive /\ no \in 1..MaxEvents
  BY LogBounds DEF LogTypeOK, Archive, Emit
<1>2. /\ endNo' \in [Job -> 0..MaxEvents]
      /\ emitted' \in [Job -> 0..MaxEvents]
  <2>1. no \in 0..MaxEvents
    BY <1>1
  <2>2. emitted' = [emitted EXCEPT ![j] = no]
    BY DEF Emit
  <2>3. endNo' = [endNo EXCEPT ![j] = no] \/ endNo' = endNo
    BY DEF Emit
  <2> HIDE DEF no
  <2> QED
    BY <2>1, <2>2, <2>3 DEF LogTypeOK
<1>3. /\ stored \in Archive /\ stored.tombs = archive.tombs
      /\ stored.forgotten = archive.forgotten /\ Has(stored, j, no)
      /\ \A i \in Job : \A n : i # j => (Has(stored, i, n) <=> Has(archive, i, n))
  <2> HIDE DEF no
  <2> QED
    BY <1>1, BufferedHas
<1>4. /\ timed \in Archive /\ timed.tombs = stored.tombs
      /\ timed.forgotten = stored.forgotten
      /\ \A i, n : Has(timed, i, n) <=> Has(stored, i, n)
  <2> HIDE DEF no, stored
  <2> QED
    BY <1>3, TimedHas
<1>5. \/ archive' \in Pruned(timed, ends', endNo', followed)
      \/ archive' \in Pruned(stored, ends', endNo', followed)
  <2>1. CASE isEnd
    BY <2>1, Zenon DEF Emit
  <2>2. CASE ~isEnd
    BY <2>2, Zenon DEF Emit
  <2> QED
    BY <2>1, <2>2
<1> HIDE DEF stored, timed, followed, no
<1>6. Keeps(timed, archive', endNo') \/ Keeps(stored, archive', endNo')
  BY <1>2, <1>3, <1>4, <1>5, PrunedKeeps
<1>7. PICK s \in {timed, stored} : Keeps(s, archive', endNo')
  BY <1>6
<1>8. /\ s \in Archive /\ s.tombs = archive.tombs /\ s.forgotten = archive.forgotten
      /\ Has(s, j, no)
      /\ \A i \in Job : \A n : i # j => (Has(s, i, n) <=> Has(archive, i, n))
  BY <1>3, <1>4, <1>7
<1> QED
  BY <1>1, <1>2, <1>7, <1>8 DEF no

LEMMA EmitKeeps ==
  ASSUME LogInv, NEW e \in Emitter, NEW j \in Job, NEW isEnd \in BOOLEAN, Emit(e, j, isEnd),
         isEnd => e = "loop", stage' \in [Job -> {"new", "running", "ending", "over"}]
  PROVE  LogInv'
<1> DEFINE no == emitted[j] + 1
           given == [job |-> j, no |-> no, to |-> FollowersOf(j)]
<1>1. /\ no \in 1..MaxEvents /\ LogTypeOK /\ MaxEvents \in Nat
      /\ endNo \in [Job -> 0..MaxEvents] /\ emitted \in [Job -> 0..MaxEvents]
      /\ endNo' \in [Job -> 0..MaxEvents] /\ emitted' \in [Job -> 0..MaxEvents]
  <2>1. LogTypeOK
    BY DEF LogInv
  <2>2. MaxEvents \in Nat
    BY LogBounds
  <2>3. endNo \in [Job -> 0..MaxEvents] /\ emitted \in [Job -> 0..MaxEvents]
    BY <2>1 DEF LogTypeOK
  <2>4. /\ no \in 1..MaxEvents
        /\ endNo' \in [Job -> 0..MaxEvents] /\ emitted' \in [Job -> 0..MaxEvents]
    BY <2>1, EmitArchives
  <2> QED
    BY <2>1, <2>2, <2>3, <2>4
<1>2. PICK s \in Archive :
        /\ s.tombs = archive.tombs /\ s.forgotten = archive.forgotten
        /\ Has(s, j, no)
        /\ \A i \in Job : \A n : i # j => (Has(s, i, n) <=> Has(archive, i, n))
        /\ Keeps(s, archive', endNo')
  BY EmitArchives DEF LogInv
<1>3. /\ emitted' = [emitted EXCEPT ![j] = no]
      /\ endNo' = IF isEnd THEN [endNo EXCEPT ![j] = no] ELSE endNo
      /\ giving[e].to = {} /\ giving' = [giving EXCEPT ![e] = given]
      /\ ends' = IF isEnd THEN Append(ends, j) ELSE ends
      /\ UNCHANGED <<arriving, follows, reading, backlog, inQueue, missedEnd>>
  BY DEF Emit, followerSide
<1> HIDE DEF no
<1>4. /\ emitted'[j] = no /\ \A i \in Job : i # j => emitted'[i] = emitted[i] /\ endNo'[i] = endNo[i]
      /\ isEnd => endNo'[j] = no
      /\ ~isEnd => endNo'[j] = endNo[j]
  BY <1>1, <1>3
<1>5. endNo[j] <= emitted[j] /\ no = emitted[j] + 1 /\ emitted[j] \in Nat /\ endNo[j] \in Nat
  <2>1. endNo[j] <= emitted[j] /\ no = emitted[j] + 1
    BY DEF LogInv, Counted, no
  <2>2. emitted[j] \in Nat /\ endNo[j] \in Nat
    BY <1>1
  <2> QED
    BY <2>1, <2>2
<1>6. given \in [job : Job \cup {NoJob}, no : 0..MaxEvents, to : SUBSET Follower]
  BY <1>1 DEF FollowersOf, Joined
<1>7. /\ giving' \in [Emitter -> [job : Job \cup {NoJob}, no : 0..MaxEvents, to : SUBSET Follower]]
      /\ giving'[e].no = no /\ giving'[e].job = j /\ giving'[e].to = FollowersOf(j)
      /\ \A d \in Emitter : d # e => giving'[d] = giving[d]
  <2>1. giving \in [Emitter -> [job : Job \cup {NoJob}, no : 0..MaxEvents, to : SUBSET Follower]]
    BY <1>1 DEF LogTypeOK
  <2>2. given.no = no /\ given.job = j /\ given.to = FollowersOf(j)
    OBVIOUS
  <2> HIDE DEF given
  <2> QED
    BY <1>3, <1>6, <2>1, <2>2
<1> HIDE DEF given
<1>8. LogTypeOK'
  <2>1. archive' \in Archive
    BY <1>2 DEF Keeps
  <2>2. ends' \in Seq(Job)
    BY <1>1, <1>3 DEF LogTypeOK
  <2> QED
    BY <1>1, <1>3, <1>7, <2>1, <2>2 DEF LogTypeOK, Archive
<1>9. Counted'
  <2>1. \A i \in Job : endNo'[i] <= emitted'[i]
    BY <1>4, <1>5 DEF LogInv, Counted
  <2>2. \A i \in s.tombs : endNo'[i] > 0
    <3>1. \A i \in s.tombs : i \in Job /\ endNo[i] > 0
      BY <1>2 DEF LogInv, Counted, Archive
    <3> QED
      BY <1>1, <1>4, <3>1
  <2>3. \A i \in archive'.tombs : endNo'[i] > 0
    BY <1>2, <2>2 DEF Keeps
  <2>4. \A d \in Emitter : giving'[d].to # {} => giving'[d].no > 0
    BY <1>1, <1>7 DEF LogInv, Counted
  <2> QED
    BY <2>1, <2>3, <2>4 DEF Counted
<1>10. EndKept'
  <2> SUFFICES ASSUME NEW i \in Job, endNo'[i] > 0, emitted'[i] = endNo'[i],
                      i \notin archive'.forgotten
               PROVE  Has(archive', i, endNo'[i])
    BY DEF EndKept
  <2>1. Has(s, i, endNo'[i])
    <3>1. CASE i = j
      BY <1>2, <1>4, <1>5, <3>1
    <3>2. CASE i # j
      BY <1>2, <1>4, <3>2 DEF LogInv, EndKept, Keeps
    <3> QED
      BY <3>1, <3>2
  <2> QED
    BY <1>2, <2>1 DEF Keeps
<1>11. Reach'
  <2> SUFFICES ASSUME NEW f \in Follower, NEW i \in Job, Owed(f, i)'
               PROVE  EndUnderWay(f, i)'
    BY DEF Reach
  <2>1. CASE i = j
    <3>1. isEnd
      BY <1>4, <1>5, <2>1 DEF Owed
    <3>2. f \in FollowersOf(j)
      BY <1>3, <2>1 DEF Owed, FollowersOf, Joined
    <3> QED
      BY <1>4, <1>7, <2>1, <3>1, <3>2 DEF EndUnderWay
  <2>2. CASE i # j
    <3>1. Owed(f, i)
      BY <1>2, <1>3, <1>4, <2>2 DEF Owed, Keeps
    <3>2. EndUnderWay(f, i)
      BY <3>1 DEF LogInv, Reach
    <3>3. f \in giving["loop"].to => giving'["loop"] = giving["loop"]
      BY <1>3, <1>7 DEF Emitter
    <3> QED
      BY <1>3, <1>4, <2>2, <3>2, <3>3 DEF EndUnderWay
  <2> QED
    BY <2>1, <2>2
<1> QED
  BY <1>3, <1>8, <1>9, <1>10, <1>11 DEF LogInv, Following

\* A step of a follower that asks the archive, and what is owed after it.
LEMMA StillOwed ==
  ASSUME UNCHANGED <<emitted, endNo>>, Keeps(archive, archive', endNo),
         NEW f \in Follower, NEW i \in Job, Owed(f, i)', reading[f] \in {"replay", "live"},
         follows'[f] = follows[f], missedEnd[f] => missedEnd'[f]
  PROVE  Owed(f, i)
BY DEF Owed, Keeps

LEMMA ArchiveKeeps ==
  ASSUME LogTypeOK
  PROVE  Keeps(archive, archive, endNo)
BY DEF LogTypeOK, Archive, Keeps

LEMMA GoneKeeps ==
  ASSUME LogTypeOK, NEW f \in Follower, Gone(f)
  PROVE  Keeps(archive, archive', endNo)
<1>1. archive \in Archive /\ endNo \in [Job -> 0..MaxEvents]
  BY DEF LogTypeOK, Archive
<1> QED
  BY <1>1, PrunedKeeps DEF Gone

\* The tasks and the event loop.
LEMMA JobKeeps ==
  ASSUME LogInv, NEW j \in Job, BeginJob(j) \/ EndCapture(j)
  PROVE  LogInv'
<1>1. /\ UNCHANGED <<emitted, endNo, ends, giving, arriving, followerSide>>
      /\ Keeps(archive, archive', endNo)
      /\ stage' \in [Job -> {"new", "running", "ending", "over"}]
  <2>1. CASE BeginJob(j)
    BY <2>1, EnsuredKeeps DEF BeginJob, LogInv, LogTypeOK
  <2>2. CASE EndCapture(j)
    <3>1. stage' = [stage EXCEPT ![j] = "over"] /\ archive' = archive
      BY <2>2 DEF EndCapture
    <3> QED
      BY <2>2, <3>1, ArchiveKeeps DEF EndCapture, LogInv, LogTypeOK
  <2> QED
    BY <2>1, <2>2
<1>2. Counted' /\ EndKept' /\ archive' \in Archive
  BY <1>1, QuietKeeps
<1>3. LogTypeOK' /\ Following'
  BY <1>1, <1>2 DEF LogInv, LogTypeOK, Archive, Following, followerSide
<1>4. Reach'
  <2> SUFFICES ASSUME NEW f \in Follower, NEW i \in Job, Owed(f, i)'
               PROVE  EndUnderWay(f, i)'
    BY DEF Reach
  <2>1. Owed(f, i)
    BY <1>1, StillOwed DEF Owed, followerSide
  <2> QED
    BY <1>1, <2>1 DEF LogInv, Reach, EndUnderWay, followerSide
<1> QED
  BY <1>2, <1>3, <1>4 DEF LogInv

LEMMA LineKeeps ==
  ASSUME LogInv, NEW e \in Emitter, NEW j \in Job, EmitLine(e, j)
  PROVE  LogInv'
BY EmitKeeps DEF EmitLine, LogInv, LogTypeOK

LEMMA EndKeeps ==
  ASSUME LogInv, NEW j \in Job, EmitEnd(j) \/ ReportLost(j)
  PROVE  LogInv'
<1>1. Emit("loop", j, TRUE) /\ "loop" \in Emitter
  BY DEF EmitEnd, ReportLost, Emitter
<1>2. stage' \in [Job -> {"new", "running", "ending", "over"}]
  BY DEF EmitEnd, ReportLost, LogInv, LogTypeOK
<1> QED
  BY <1>1, <1>2, EmitKeeps

LEMMA PassOnKeeps ==
  ASSUME LogInv, NEW e \in Emitter, PassOn(e)
  PROVE  LogInv'
<1>1. PICK f \in giving[e].to :
        /\ arriving' = [arriving EXCEPT ![f] = Append(arriving[f], giving[e].no)]
        /\ giving' = [giving EXCEPT ![e].to = giving[e].to \ {f}]
  BY DEF PassOn
<1>2. /\ UNCHANGED <<stage, emitted, endNo, ends, archive>>
      /\ UNCHANGED <<follows, reading, backlog, inQueue, missedEnd>>
  BY DEF PassOn, jobSide, followerSide
<1>3. /\ giving \in [Emitter -> [job : Job \cup {NoJob}, no : 0..MaxEvents, to : SUBSET Follower]]
      /\ arriving \in [Follower -> Seq(1..MaxEvents)] /\ MaxEvents \in Nat
  BY LogBounds DEF LogInv, LogTypeOK
<1>4. f \in Follower /\ giving[e].no \in 1..MaxEvents
  <2>1. giving[e] \in [job : Job \cup {NoJob}, no : 0..MaxEvents, to : SUBSET Follower]
    BY <1>3
  <2>2. giving[e].no > 0
    BY <1>1 DEF LogInv, Counted
  <2> QED
    BY <1>1, <1>3, <2>1, <2>2
<1>5. /\ giving' \in [Emitter -> [job : Job \cup {NoJob}, no : 0..MaxEvents, to : SUBSET Follower]]
      /\ giving'[e].to = giving[e].to \ {f}
      /\ giving'[e].job = giving[e].job /\ giving'[e].no = giving[e].no
      /\ \A d \in Emitter : d # e => giving'[d] = giving[d]
  BY <1>1, <1>3
<1>6. /\ arriving' \in [Follower -> Seq(1..MaxEvents)]
      /\ arriving'[f] = Append(arriving[f], giving[e].no)
      /\ \A g \in Follower : g # f => arriving'[g] = arriving[g]
  BY <1>1, <1>3, <1>4
<1>7. LogTypeOK' /\ Following' /\ EndKept'
  BY <1>2, <1>5, <1>6 DEF LogInv, LogTypeOK, Following, EndKept
<1>8. Counted'
  BY <1>2, <1>5 DEF LogInv, Counted
<1>9. Reach'
  <2> SUFFICES ASSUME NEW g \in Follower, NEW i \in Job, Owed(g, i)'
               PROVE  EndUnderWay(g, i)'
    BY DEF Reach
  <2>1. EndUnderWay(g, i)
    BY <1>2 DEF LogInv, Reach, Owed
  <2>2. ToSet(arriving[g]) \subseteq ToSet(arriving'[g])
    BY <1>3, <1>4, <1>6, AppendedTo
  <2>3. giving[e].no \in ToSet(arriving'[f])
    BY <1>3, <1>4, <1>6, AppendedTo
  <2>4. CASE g \in giving["loop"].to /\ giving["loop"].job = i /\ giving["loop"].no = endNo[i]
    <3>1. CASE e = "loop" /\ g = f
      BY <1>2, <2>3, <2>4, <3>1 DEF EndUnderWay
    <3>2. CASE ~(e = "loop" /\ g = f)
      <4>1. "loop" \in Emitter
        BY DEF Emitter
      <4>2. /\ giving'["loop"].job = giving["loop"].job
            /\ giving'["loop"].no = giving["loop"].no /\ g \in giving'["loop"].to
        <5>1. CASE e = "loop"
          BY <1>5, <2>4, <3>2, <5>1
        <5>2. CASE e # "loop"
          BY <1>5, <2>4, <4>1, <5>2
        <5> QED
          BY <5>1, <5>2
      <4> QED
        BY <1>2, <2>4, <4>2 DEF EndUnderWay
    <3> QED
      BY <3>1, <3>2
  <2> QED
    BY <1>2, <2>1, <2>2, <2>4 DEF EndUnderWay
<1> QED
  BY <1>7, <1>8, <1>9 DEF LogInv

\* A step of one follower, of which only what it is owed is in question.
LEMMA FollowerKeeps ==
  ASSUME LogInv, UNCHANGED <<jobSide, giving>>, Keeps(archive, archive', endNo),
         NEW f \in Follower,
         follows' \in [Follower -> Job \cup {NoJob}],
         reading' \in [Follower -> {"new", "asked", "replay", "live", "over"}],
         backlog' \in [Follower -> Seq(1..MaxEvents)],
         arriving' \in [Follower -> Seq(1..MaxEvents)],
         inQueue' \in [Follower -> Seq(1..MaxEvents)],
         missedEnd' \in [Follower -> BOOLEAN],
         \A g \in Follower : g # f =>
           /\ follows'[g] = follows[g] /\ reading'[g] = reading[g] /\ backlog'[g] = backlog[g]
           /\ arriving'[g] = arriving[g] /\ inQueue'[g] = inQueue[g]
           /\ missedEnd'[g] = missedEnd[g],
         reading'[f] # "new" => follows'[f] \in Job,
         reading'[f] = "replay" => backlog'[f] # <<>>,
         EndKept' => \A i \in Job : Owed(f, i)' => EndUnderWay(f, i)'
  PROVE  LogInv'
<1>1. Counted' /\ EndKept' /\ archive' \in Archive
  BY QuietKeeps DEF jobSide
<1>2. LogTypeOK' /\ Following'
  BY <1>1 DEF LogInv, LogTypeOK, Archive, Following, jobSide
<1>3. Reach'
  <2> SUFFICES ASSUME NEW g \in Follower, NEW i \in Job, Owed(g, i)'
               PROVE  EndUnderWay(g, i)'
    BY DEF Reach
  <2>1. CASE g = f
    BY <1>1, <2>1
  <2>2. CASE g # f
    <3>1. Owed(g, i)
      BY <2>2, StillOwed DEF Owed, jobSide
    <3> QED
      BY <2>2, <3>1 DEF LogInv, Reach, EndUnderWay, jobSide
  <2> QED
    BY <2>1, <2>2
<1> QED
  BY <1>1, <1>2, <1>3 DEF LogInv

LEMMA AskKeeps ==
  ASSUME LogInv, NEW f \in Follower, NEW j \in Job, AskFor(f, j)
  PROVE  LogInv'
<1>1. Keeps(archive, archive', endNo)
  BY EnsuredKeeps DEF AskFor, LogInv
<1>2. /\ follows' = [follows EXCEPT ![f] = j] /\ reading' = [reading EXCEPT ![f] = "asked"]
      /\ UNCHANGED <<jobSide, giving, arriving, backlog, inQueue, missedEnd>>
  BY DEF AskFor
<1>3. LogTypeOK
  BY DEF LogInv
<1>4. reading'[f] = "asked" /\ follows'[f] = j
  BY <1>2, <1>3 DEF LogTypeOK
<1>5. \A i \in Job : ~Owed(f, i)'
  BY <1>4 DEF Owed
<1> QED
  BY <1>1, <1>2, <1>3, <1>4, <1>5, FollowerKeeps DEF LogTypeOK

LEMMA SubscribeKeeps ==
  ASSUME LogInv, NEW f \in Follower, Subscribe(f)
  PROVE  LogInv'
<1> DEFINE j == follows[f]
<1>1. j \in Job /\ LogTypeOK /\ Counted
  BY DEF Subscribe, LogInv, Following
<1>2. Keeps(archive, archive', endNo) /\ j \in archive'.kept
  BY <1>1, EnsuredKeeps DEF Subscribe
<1>3. archive'.log[j] \in Seq(1..MaxEvents)
  BY <1>1, <1>2 DEF Keeps, Archive
<1>4. /\ backlog' = [backlog EXCEPT ![f] = archive'.log[j]]
      /\ reading' = [reading EXCEPT ![f] = IF backlog'[f] = <<>> THEN "live" ELSE "replay"]
      /\ UNCHANGED <<jobSide, giving, arriving, follows, inQueue, missedEnd>>
  BY DEF Subscribe
<1>5. /\ backlog'[f] = archive'.log[j] /\ backlog' \in [Follower -> Seq(1..MaxEvents)]
      /\ \A g \in Follower : g # f => backlog'[g] = backlog[g]
  BY <1>1, <1>3, <1>4 DEF LogTypeOK
<1>6. /\ reading' \in [Follower -> {"new", "asked", "replay", "live", "over"}]
      /\ reading'[f] = IF backlog'[f] = <<>> THEN "live" ELSE "replay"
      /\ \A g \in Follower : g # f => reading'[g] = reading[g]
  BY <1>1, <1>4 DEF LogTypeOK
<1>7. ASSUME EndKept', NEW i \in Job, Owed(f, i)'
      PROVE  EndUnderWay(f, i)'
  <2>1. i = j /\ Has(archive', i, endNo'[i])
    BY <1>4, <1>7 DEF Owed, EndKept
  <2> QED
    BY <1>2, <1>5, <1>6, <2>1 DEF Has, EndUnderWay
<1> QED
  BY <1>1, <1>2, <1>4, <1>5, <1>6, <1>7, FollowerKeeps DEF LogTypeOK

LEMMA ReplayKeeps ==
  ASSUME LogInv, NEW f \in Follower, Replay(f)
  PROVE  LogInv'
<1>1. /\ LogTypeOK /\ backlog[f] \in Seq(1..MaxEvents) /\ backlog[f] # <<>>
      /\ follows[f] \in Job /\ reading[f] = "replay"
  BY DEF Replay, LogInv, LogTypeOK, Following
<1>2. /\ backlog' = [backlog EXCEPT ![f] = Tail(backlog[f])]
      /\ UNCHANGED <<jobSide, giving, arriving, follows, inQueue, missedEnd>>
  BY DEF Replay
<1>3. /\ Tail(backlog[f]) \in Seq(1..MaxEvents)
      /\ IF Len(backlog[f]) > 1
           THEN Tail(backlog[f]) # <<>> /\ Last(Tail(backlog[f])) = Last(backlog[f])
           ELSE Last(backlog[f]) = Head(backlog[f])
  BY <1>1, TakenFrom
<1>4. /\ backlog' \in [Follower -> Seq(1..MaxEvents)] /\ backlog'[f] = Tail(backlog[f])
      /\ \A g \in Follower : g # f => backlog'[g] = backlog[g]
  BY <1>1, <1>2, <1>3 DEF LogTypeOK
<1>5. Keeps(archive, archive', endNo)
  BY <1>1, ArchiveKeeps, GoneKeeps DEF Replay
<1>6. /\ reading' \in [Follower -> {"new", "asked", "replay", "live", "over"}]
      /\ \A g \in Follower : g # f => reading'[g] = reading[g]
      /\ IF Len(backlog[f]) > 1 THEN reading'[f] = "replay"
         ELSE IF Head(backlog[f]) = endNo[follows[f]] THEN reading'[f] = "over"
         ELSE reading'[f] = "live"
  BY <1>1 DEF Replay, Gone, LogTypeOK
<1>7. ASSUME NEW i \in Job, Owed(f, i)'
      PROVE  EndUnderWay(f, i)'
  <2>1. Owed(f, i) /\ i = follows[f]
    BY <1>1, <1>2, <1>5, <1>7, StillOwed DEF Owed, jobSide
  <2>2. EndUnderWay(f, i)
    BY <2>1 DEF LogInv, Reach
  <2>3. CASE Last(backlog[f]) = endNo[i]
    BY <1>2, <1>3, <1>4, <1>6, <1>7, <2>1, <2>3 DEF Owed, EndUnderWay, jobSide
  <2>4. CASE Last(backlog[f]) # endNo[i]
    BY <1>2, <2>2, <2>4 DEF EndUnderWay, jobSide
  <2> QED
    BY <2>3, <2>4
<1> QED
  BY <1>1, <1>2, <1>3, <1>4, <1>5, <1>6, <1>7, FollowerKeeps DEF LogTypeOK

LEMMA ReadKeeps ==
  ASSUME LogInv, NEW f \in Follower, ReadNext(f)
  PROVE  LogInv'
<1>1. /\ LogTypeOK /\ inQueue[f] \in Seq(1..MaxEvents) /\ inQueue[f] # <<>>
      /\ follows[f] \in Job /\ reading[f] = "live"
  BY DEF ReadNext, LogInv, LogTypeOK, Following
<1>2. /\ inQueue' = [inQueue EXCEPT ![f] = Tail(inQueue[f])]
      /\ UNCHANGED <<jobSide, giving, arriving, follows, backlog, missedEnd>>
  BY DEF ReadNext
<1>3. /\ Tail(inQueue[f]) \in Seq(1..MaxEvents)
      /\ \A x \in ToSet(inQueue[f]) : x = Head(inQueue[f]) \/ x \in ToSet(Tail(inQueue[f]))
  BY <1>1, TakenFrom
<1>4. /\ inQueue' \in [Follower -> Seq(1..MaxEvents)] /\ inQueue'[f] = Tail(inQueue[f])
      /\ \A g \in Follower : g # f => inQueue'[g] = inQueue[g]
  BY <1>1, <1>2, <1>3 DEF LogTypeOK
<1>5. Keeps(archive, archive', endNo)
  BY <1>1, ArchiveKeeps, GoneKeeps DEF ReadNext
<1>6. /\ reading' \in [Follower -> {"new", "asked", "replay", "live", "over"}]
      /\ \A g \in Follower : g # f => reading'[g] = reading[g]
      /\ IF Head(inQueue[f]) = endNo[follows[f]] THEN reading'[f] = "over"
         ELSE reading'[f] = "live"
  BY <1>1 DEF ReadNext, Gone, LogTypeOK
<1>7. ASSUME NEW i \in Job, Owed(f, i)'
      PROVE  EndUnderWay(f, i)'
  <2>1. Owed(f, i) /\ i = follows[f]
    BY <1>1, <1>2, <1>5, <1>7, StillOwed DEF Owed, jobSide
  <2>2. EndUnderWay(f, i)
    BY <2>1 DEF LogInv, Reach
  <2>3. Head(inQueue[f]) # endNo[i]
    BY <1>6, <1>7, <2>1 DEF Owed
  <2> QED
    BY <1>1, <1>2, <1>3, <1>4, <2>2, <2>3 DEF EndUnderWay, jobSide
<1> QED
  BY <1>1, <1>2, <1>4, <1>5, <1>6, <1>7, FollowerKeeps DEF LogTypeOK

LEMMA ArriveKeeps ==
  ASSUME LogInv, NEW f \in Follower, Arrive(f)
  PROVE  LogInv'
<1> DEFINE x == Head(arriving[f])
<1>1. /\ LogTypeOK /\ arriving[f] \in Seq(1..MaxEvents) /\ arriving[f] # <<>>
      /\ inQueue[f] \in Seq(1..MaxEvents)
  BY DEF Arrive, LogInv, LogTypeOK
<1>2. /\ arriving' = [arriving EXCEPT ![f] = Tail(arriving[f])]
      /\ UNCHANGED <<jobSide, archive, giving, follows, reading, backlog>>
  BY DEF Arrive
<1>3. /\ x \in 1..MaxEvents /\ Tail(arriving[f]) \in Seq(1..MaxEvents)
      /\ \A y \in ToSet(arriving[f]) : y = x \/ y \in ToSet(Tail(arriving[f]))
  BY <1>1, TakenFrom
<1>4. /\ arriving' \in [Follower -> Seq(1..MaxEvents)] /\ arriving'[f] = Tail(arriving[f])
      /\ \A g \in Follower : g # f => arriving'[g] = arriving[g]
  BY <1>1, <1>2, <1>3 DEF LogTypeOK
<1>5. Keeps(archive, archive', endNo)
  BY <1>1, <1>2, ArchiveKeeps
<1>6. /\ inQueue' \in [Follower -> Seq(1..MaxEvents)]
      /\ missedEnd' \in [Follower -> BOOLEAN]
      /\ \A g \in Follower : g # f => inQueue'[g] = inQueue[g] /\ missedEnd'[g] = missedEnd[g]
      /\ missedEnd[f] => missedEnd'[f]
      /\ ToSet(inQueue[f]) \subseteq ToSet(inQueue'[f])
      /\ x \in ToSet(inQueue'[f]) \/ (x = endNo[follows[f]] => missedEnd'[f])
  <2>1. CASE Len(inQueue[f]) < QueueSize
    <3>1. inQueue' = [inQueue EXCEPT ![f] = Append(inQueue[f], x)] /\ missedEnd' = missedEnd
      BY <2>1 DEF Arrive
    <3>2. /\ x \in ToSet(Append(inQueue[f], x))
          /\ ToSet(inQueue[f]) \subseteq ToSet(Append(inQueue[f], x))
          /\ Append(inQueue[f], x) \in Seq(1..MaxEvents)
      BY <1>1, <1>3, AppendedTo
    <3> HIDE DEF x
    <3> QED
      BY <1>1, <3>1, <3>2 DEF LogTypeOK
  <2>2. CASE ~(Len(inQueue[f]) < QueueSize)
    <3>1. /\ missedEnd' = [missedEnd EXCEPT ![f] = missedEnd[f] \/ x = endNo[follows[f]]]
          /\ inQueue' = inQueue
      BY <2>2 DEF Arrive
    <3>2. missedEnd \in [Follower -> BOOLEAN] /\ inQueue \in [Follower -> Seq(1..MaxEvents)]
      BY <1>1 DEF LogTypeOK
    <3>3. /\ missedEnd' \in [Follower -> BOOLEAN]
          /\ \A g \in Follower : g # f => missedEnd'[g] = missedEnd[g]
          /\ missedEnd'[f] <=> (missedEnd[f] \/ x = endNo[follows[f]])
      <4> HIDE DEF x
      <4> QED
        BY <3>1, <3>2, Zenon
    <3> QED
      BY <3>1, <3>2, <3>3
  <2> QED
    BY <2>1, <2>2
<1>7. ASSUME NEW i \in Job, Owed(f, i)'
      PROVE  EndUnderWay(f, i)'
  <2>1. Owed(f, i) /\ i = follows[f]
    BY <1>2, <1>5, <1>6, <1>7, StillOwed DEF Owed, jobSide
  <2>2. EndUnderWay(f, i)
    BY <2>1 DEF LogInv, Reach
  <2>3. endNo[i] = x => x \in ToSet(inQueue'[f])
    BY <1>6, <1>7, <2>1 DEF Owed
  <2> HIDE DEF x
  <2> QED
    BY <1>2, <1>3, <1>4, <1>6, <2>2, <2>3 DEF EndUnderWay, jobSide
<1> HIDE DEF x
<1>8. reading[f] # "new" => follows[f] \in Job
  BY DEF LogInv, Following
<1>9. reading[f] = "replay" => backlog[f] # <<>>
  BY DEF LogInv, Following
<1> QED
  BY <1>1, <1>2, <1>4, <1>5, <1>6, <1>7, <1>8, <1>9, FollowerKeeps DEF LogTypeOK

LEMMA LeaveKeeps ==
  ASSUME LogInv, NEW f \in Follower, Leave(f)
  PROVE  LogInv'
<1>1. LogTypeOK /\ Gone(f) /\ follows[f] \in Job
  BY DEF Leave, LogInv, Following
<1>2. Keeps(archive, archive', endNo)
  BY <1>1, GoneKeeps
<1>3. /\ reading' = [reading EXCEPT ![f] = "over"]
      /\ UNCHANGED <<jobSide, giving, arriving, follows, backlog, inQueue, missedEnd>>
  BY DEF Leave, Gone
<1>4. reading'[f] = "over"
  BY <1>1, <1>3 DEF LogTypeOK
<1>5. \A i \in Job : ~Owed(f, i)'
  BY <1>4 DEF Owed
<1> QED
  BY <1>1, <1>2, <1>3, <1>4, <1>5, FollowerKeeps DEF LogTypeOK

-----------------------------------------------------------------------------
(* The results *)

LEMMA LogInvStarts == LogInit => LogInv
<1> SUFFICES ASSUME LogInit
             PROVE  LogInv
  OBVIOUS
<1>1. MaxEvents \in Nat /\ <<>> \in Seq(1..MaxEvents) /\ <<>> \in Seq(Job)
  BY LogBounds
<1>2. archive \in Archive
  BY <1>1 DEF LogInit, Archive
<1>3. giving \in [Emitter -> [job : Job \cup {NoJob}, no : 0..MaxEvents, to : SUBSET Follower]]
  BY <1>1 DEF LogInit
<1>4. LogTypeOK
  BY <1>1, <1>2, <1>3 DEF LogInit, LogTypeOK, Archive
<1>5. Counted /\ Following /\ EndKept /\ Reach
  BY DEF LogInit, Counted, Following, EndKept, Reach, Owed
<1> QED
  BY <1>4, <1>5 DEF LogInv

LEMMA LogInvKept == LogInv /\ [LogNext]_logVars => LogInv'
<1> SUFFICES ASSUME LogInv, [LogNext]_logVars
             PROVE  LogInv'
  OBVIOUS
<1>1. ASSUME NEW j \in Job, BeginJob(j) \/ EndCapture(j)
      PROVE  LogInv'
  BY <1>1, JobKeeps
<1>2. ASSUME NEW j \in Job, EmitEnd(j) \/ ReportLost(j)
      PROVE  LogInv'
  BY <1>2, EndKeeps
<1>3. ASSUME NEW j \in Job, NEW e \in Emitter, EmitLine(e, j)
      PROVE  LogInv'
  BY <1>3, LineKeeps
<1>4. ASSUME NEW e \in Emitter, PassOn(e)
      PROVE  LogInv'
  BY <1>4, PassOnKeeps
<1>5. ASSUME NEW f \in Follower,
             Subscribe(f) \/ Replay(f) \/ ReadNext(f) \/ Arrive(f) \/ Leave(f)
      PROVE  LogInv'
  BY <1>5, SubscribeKeeps, ReplayKeeps, ReadKeeps, ArriveKeeps, LeaveKeeps
<1>6. ASSUME NEW f \in Follower, NEW j \in Job, AskFor(f, j)
      PROVE  LogInv'
  BY <1>6, AskKeeps
<1>7. CASE UNCHANGED logVars
  <2>1. UNCHANGED <<stage, emitted, endNo, ends, archive, giving, arriving>>
    BY <1>7 DEF logVars, jobSide
  <2>2. UNCHANGED <<follows, reading, backlog, inQueue, missedEnd>>
    BY <1>7 DEF logVars, followerSide
  <2> QED
    BY <2>1, <2>2 DEF LogInv, LogTypeOK, Counted, Following, EndKept, Reach, Owed, EndUnderWay
<1> QED
  BY <1>1, <1>2, <1>3, <1>4, <1>5, <1>6, <1>7 DEF LogNext

LEMMA LogInvHolds == LogSpec => []LogInv
BY LogInvStarts, LogInvKept, PTL DEF LogSpec

(***************************************************************************)
(* The streams, queues and the archive of every task stay what they are    *)
(* (task_log_stream.py 95-318).                                            *)
(***************************************************************************)
THEOREM LogTypes == LogSpec => []LogTypeOK
<1>1. LogInv => LogTypeOK
  BY DEF LogInv
<1> QED
  BY <1>1, LogInvHolds, PTL

(***************************************************************************)
(* A stream that is open when its task has ended has the end before it:    *)
(* in what it replays, in its queue or on the event loop; unless its queue *)
(* was full, a thread logged after the end, or the tombstone was dropped   *)
(* (task_log_stream.py 118-214, subscribe, emit and _prune_locked).        *)
(***************************************************************************)
THEOREM EndsAreDelivered == LogSpec => []EndsReachFollowers
<1>1. LogInv => EndsReachFollowers
  <2> SUFFICES ASSUME LogInv, NEW f \in Joined, NEW j \in Job,
                      follows[f] = j, endNo[j] > 0, ~Unpromised(f)
               PROVE  EndUnderWay(f, j)
    BY DEF EndsReachFollowers
  <2>1. ~missedEnd[f] /\ ~(emitted[j] > endNo[j]) /\ j \notin archive.forgotten
    BY DEF Unpromised
  <2>2. emitted[j] \in Nat /\ endNo[j] \in Nat /\ endNo[j] <= emitted[j]
    BY LogBounds DEF LogInv, LogTypeOK, Counted
  <2>3. emitted[j] = endNo[j]
    BY <2>1, <2>2
  <2> QED
    BY <2>1, <2>3 DEF Joined, Owed, LogInv, Reach
<1> QED
  BY <1>1, LogInvHolds, PTL
=============================================================================
