------------------------ MODULE BookCompilation_proofs ------------------------
(***************************************************************************)
(* Proofs about the compilation of a book, for any pages, runtime objects, *)
(* failure limit, failures and requests.                                   *)
(*                                                                         *)
(* What compiles belongs to the registered runtime or to one that is given *)
(* up: Held.  A pause empties the runtime that is registered while it      *)
(* begins, and what comes to it from then on marks it as outlived:         *)
(* HaltsHold, which Held needs when the halt ends and drops the runtime.   *)
(* Nothing starts in a paused book: PausedIsQuiet.                         *)
(***************************************************************************)
EXTENDS BookCompilation, FiniteSetTheorems, SequenceTheorems, TLAPS

Held == \A s \in Slot : run[s] # "none" => s[1] = registered \/ s[1] \in outlived

HaltsHold ==
  \A s \in Slot : run[s] # "none" /\ BeingHalted(s[1]) => s[1] \in outlived

PausedIsQuiet ==
  manifest = "paused" =>
    \A s \in Slot : run[s] \in {"running", "saved"} => s[1] \in outlived

Owned == Held /\ HaltsHold /\ PausedIsQuiet

-----------------------------------------------------------------------------
(* The operators *)

\* The pages of a set in their order are a sequence of pages.
LEMMA InOrderIsSequence ==
  ASSUME NEW pages \in SUBSET BookPage, NEW list \in InOrder(pages)
  PROVE  list \in Seq(BookPage)
<1>1. IsFiniteSet(BookPage)
  BY FS_Interval, PagesIsCount DEF BookPage
<1>2. Cardinality(pages) \in Nat
  BY <1>1, FS_Subset, FS_CardinalityType
<1>3. list \in [1..Cardinality(pages) -> pages]
  BY DEF InOrder
<1>4. list \in Seq(pages)
  BY <1>2, <1>3
<1> QED
  BY <1>4, SeqMonotonic

\* Pages owed again keep what was written on them.
LEMMA StrandedPages ==
  ASSUME shelf \in [BookPage -> PageRecord]
  PROVE  /\ Stranded(shelf) \in [BookPage -> PageRecord]
         /\ \A p \in BookPage : Stranded(shelf)[p].edited = shelf[p].edited
BY DEF Stranded, PageRecord, Settled

-----------------------------------------------------------------------------
(* Types *)

LEMMA InitHasTypes == BookInit => BookTypeOK
BY PagesIsCount, BookNamesDiffer, EmptySeq
   DEF BookInit, BookTypeOK, Blank, NoBuild, NoRegen, NoSlot, PageRecord, Settled, Body

\* A runtime of the table is registered, or a new one.
LEMMA TableIsRuntime ==
  ASSUME registered \in BookRuntime \cup {NoRuntime}, NEW r \in Table
  PROVE  r \in BookRuntime /\ (r = registered \/ (registered = NoRuntime /\ r \in Fresh))
<1>1. CASE registered # NoRuntime
  BY <1>1 DEF Table
<1>2. CASE registered = NoRuntime
  <2>1. Fresh # {} /\ r = CHOOSE t \in BookRuntime : t \in Fresh
    BY <1>2 DEF Table
  <2>2. \E t \in BookRuntime : t \in Fresh
    BY <2>1 DEF Fresh
  <2>3. r \in BookRuntime /\ r \in Fresh
    BY <2>1, <2>2
  <2> QED
    BY <1>2, <2>3
<1> QED
  BY <1>1, <1>2

\* Whoever gives work to a runtime leaves a table of the same types.
LEMMA ClaimKeepsTypes ==
  ASSUME BookTypeOK, NEW r \in Table, NEW p \in BookPage, NEW force \in BOOLEAN,
         Claim(r, p, force)
  PROVE  /\ registered' \in BookRuntime
         /\ queue' \in [BookRuntime -> Seq(BookPage)]
         /\ queued' \in [BookRuntime -> SUBSET BookPage]
         /\ strikes' \in [BookRuntime -> 0..(StrikeLimit - 1)]
         /\ run' \in [Slot -> {"none", "begun", "running", "saved"}]
         /\ forced' \subseteq Slot
         /\ outlived' \subseteq BookRuntime
<1>1. r \in BookRuntime
  BY TableIsRuntime DEF BookTypeOK
<1> QED
  <2>1. registered' \in BookRuntime
    BY <1>1 DEF Claim
  <2>2. queue' \in [BookRuntime -> Seq(BookPage)] /\ queued' \in [BookRuntime -> SUBSET BookPage]
    BY <1>1, EmptySeq DEF Claim, InTable, BookTypeOK
  <2>3. strikes' \in [BookRuntime -> 0..(StrikeLimit - 1)]
    BY <1>1, PagesIsCount DEF Claim, InTable, BookTypeOK
  <2>4. run' \in [Slot -> {"none", "begun", "running", "saved"}] /\ forced' \subseteq Slot
    <3>1. <<r, p>> \in Slot
      BY <1>1 DEF Slot
    <3>2. /\ run' \in {run, [run EXCEPT ![<<r, p>>] = "begun"]}
          /\ forced' \in {forced, forced \cup {<<r, p>>}}
      BY DEF Claim
    <3> QED
      BY <3>1, <3>2 DEF BookTypeOK
  <2>5. outlived' \subseteq BookRuntime
    BY <1>1 DEF Claim, Touch, BookTypeOK
  <2> QED
    BY <2>1, <2>2, <2>3, <2>4, <2>5

LEMMA RequestKeepsTypes ==
  ASSUME BookTypeOK, NEW p \in BookPage,
         OpenPage(p) \/ ForcePage(p)
  PROVE  BookTypeOK'
<1>1. requests' \in Nat
  <2>1. Request
    BY DEF OpenPage, ForcePage
  <2> QED
    BY <2>1 DEF Request, BookTypeOK
<1>2. CASE OpenPage(p)
  <2>1. PICK r \in Table : Claim(r, p, FALSE)
    BY <1>2 DEF OpenPage
  <2> QED
    BY <1>1, <1>2, <2>1, ClaimKeepsTypes DEF BookTypeOK, OpenPage
<1>3. CASE ForcePage(p) /\ registered # NoRuntime /\ run[<<registered, p>>] # "none"
  BY <1>1, <1>3 DEF BookTypeOK, ForcePage, Slot
<1>4. CASE ForcePage(p) /\ ~(registered # NoRuntime /\ run[<<registered, p>>] # "none")
  <2>1. PICK r \in Table : Claim(r, p, TRUE)
    BY <1>4 DEF ForcePage
  <2> QED
    BY <1>1, <1>4, <2>1, ClaimKeepsTypes DEF BookTypeOK, ForcePage
<1> QED
  BY <1>2, <1>3, <1>4

LEMMA EndRunKeepsTypes ==
  ASSUME BookTypeOK, NEW s \in Slot, NEW outcome \in Outcome, EndRun(s, outcome)
  PROVE  /\ worker' \in [BookRuntime -> {"none", "idle"} \cup AtPage]
         /\ run' \in [Slot -> {"none", "begun", "running", "saved"}]
         /\ forced' \subseteq Slot
         /\ copy' \in [Slot -> PageRecord]
BY DEF BookTypeOK, AtPage, EndRun, Blank, PageRecord, Body

LEMMA CompileKeepsTypes ==
  ASSUME BookTypeOK, NEW s \in Slot,
         \/ WakeForced(s) \/ StartRun(s) \/ FinishRun(s) \/ SaveBlock(s) \/ RaiseRun(s)
         \/ \E status \in {"ready", "partial", "error"} : SavePage(s, status)
  PROVE  BookTypeOK'
<1>1. /\ s[1] \in BookRuntime /\ s[2] \in BookPage
      /\ copy[s] \in PageRecord /\ shelf[s[2]] \in PageRecord
  BY DEF Slot, BookTypeOK
<1>2. CASE WakeForced(s)
  BY <1>1, <1>2 DEF BookTypeOK, WakeForced
<1>3. CASE StartRun(s)
  <2> DEFINE page == shelf[s[2]]
  <2> DEFINE body == IF s \in forced /\ page.body = "full" THEN "part" ELSE page.body
  <2> DEFINE mine == [status |-> "generating", body |-> body, edited |-> page.edited]
  <2>1. mine \in PageRecord
    BY <1>1 DEF PageRecord, Body
  <2>2. \/ \E outcome \in Outcome : EndRun(s, outcome) /\ UNCHANGED shelf
        \/ /\ run' = [run EXCEPT ![s] = "running"]
           /\ copy' = [copy EXCEPT ![s] = mine]
           /\ shelf' = [shelf EXCEPT ![s[2]] = mine]
           /\ UNCHANGED <<worker, forced>>
    BY <1>3 DEF StartRun, Outcome
  <2>3. UNCHANGED <<manifest, registered, queue, queued, strikes, building, waiting,
                    halting, regen, outlived, failures, requests>>
    BY <1>3 DEF StartRun
  <2>4. CASE \E outcome \in Outcome : EndRun(s, outcome) /\ UNCHANGED shelf
    BY <2>3, <2>4, EndRunKeepsTypes DEF BookTypeOK
  <2>5. CASE /\ run' = [run EXCEPT ![s] = "running"]
             /\ copy' = [copy EXCEPT ![s] = mine]
             /\ shelf' = [shelf EXCEPT ![s[2]] = mine]
             /\ UNCHANGED <<worker, forced>>
    <3> HIDE DEF mine
    <3> QED
      BY <2>1, <2>3, <2>5 DEF BookTypeOK
  <2> QED
    BY <2>2, <2>4, <2>5
<1>4. CASE FinishRun(s)
  <2>1. PICK outcome \in Outcome : EndRun(s, outcome)
    BY <1>4 DEF FinishRun, Outcome
  <2>2. manifest' \in {"compiling", "paused", "ready"}
    BY <1>4 DEF FinishRun, Finalize, BookTypeOK
  <2> QED
    BY <1>4, <2>1, <2>2, EndRunKeepsTypes DEF BookTypeOK, FinishRun
<1>5. CASE SaveBlock(s)
  <2>1. copy' \in [Slot -> PageRecord] /\ copy'[s] \in PageRecord
    <3>1. [copy[s] EXCEPT !.body = "part"] \in PageRecord
      BY <1>1 DEF PageRecord, Body
    <3>2. copy' = [copy EXCEPT ![s] = [copy[s] EXCEPT !.body = "part"]]
      BY <1>5 DEF SaveBlock
    <3> QED
      BY <3>1, <3>2 DEF BookTypeOK
  <2> QED
    BY <1>5, <2>1 DEF BookTypeOK, SaveBlock
<1>6. CASE RaiseRun(s)
  <2>1. EndRun(s, "raised") /\ "raised" \in Outcome
    BY <1>6 DEF RaiseRun, Outcome
  <2>2. [copy[s] EXCEPT !.status = "error"] \in PageRecord
    BY <1>1 DEF PageRecord
  <2>3. shelf' \in [BookPage -> PageRecord] /\ failures' \in Nat
    <3> DEFINE broken == [copy[s] EXCEPT !.status = "error"]
    <3>1. shelf' = [shelf EXCEPT ![s[2]] = broken] /\ Failure
      BY <1>6 DEF RaiseRun
    <3>2. failures' \in Nat
      BY <3>1 DEF Failure, BookTypeOK
    <3> HIDE DEF broken
    <3>3. shelf' \in [BookPage -> PageRecord]
      BY <2>2, <3>1 DEF BookTypeOK, broken
    <3> QED
      BY <3>2, <3>3
  <2> QED
    BY <1>6, <2>1, <2>3, EndRunKeepsTypes DEF BookTypeOK, RaiseRun
<1>7. ASSUME NEW status \in {"ready", "partial", "error"}, SavePage(s, status)
      PROVE  BookTypeOK'
  <2>1. copy' \in [Slot -> PageRecord] /\ copy'[s] \in PageRecord
    BY <1>1, <1>7 DEF BookTypeOK, SavePage, PageRecord, Body, Settled
  <2>2. failures' \in Nat
    BY <1>7 DEF BookTypeOK, SavePage, Failure
  <2> QED
    BY <1>7, <2>1, <2>2 DEF BookTypeOK, SavePage
<1> QED
  BY <1>2, <1>3, <1>4, <1>5, <1>6, <1>7

LEMMA EnqueueKeepsTypes ==
  ASSUME BookTypeOK, NEW owed \in SUBSET BookPage, Enqueue(owed)
  PROVE  /\ registered' \in BookRuntime
         /\ queue' \in [BookRuntime -> Seq(BookPage)]
         /\ queued' \in [BookRuntime -> SUBSET BookPage]
         /\ strikes' \in [BookRuntime -> 0..(StrikeLimit - 1)]
         /\ worker' \in [BookRuntime -> {"none", "idle"} \cup AtPage]
         /\ outlived' \subseteq BookRuntime
<1> DEFINE guard(r) == IF r = registered THEN queued[r] ELSE {}
<1> DEFINE waits(r) == IF r = registered THEN queue[r] ELSE <<>>
<1>1. PICK r \in Table :
        /\ registered' = r /\ Touch(r)
        /\ \E list \in InOrder(owed \ guard(r)) : queue' = [queue EXCEPT ![r] = waits(r) \o list]
        /\ queued' = [queued EXCEPT ![r] = guard(r) \cup owed]
        /\ strikes' = [strikes EXCEPT ![r] = 0]
        /\ worker' = [worker EXCEPT ![r] = IF @ = "none" THEN "idle" ELSE @]
  BY DEF Enqueue
<1>2. r \in BookRuntime
  BY TableIsRuntime DEF BookTypeOK
<1>3. queue' \in [BookRuntime -> Seq(BookPage)]
  <2>1. PICK list \in InOrder(owed \ guard(r)) : queue' = [queue EXCEPT ![r] = waits(r) \o list]
    BY <1>1
  <2>2. list \in Seq(BookPage)
    BY InOrderIsSequence
  <2>3. waits(r) \in Seq(BookPage)
    BY <1>2, EmptySeq DEF BookTypeOK
  <2>4. waits(r) \o list \in Seq(BookPage)
    BY <2>2, <2>3, ConcatProperties
  <2> HIDE DEF waits
  <2> QED
    BY <2>1, <2>4 DEF BookTypeOK
<1>4. queued' \in [BookRuntime -> SUBSET BookPage]
  BY <1>1, <1>2 DEF BookTypeOK
<1>5. strikes' \in [BookRuntime -> 0..(StrikeLimit - 1)]
  BY <1>1, <1>2, PagesIsCount DEF BookTypeOK
<1>6. worker' \in [BookRuntime -> {"none", "idle"} \cup AtPage]
  BY <1>1, <1>2 DEF BookTypeOK
<1>7. outlived' \subseteq BookRuntime
  BY <1>1, <1>2 DEF Touch, BookTypeOK
<1> QED
  BY <1>1, <1>2, <1>3, <1>4, <1>5, <1>6, <1>7

LEMMA RequeueKeepsTypes ==
  ASSUME BookTypeOK, ResumeBook \/ OpenBook
  PROVE  BookTypeOK'
<1>1. Requeue /\ requests' \in Nat
  BY DEF ResumeBook, OpenBook, Request, BookTypeOK
<1>2. shelf' \in [BookPage -> PageRecord]
  BY <1>1, StrandedPages DEF Requeue, BookTypeOK
<1>3. UNCHANGED <<building, run, forced, copy, waiting, halting, regen, failures>>
  BY <1>1 DEF Requeue
<1>4. Unfinished(shelf') \subseteq BookPage
  BY DEF Unfinished
<1>5. CASE Unfinished(shelf') = {}
  BY <1>1, <1>2, <1>3, <1>5 DEF Requeue, Finalize, BookTypeOK
<1>6. CASE Unfinished(shelf') # {}
  <2>1. manifest' = "compiling" /\ Enqueue(Unfinished(shelf'))
    BY <1>1, <1>6 DEF Requeue
  <2>2. ASSUME NEW owed \in SUBSET BookPage, Enqueue(owed)
        PROVE  BookTypeOK'
    BY <1>1, <1>2, <1>3, <2>1, <2>2, EnqueueKeepsTypes DEF BookTypeOK
  <2> QED
    BY <1>4, <2>1, <2>2
<1> QED
  BY <1>5, <1>6

LEMMA RestoreKeepsShelf ==
  ASSUME BookTypeOK, NEW r \in BookRuntime, NEW status \in {"pending", "error"},
         Restore(r, status)
  PROVE  shelf' \in [BookPage -> PageRecord]
<1>1. [building[r].page EXCEPT !.status = status] \in PageRecord
  BY DEF BookTypeOK, PageRecord
<1> QED
  BY <1>1 DEF Restore, BookTypeOK

LEMMA WorkerKeepsTypes ==
  ASSUME BookTypeOK, NEW r \in BookRuntime,
         TakePage(r) \/ Settle(r) \/ Retire(r)
  PROVE  BookTypeOK'
<1>1. CASE Retire(r)
  BY <1>1 DEF BookTypeOK, Retire
<1>2. CASE Settle(r)
  <2>1. strikes' \in [BookRuntime -> 0..(StrikeLimit - 1)]
    <3>1. strikes[r] \in 0..(StrikeLimit - 1) /\ 0 \in 0..(StrikeLimit - 1)
      BY PagesIsCount DEF BookTypeOK
    <3>2. \/ strikes' = strikes
          \/ strikes' = [strikes EXCEPT ![r] = 0]
          \/ strikes[r] + 1 < StrikeLimit /\ strikes' = [strikes EXCEPT ![r] = strikes[r] + 1]
      BY <1>2 DEF Settle
    <3>3. strikes[r] + 1 < StrikeLimit => strikes[r] + 1 \in 0..(StrikeLimit - 1)
      BY <3>1, PagesIsCount
    <3> QED
      BY <3>1, <3>2, <3>3 DEF BookTypeOK
  <2>2. worker' \in [BookRuntime -> {"none", "idle"} \cup AtPage]
    BY <1>2 DEF BookTypeOK, Settle
  <2>3. shelf' \in [BookPage -> PageRecord]
    <3>1. UNCHANGED shelf \/ Restore(r, "error") \/ Restore(r, "pending")
      BY <1>2 DEF Settle
    <3> QED
      BY <3>1, RestoreKeepsShelf DEF BookTypeOK
  <2>4. queued' \in [BookRuntime -> SUBSET BookPage]
    BY <1>2 DEF BookTypeOK, Settle
  <2>5. building' \in [BookRuntime -> [slot : Slot \cup {NoSlot}, page : PageRecord]]
    BY <1>2 DEF BookTypeOK, Settle, NoBuild, Blank, PageRecord, Body
  <2> QED
    BY <1>2, <2>1, <2>2, <2>3, <2>4, <2>5 DEF BookTypeOK, Settle
<1>3. CASE TakePage(r)
  <2> DEFINE p == Head(queue[r])
             rest == [queue EXCEPT ![r] = Tail(@)]
             done == [queued EXCEPT ![r] = @ \ {p}]
  <2>1. queue[r] \in Seq(BookPage) /\ queue[r] # <<>>
    BY <1>3 DEF TakePage, BookTypeOK
  <2>2. p \in BookPage /\ Tail(queue[r]) \in Seq(BookPage)
    BY <2>1, HeadTailProperties
  <2>3. rest \in [BookRuntime -> Seq(BookPage)] /\ done \in [BookRuntime -> SUBSET BookPage]
    BY <2>2 DEF BookTypeOK
  <2>4. UNCHANGED <<manifest, copy, waiting, halting, regen, failures, requests>>
    BY <1>3 DEF TakePage
  <2>5. \/ /\ queue' = rest /\ queued' = done
           /\ worker' \in {worker, [worker EXCEPT ![r] = "none"]}
           /\ shelf' \in {shelf, [shelf EXCEPT ![p] = Stranded(shelf)[p]]}
           /\ UNCHANGED <<registered, strikes, building, run, forced, outlived>>
        \/ \E t \in Table :
             /\ registered' = t /\ Touch(t)
             /\ queue' = InTable(rest, t, <<>>)
             /\ queued' = InTable(queued, t, {})
             /\ strikes' = InTable(strikes, t, 0)
             /\ run' = [run EXCEPT ![<<t, p>>] = IF @ = "none" THEN "begun" ELSE @]
             /\ worker' = [worker EXCEPT ![r] = "building"]
             /\ building' = [building EXCEPT ![r] = [slot |-> <<t, p>>, page |-> Loaded(p)]]
             /\ UNCHANGED <<shelf, forced>>
    BY <1>3 DEF TakePage
  <2> HIDE DEF p, rest, done
  <2>6. CASE /\ queue' = rest /\ queued' = done
             /\ worker' \in {worker, [worker EXCEPT ![r] = "none"]}
             /\ shelf' \in {shelf, [shelf EXCEPT ![p] = Stranded(shelf)[p]]}
             /\ UNCHANGED <<registered, strikes, building, run, forced, outlived>>
    <3>1. Stranded(shelf)[p] \in PageRecord
      BY <2>2, StrandedPages DEF BookTypeOK
    <3>2. worker' \in [BookRuntime -> {"none", "idle"} \cup AtPage]
      BY <2>6 DEF BookTypeOK
    <3>3. shelf' \in [BookPage -> PageRecord]
      BY <2>6, <3>1 DEF BookTypeOK
    <3> QED
      BY <2>3, <2>4, <2>6, <3>2, <3>3 DEF BookTypeOK
  <2>7. ASSUME NEW t \in Table,
               registered' = t /\ Touch(t),
               queue' = InTable(rest, t, <<>>),
               queued' = InTable(queued, t, {}),
               strikes' = InTable(strikes, t, 0),
               run' = [run EXCEPT ![<<t, p>>] = IF @ = "none" THEN "begun" ELSE @],
               worker' = [worker EXCEPT ![r] = "building"],
               building' = [building EXCEPT ![r] = [slot |-> <<t, p>>, page |-> Loaded(p)]],
               UNCHANGED <<shelf, forced>>
        PROVE  BookTypeOK'
    <3>1. t \in BookRuntime
      BY TableIsRuntime DEF BookTypeOK
    <3>2. queue' \in [BookRuntime -> Seq(BookPage)]
      BY <2>3, <2>7, <3>1, EmptySeq DEF InTable
    <3>3. queued' \in [BookRuntime -> SUBSET BookPage]
      BY <2>7, <3>1 DEF InTable, BookTypeOK
    <3>4. strikes' \in [BookRuntime -> 0..(StrikeLimit - 1)]
      BY <2>7, <3>1, PagesIsCount DEF InTable, BookTypeOK
    <3>5. run' \in [Slot -> {"none", "begun", "running", "saved"}]
      BY <2>2, <2>7, <3>1 DEF BookTypeOK, Slot
    <3>6. worker' \in [BookRuntime -> {"none", "idle"} \cup AtPage]
      BY <2>7 DEF BookTypeOK, AtPage
    <3>7. building' \in [BookRuntime -> [slot : Slot \cup {NoSlot}, page : PageRecord]]
      <4>1. <<t, p>> \in Slot /\ Loaded(p) \in PageRecord
        BY <2>2, <3>1 DEF Slot, BookTypeOK, Loaded, Blank, PageRecord, Body
      <4>2. [slot |-> <<t, p>>, page |-> Loaded(p)] \in [slot : Slot \cup {NoSlot}, page : PageRecord]
        BY <4>1
      <4> QED
        BY <2>7, <4>2 DEF BookTypeOK
    <3>8. outlived' \subseteq BookRuntime
      BY <2>7, <3>1 DEF Touch, BookTypeOK
    <3> QED
      BY <2>4, <2>7, <3>1, <3>2, <3>3, <3>4, <3>5, <3>6, <3>7, <3>8 DEF BookTypeOK
  <2> QED
    BY <2>5, <2>6, <2>7
<1> QED
  BY <1>1, <1>2, <1>3

LEMMA HaltKeepsTypes ==
  ASSUME BookTypeOK, NEW h \in BookRuntime, NEW x \in BookRuntime \cup {Reader},
         Halt(h, x), halting' = [halting EXCEPT ![x] = h]
  PROVE  /\ queue' \in [BookRuntime -> Seq(BookPage)]
         /\ queued' \in [BookRuntime -> SUBSET BookPage]
         /\ strikes' \in [BookRuntime -> 0..(StrikeLimit - 1)]
         /\ worker' \in [BookRuntime -> {"none", "idle"} \cup AtPage]
         /\ building' \in [BookRuntime -> [slot : Slot \cup {NoSlot}, page : PageRecord]]
         /\ run' \in [Slot -> {"none", "begun", "running", "saved"}]
         /\ forced' \subseteq Slot
         /\ copy' \in [Slot -> PageRecord]
         /\ halting' \in [BookRuntime \cup {Reader} -> BookRuntime \cup {NoRuntime}]
<1>1. NoBuild \in [slot : Slot \cup {NoSlot}, page : PageRecord] /\ Blank \in PageRecord
  BY DEF NoBuild, Blank, PageRecord, Body
<1>2. /\ queue' \in [BookRuntime -> Seq(BookPage)] /\ queued' \in [BookRuntime -> SUBSET BookPage]
      /\ strikes' \in [BookRuntime -> 0..(StrikeLimit - 1)]
  BY PagesIsCount, EmptySeq DEF Halt, BookTypeOK
<1>3. /\ run' \in [Slot -> {"none", "begun", "running", "saved"}]
      /\ forced' \subseteq Slot /\ copy' \in [Slot -> PageRecord]
  BY <1>1 DEF Halt, BookTypeOK
<1>4. worker' \in [BookRuntime -> {"none", "idle"} \cup AtPage]
  BY DEF Halt, BookTypeOK
<1>5. building' \in [BookRuntime -> [slot : Slot \cup {NoSlot}, page : PageRecord]]
  BY <1>1 DEF Halt, BookTypeOK
<1>6. halting' \in [BookRuntime \cup {Reader} -> BookRuntime \cup {NoRuntime}]
  BY DEF BookTypeOK
<1> QED
  BY <1>2, <1>3, <1>4, <1>5, <1>6

LEMMA PauseKeepsTypes ==
  ASSUME BookTypeOK,
         PauseBook \/ PauseEnds \/ \E r \in BookRuntime : Trip(r) \/ TripEnds(r)
  PROVE  BookTypeOK'
<1>1. CASE PauseBook
  <2>1. requests' \in Nat
    BY <1>1 DEF PauseBook, Request, BookTypeOK
  <2>2. CASE registered = NoRuntime
    BY <1>1, <2>1, <2>2, StrandedPages DEF BookTypeOK, PauseBook
  <2>3. CASE registered # NoRuntime
    <3>1. /\ Halt(registered, Reader) /\ UNCHANGED shelf
          /\ halting' = [halting EXCEPT ![Reader] = registered]
      BY <1>1, <2>3 DEF PauseBook
    <3>2. registered \in BookRuntime
      BY <2>3 DEF BookTypeOK
    <3>3. UNCHANGED <<registered, waiting, regen, outlived, failures>> /\ manifest' = "paused"
      BY <1>1 DEF PauseBook
    <3> QED
      BY <2>1, <3>1, <3>2, <3>3, HaltKeepsTypes DEF BookTypeOK
  <2> QED
    BY <2>2, <2>3
<1>2. CASE PauseEnds
  <2>1. /\ shelf' \in [BookPage -> PageRecord]
        /\ registered' \in BookRuntime \cup {NoRuntime}
        /\ halting' \in [BookRuntime \cup {Reader} -> BookRuntime \cup {NoRuntime}]
    BY <1>2, StrandedPages DEF BookTypeOK, PauseEnds
  <2> QED
    BY <1>2, <2>1 DEF BookTypeOK, PauseEnds
<1>3. ASSUME NEW r \in BookRuntime, Trip(r)
      PROVE  BookTypeOK'
  <2>1. shelf' \in [BookPage -> PageRecord]
    <3>1. UNCHANGED shelf \/ Restore(r, "error")
      BY <1>3 DEF Trip
    <3> QED
      BY <3>1, RestoreKeepsShelf DEF BookTypeOK
  <2>2. UNCHANGED <<registered, waiting, regen, outlived, failures, requests>>
        /\ manifest' = "paused"
    BY <1>3 DEF Trip
  <2>3. CASE registered = NoRuntime
    <3>1. /\ worker' = [worker EXCEPT ![r] = "none"]
          /\ queued' = [queued EXCEPT ![r] = @ \ {building[r].slot[2]}]
          /\ building' = [building EXCEPT ![r] = NoBuild]
          /\ UNCHANGED <<queue, strikes, run, forced, copy, halting>>
      BY <1>3, <2>3 DEF Trip
    <3>2. building' \in [BookRuntime -> [slot : Slot \cup {NoSlot}, page : PageRecord]]
      BY <3>1 DEF BookTypeOK, NoBuild, Blank, PageRecord, Body
    <3>3. /\ worker' \in [BookRuntime -> {"none", "idle"} \cup AtPage]
          /\ queued' \in [BookRuntime -> SUBSET BookPage]
      BY <3>1 DEF BookTypeOK
    <3> QED
      BY <2>1, <2>2, <3>1, <3>2, <3>3 DEF BookTypeOK
  <2>4. CASE registered # NoRuntime
    <3>1. Halt(registered, r) /\ halting' = [halting EXCEPT ![r] = registered]
      BY <1>3, <2>4 DEF Trip
    <3>2. registered \in BookRuntime
      BY <2>4 DEF BookTypeOK
    <3> QED
      BY <2>1, <2>2, <3>1, <3>2, HaltKeepsTypes DEF BookTypeOK
  <2> QED
    BY <2>3, <2>4
<1>4. ASSUME NEW r \in BookRuntime, TripEnds(r)
      PROVE  BookTypeOK'
  BY <1>4 DEF BookTypeOK, TripEnds
<1> QED
  BY <1>1, <1>2, <1>3, <1>4

LEMMA OthersKeepTypes ==
  ASSUME BookTypeOK,
         \/ \E p \in BookPage : EditBlock(p) \/ Regenerate(p)
         \/ Regenerated \/ Restart
  PROVE  BookTypeOK'
<1>1. ASSUME NEW p \in BookPage, EditBlock(p)
      PROVE  BookTypeOK'
  <2>1. PICK status \in Settled :
          shelf' = [shelf EXCEPT ![p].edited = TRUE, ![p].status = status]
    BY <1>1 DEF EditBlock, Settled
  <2>2. shelf' \in [BookPage -> PageRecord]
    BY <2>1 DEF BookTypeOK, PageRecord
  <2>3. requests' \in Nat
    BY <1>1 DEF EditBlock, Request, BookTypeOK
  <2> QED
    BY <1>1, <2>2, <2>3 DEF BookTypeOK, EditBlock
<1>2. ASSUME NEW p \in BookPage, Regenerate(p)
      PROVE  BookTypeOK'
  <2>1. regen' \in [page : BookPage \cup {0}, copy : PageRecord]
    BY <1>2 DEF BookTypeOK, Regenerate
  <2>2. requests' \in Nat
    BY <1>2 DEF Regenerate, Request, BookTypeOK
  <2> QED
    BY <1>2, <2>1, <2>2 DEF BookTypeOK, Regenerate
<1>3. CASE Regenerated
  <2>1. PICK status \in Settled \cup {"error"} :
          shelf' = [shelf EXCEPT ![regen.page] = [regen.copy EXCEPT !.status = status]]
    BY <1>3 DEF Regenerated, Settled
  <2>2. [regen.copy EXCEPT !.status = status] \in PageRecord
    BY DEF BookTypeOK, PageRecord
  <2>3. shelf' \in [BookPage -> PageRecord]
    BY <2>1, <2>2 DEF BookTypeOK
  <2>4. failures' \in Nat /\ manifest' \in {"compiling", "paused", "ready"}
    BY <1>3 DEF Regenerated, Failure, Finalize, BookTypeOK
  <2>5. regen' \in [page : BookPage \cup {0}, copy : PageRecord]
    BY <1>3 DEF Regenerated, NoRegen, Blank, PageRecord, Body
  <2> QED
    BY <1>3, <2>3, <2>4, <2>5 DEF BookTypeOK, Regenerated
<1>4. CASE Restart
  BY <1>4, PagesIsCount, EmptySeq
     DEF BookTypeOK, Restart, Request, Unloaded, Blank, NoBuild, NoRegen, PageRecord, Body
<1> QED
  BY <1>1, <1>2, <1>3, <1>4

LEMMA StepKeepsTypes == BookTypeOK /\ [BookNext]_bookVars => BookTypeOK'
<1> SUFFICES ASSUME BookTypeOK, [BookNext]_bookVars
             PROVE  BookTypeOK'
  OBVIOUS
<1>1. CASE UNCHANGED bookVars
  BY <1>1 DEF bookVars, BookTypeOK
<1>2. CASE BookNext
  BY <1>2, RequestKeepsTypes, CompileKeepsTypes, RequeueKeepsTypes, WorkerKeepsTypes,
     PauseKeepsTypes, OthersKeepTypes DEF BookNext, Compile, Work
<1> QED
  BY <1>1, <1>2

(***************************************************************************)
(* The variables of a book and of its runtimes keep their types; the       *)
(* strikes stay below the limit at which the breaker trips.                *)
(***************************************************************************)
THEOREM BookTypes == BookSpec => []BookTypeOK
BY InitHasTypes, StepKeepsTypes, PTL DEF BookSpec

-----------------------------------------------------------------------------
(* What compiles belongs to the registered runtime *)

\* Nothing is compiled in a runtime that nobody refers to.
LEMMA FreshIsEmpty ==
  ASSUME BookTypeOK, NEW r \in Fresh
  PROVE  /\ r \in BookRuntime /\ r # registered /\ ~BeingHalted(r)
         /\ \A s \in Slot : s[1] = r => run[s] = "none"
<1>1. \A s \in Slot : s = <<s[1], s[2]>> /\ s[2] \in BookPage
  BY DEF Slot
<1> QED
  BY <1>1 DEF Fresh, BeingHalted

\* Work for a runtime of the table: it is registered and, if it is new, it was
\* empty; whoever gives it work while it is halted marks it.
LEMMA WorkKeepsOwned ==
  ASSUME BookTypeOK, Owned, NEW r \in Table,
         registered' = r, Touch(r), halting' = halting,
         manifest' # "paused" \/ manifest' = manifest,
         \A s \in Slot : \/ run'[s] = run[s]
                         \/ s[1] = r /\ run[s] = "none" /\ run'[s] = "begun"
  PROVE  Owned'
<1>1. \A x : BeingHalted(x)' <=> BeingHalted(x)
  BY DEF BeingHalted
<1>2. CASE r = registered
  <2>1. outlived \subseteq outlived' /\ (BeingHalted(r) => r \in outlived')
    BY <1>2 DEF Touch
  <2> QED
    BY <1>1, <1>2, <2>1 DEF Owned, Held, HaltsHold, PausedIsQuiet
<1>3. CASE r # registered
  <2>1. r \in Fresh /\ registered = NoRuntime
    BY <1>3, TableIsRuntime DEF BookTypeOK
  <2>2. /\ outlived' = outlived \ {r} /\ ~BeingHalted(r)
        /\ \A s \in Slot : s[1] = r => run[s] = "none"
    BY <1>3, <2>1, FreshIsEmpty DEF Touch
  <2>3. \A s \in Slot : s[1] \in BookRuntime
    BY DEF Slot
  <2>4. Held'
    BY <2>1, <2>2, <2>3, BookNamesDiffer DEF Owned, Held
  <2>5. HaltsHold'
    BY <1>1, <2>2 DEF Owned, HaltsHold
  <2>6. PausedIsQuiet'
    BY <2>2 DEF Owned, PausedIsQuiet
  <2> QED
    BY <2>4, <2>5, <2>6 DEF Owned
<1> QED
  BY <1>2, <1>3

\* A compilation that goes on stays where it is; one that ends is gone.
LEMMA RunningKeepsOwned ==
  ASSUME Owned, UNCHANGED <<registered, outlived, halting>>,
         manifest' = "paused" => manifest = "paused",
         \A s \in Slot : \/ run'[s] \in {run[s], "none"}
                         \/ run[s] # "none" /\ (manifest # "paused" \/ run[s] \in {"running", "saved"})
  PROVE  Owned'
<1>1. \A x : BeingHalted(x)' <=> BeingHalted(x)
  BY DEF BeingHalted
<1>2. Held' /\ HaltsHold'
  BY <1>1 DEF Owned, Held, HaltsHold
<1>3. PausedIsQuiet'
  BY DEF Owned, PausedIsQuiet
<1> QED
  BY <1>2, <1>3 DEF Owned

\* A halt ends: the runtime goes, and what it still compiles had been marked.
LEMMA HaltEndKeepsOwned ==
  ASSUME BookTypeOK, Owned, NEW x \in BookRuntime \cup {Reader},
         registered' = IF registered = halting[x] THEN NoRuntime ELSE registered,
         halting' = [halting EXCEPT ![x] = NoRuntime],
         UNCHANGED <<manifest, run, outlived>>
  PROVE  Owned'
<1>1. \A s \in Slot : s[1] \in BookRuntime
  BY DEF Slot
<1>2. DOMAIN halting' = DOMAIN halting /\ x \in DOMAIN halting
  BY DEF BookTypeOK
<1>3. \A r \in BookRuntime : BeingHalted(r)' => BeingHalted(r)
  BY <1>2, BookNamesDiffer DEF BeingHalted, BookTypeOK
<1>4. registered' # registered => BeingHalted(registered)
  BY <1>2 DEF BeingHalted
<1>5. Held'
  BY <1>1, <1>4 DEF Owned, Held, HaltsHold
<1>6. HaltsHold' /\ PausedIsQuiet'
  BY <1>1, <1>3 DEF Owned, HaltsHold, PausedIsQuiet
<1> QED
  BY <1>5, <1>6 DEF Owned

\* A halt begins: the registered runtime is empty, and the others were given up.
LEMMA HaltKeepsOwned ==
  ASSUME BookTypeOK, Owned, NEW x \in BookRuntime \cup {Reader},
         Halt(registered, x), UNCHANGED <<registered, outlived>>
  PROVE  Owned'
<1>1. \A s \in Slot : run'[s] = IF s[1] = registered THEN "none" ELSE run[s]
  BY DEF Halt
<1>2. \A s \in Slot : run'[s] # "none" => s[1] \in outlived'
  BY <1>1 DEF Owned, Held
<1> QED
  BY <1>2 DEF Owned, Held, HaltsHold, PausedIsQuiet

LEMMA GivingWorkKeepsOwned ==
  ASSUME BookTypeOK, Owned,
         \/ \E p \in BookPage : OpenPage(p) \/ ForcePage(p)
         \/ \E s \in Slot : WakeForced(s)
         \/ \E r \in BookRuntime : TakePage(r)
  PROVE  Owned'
<1>1. ASSUME NEW p \in BookPage, NEW r \in Table, NEW force \in BOOLEAN,
             Claim(r, p, force), UNCHANGED <<manifest, halting>>
      PROVE  Owned'
  <2>1. \A s \in Slot : \/ run'[s] = run[s]
                        \/ s[1] = r /\ run[s] = "none" /\ run'[s] = "begun"
    <3>1. run' \in {run, [run EXCEPT ![<<r, p>>] = "begun"]} /\ (run' # run => run[<<r, p>>] = "none")
      BY <1>1 DEF Claim
    <3>2. \A s \in Slot : s # <<r, p>> => run'[s] = run[s]
      BY <3>1 DEF BookTypeOK
    <3>3. <<r, p>> \in Slot => run'[<<r, p>>] \in {run[<<r, p>>], "begun"}
      BY <3>1 DEF BookTypeOK
    <3>4. CASE run' = run
      BY <3>4
    <3>5. CASE run[<<r, p>>] = "none"
      BY <3>2, <3>3, <3>5
    <3> QED
      BY <3>1, <3>4, <3>5
  <2> QED
    BY <1>1, <2>1, WorkKeepsOwned DEF Claim
<1>2. ASSUME NEW p \in BookPage, OpenPage(p)
      PROVE  Owned'
  BY <1>1, <1>2 DEF OpenPage
<1>3. ASSUME NEW p \in BookPage, ForcePage(p)
      PROVE  Owned'
  <2>1. CASE \E r \in Table : Claim(r, p, TRUE)
    BY <1>1, <1>3, <2>1 DEF ForcePage
  <2>2. CASE UNCHANGED <<registered, run, outlived>>
    BY <1>3, <2>2, RunningKeepsOwned DEF ForcePage
  <2> QED
    BY <1>3, <2>1, <2>2 DEF ForcePage
<1>4. ASSUME NEW s \in Slot, WakeForced(s)
      PROVE  Owned'
  <2>1. run' = [run EXCEPT ![s] = "begun"] /\ UNCHANGED <<manifest, registered, halting>>
    BY <1>4 DEF WakeForced
  <2>2. /\ outlived \subseteq outlived'
        /\ s[1] # registered \/ BeingHalted(s[1]) => s[1] \in outlived'
    BY <1>4 DEF WakeForced
  <2>3. \A t \in Slot : t # s => run'[t] = run[t]
    BY <2>1 DEF BookTypeOK
  <2>4. run'[s] = "begun"
    BY <2>1 DEF BookTypeOK
  <2>5. \A x : BeingHalted(x)' <=> BeingHalted(x)
    BY <2>1 DEF BeingHalted
  <2>6. Held'
    BY <2>1, <2>2, <2>3 DEF Owned, Held
  <2>7. HaltsHold'
    BY <2>1, <2>2, <2>3, <2>5 DEF Owned, HaltsHold
  <2>8. PausedIsQuiet'
    BY <2>1, <2>2, <2>3, <2>4 DEF Owned, PausedIsQuiet
  <2> QED
    BY <2>6, <2>7, <2>8 DEF Owned
<1>5. ASSUME NEW r \in BookRuntime, TakePage(r)
      PROVE  Owned'
  <2>1. manifest' = manifest /\ halting' = halting
    BY <1>5 DEF TakePage
  <2>2. \/ UNCHANGED <<registered, run, outlived>>
        \/ \E t \in Table :
             /\ registered' = t /\ Touch(t)
             /\ run' = [run EXCEPT ![<<t, Head(queue[r])>>] = IF @ = "none" THEN "begun" ELSE @]
    BY <1>5 DEF TakePage
  <2>3. CASE UNCHANGED <<registered, run, outlived>>
    BY <2>1, <2>3, RunningKeepsOwned
  <2>4. ASSUME NEW t \in Table, registered' = t, Touch(t),
               run' = [run EXCEPT ![<<t, Head(queue[r])>>] = IF @ = "none" THEN "begun" ELSE @]
        PROVE  Owned'
    <3>1. \A s \in Slot : \/ run'[s] = run[s]
                          \/ s[1] = t /\ run[s] = "none" /\ run'[s] = "begun"
      <4> DEFINE slot == <<t, Head(queue[r])>>
      <4>1. run' = [run EXCEPT ![slot] = IF run[slot] = "none" THEN "begun" ELSE run[slot]]
        BY <2>4
      <4>2. slot[1] = t
        OBVIOUS
      <4> HIDE DEF slot
      <4> QED
        BY <4>1, <4>2 DEF BookTypeOK
    <3> QED
      BY <2>1, <2>4, <3>1, WorkKeepsOwned
  <2> QED
    BY <2>2, <2>3, <2>4
<1> QED
  BY <1>2, <1>3, <1>4, <1>5

LEMMA CompilingKeepsOwned ==
  ASSUME BookTypeOK, Owned, NEW s \in Slot,
         \/ StartRun(s) \/ FinishRun(s) \/ SaveBlock(s) \/ RaiseRun(s)
         \/ \E status \in {"ready", "partial", "error"} : SavePage(s, status)
  PROVE  Owned'
<1>1. UNCHANGED <<registered, outlived, halting>> /\ (manifest' = "paused" => manifest = "paused")
  BY DEF StartRun, FinishRun, SaveBlock, RaiseRun, SavePage, Finalize
<1>2. CASE StartRun(s)
  <2>1. \/ run' = [run EXCEPT ![s] = "none"]
        \/ run' = [run EXCEPT ![s] = "running"] /\ run[s] = "begun" /\ manifest # "paused"
    BY <1>2 DEF StartRun, EndRun
  <2> QED
    BY <1>1, <2>1, RunningKeepsOwned DEF BookTypeOK
<1>3. CASE FinishRun(s) \/ RaiseRun(s)
  <2>1. run' = [run EXCEPT ![s] = "none"]
    BY <1>3 DEF FinishRun, RaiseRun, EndRun
  <2> QED
    BY <1>1, <2>1, RunningKeepsOwned DEF BookTypeOK
<1>4. CASE SaveBlock(s) \/ \E status \in {"ready", "partial", "error"} : SavePage(s, status)
  <2>1. run[s] = "running" /\ run' \in {run, [run EXCEPT ![s] = "saved"]}
    BY <1>4 DEF SaveBlock, SavePage
  <2> QED
    BY <1>1, <2>1, RunningKeepsOwned DEF BookTypeOK
<1> QED
  BY <1>2, <1>3, <1>4

LEMMA RequeueKeepsOwned ==
  ASSUME BookTypeOK, Owned, ResumeBook \/ OpenBook
  PROVE  Owned'
<1>1. Requeue
  BY DEF ResumeBook, OpenBook
<1>2. UNCHANGED <<run, halting>>
  BY <1>1 DEF Requeue
<1>3. CASE Unfinished(shelf') = {}
  <2>1. UNCHANGED <<registered, outlived>> /\ (manifest' = "paused" => manifest = "paused")
    BY <1>1, <1>3 DEF Requeue, Finalize
  <2> QED
    BY <1>2, <2>1, RunningKeepsOwned
<1>4. CASE Unfinished(shelf') # {}
  <2>1. manifest' = "compiling" /\ Enqueue(Unfinished(shelf'))
    BY <1>1, <1>4 DEF Requeue
  <2>2. PICK r \in Table : registered' = r /\ Touch(r)
    BY <2>1 DEF Enqueue
  <2> QED
    BY <1>2, <2>1, <2>2, WorkKeepsOwned
<1> QED
  BY <1>3, <1>4

LEMMA PausingKeepsOwned ==
  ASSUME BookTypeOK, Owned,
         PauseBook \/ PauseEnds \/ \E r \in BookRuntime : Trip(r) \/ TripEnds(r)
  PROVE  Owned'
<1>1. CASE PauseEnds
  BY <1>1, HaltEndKeepsOwned DEF PauseEnds
<1>2. ASSUME NEW r \in BookRuntime, TripEnds(r)
      PROVE  Owned'
  BY <1>2, HaltEndKeepsOwned DEF TripEnds
<1>3. ASSUME registered = NoRuntime, UNCHANGED <<registered, outlived, run, halting>>
      PROVE  Owned'
  <2>1. \A s \in Slot : s[1] # registered
    BY <1>3, BookNamesDiffer DEF Slot
  <2> QED
    BY <1>3, <2>1 DEF Owned, Held, HaltsHold, PausedIsQuiet
<1>4. CASE PauseBook
  BY <1>3, <1>4, HaltKeepsOwned DEF PauseBook
<1>5. ASSUME NEW r \in BookRuntime, Trip(r)
      PROVE  Owned'
  BY <1>3, <1>5, HaltKeepsOwned DEF Trip
<1> QED
  BY <1>1, <1>2, <1>4, <1>5

LEMMA OthersKeepOwned ==
  ASSUME BookTypeOK, Owned,
         \/ \E p \in BookPage : EditBlock(p) \/ Regenerate(p)
         \/ \E r \in BookRuntime : Settle(r) \/ Retire(r)
         \/ Regenerated \/ Restart
  PROVE  Owned'
<1>1. CASE \/ \E p \in BookPage : EditBlock(p) \/ Regenerate(p)
           \/ \E r \in BookRuntime : Settle(r)
           \/ Regenerated
  <2>1. /\ UNCHANGED <<registered, run, outlived, halting>>
        /\ manifest' = "paused" => manifest = "paused"
    BY <1>1 DEF EditBlock, Regenerate, Settle, Regenerated, Finalize
  <2> QED
    BY <2>1, RunningKeepsOwned
<1>2. ASSUME NEW r \in BookRuntime, Retire(r)
      PROVE  Owned'
  <2>1. /\ UNCHANGED <<manifest, run, outlived, halting>>
        /\ registered' = IF registered = r THEN NoRuntime ELSE registered
        /\ \A p \in BookPage : run[<<r, p>>] = "none"
    BY <1>2 DEF Retire
  <2>2. \A s \in Slot : s = <<s[1], s[2]>> /\ s[2] \in BookPage
    BY DEF Slot
  <2>3. \A s \in Slot : s[1] = r => run[s] = "none"
    BY <2>1, <2>2
  <2>4. \A x : BeingHalted(x)' <=> BeingHalted(x)
    BY <2>1 DEF BeingHalted
  <2> QED
    BY <2>1, <2>3, <2>4 DEF Owned, Held, HaltsHold, PausedIsQuiet
<1>3. CASE Restart
  <2>1. \A s \in Slot : run'[s] = "none"
    BY <1>3 DEF Restart, Unloaded
  <2> QED
    BY <2>1 DEF Owned, Held, HaltsHold, PausedIsQuiet
<1> QED
  BY <1>1, <1>2, <1>3

LEMMA OwnedHolds == BookSpec => []Owned
<1>1. BookInit => Owned
  BY DEF BookInit, Owned, Held, HaltsHold, PausedIsQuiet
<1>2. BookTypeOK /\ Owned /\ [BookNext]_bookVars => Owned'
  <2> SUFFICES ASSUME BookTypeOK, Owned, [BookNext]_bookVars
               PROVE  Owned'
    OBVIOUS
  <2>1. CASE UNCHANGED bookVars
    BY <2>1 DEF bookVars, Owned, Held, HaltsHold, PausedIsQuiet, BeingHalted
  <2>2. CASE BookNext
    BY <2>2, GivingWorkKeepsOwned, CompilingKeepsOwned, RequeueKeepsOwned,
       PausingKeepsOwned, OthersKeepOwned DEF BookNext, Compile, Work
  <2> QED
    BY <2>1, <2>2
<1> QED
  BY <1>1, <1>2, BookTypes, PTL DEF BookSpec

(***************************************************************************)
(* No page is compiled twice at once, for any number of pages and runtime  *)
(* objects, unless one of them was given work while it was halted or after *)
(* it was given up (engine.py compile_page, _halt_compilation).            *)
(***************************************************************************)
THEOREM OneCompilationPerPage == BookSpec => []OneRunPerPage
<1>1. Owned => OneRunPerPage
  <2>1. \A s, t \in Slot : s[1] = t[1] /\ s[2] = t[2] => s = t
    BY DEF Slot
  <2> QED
    BY <2>1 DEF Owned, Held, OneRunPerPage
<1> QED
  BY <1>1, OwnedHolds, PTL

(***************************************************************************)
(* Nothing is compiled in a paused book, with the same exception           *)
(* (engine.py pause_book, _pause_compilation, _compile_page_now).          *)
(***************************************************************************)
THEOREM PausesHold == BookSpec => []PauseHolds
<1>1. Owned => PauseHolds
  BY DEF Owned, PausedIsQuiet, PauseHolds
<1> QED
  BY <1>1, OwnedHolds, PTL

-----------------------------------------------------------------------------
(* What is queued is worked on *)

\* The pages in the queue of runtime r, and the page its worker is at.
Elements(list) == {list[i] : i \in DOMAIN list}
Distinct(list) == \A i, j \in DOMAIN list : list[i] = list[j] => i = j
Listed(r) == Elements(queue[r])
InHand(r) == IF worker[r] \in AtPage THEN {building[r].slot[2]} ELSE {}

(***************************************************************************)
(* A page is at most once in a queue, and not while the worker is at it;   *)
(* the set that guards the queue knows both.                               *)
(***************************************************************************)
Tidy(r) ==
  /\ Distinct(queue[r])
  /\ Listed(r) \cup InHand(r) \subseteq queued[r]
  /\ Listed(r) \cap InHand(r) = {}

QueuedOnce == \A r \in BookRuntime : Tidy(r)

(***************************************************************************)
(* A page that an enqueue passes over, because the guard has it, is in the *)
(* queue or in the hands of the worker.                                    *)
(***************************************************************************)
NoneForgotten ==
  registered # NoRuntime =>
    queued[registered] \subseteq Listed(registered) \cup InHand(registered)

(***************************************************************************)
(* A worker never awaits a compilation that is over.                       *)
(***************************************************************************)
WorkersAwaitRuns ==
  \A r \in BookRuntime :
    /\ worker[r] \in AtPage => building[r].slot \in Slot
    /\ worker[r] = "building" => run[building[r].slot] # "none"

(***************************************************************************)
(* As long as the book is compiled, a queue with pages in it has a worker. *)
(***************************************************************************)
QueuesAreServed ==
  manifest = "compiling" /\ registered # NoRuntime /\ queue[registered] # <<>>
    => worker[registered] # "none"

\* A worker whose page is refused works for a runtime that was given up: one
\* that is registered has no worker at a page while the book is paused.
RefusedIsGivenUp ==
  \A r \in BookRuntime :
    worker[r] = "refused" \/ (manifest = "paused" /\ worker[r] = "building") => r # registered

Queueing == QueuedOnce /\ NoneForgotten
Serving == WorkersAwaitRuns /\ QueuesAreServed /\ RefusedIsGivenUp

\* A set of pages in their order has each of them once.
LEMMA InOrderListsAll ==
  ASSUME NEW pages \in SUBSET BookPage, NEW list \in InOrder(pages)
  PROVE  Distinct(list) /\ Elements(list) = pages
<1> DEFINE n == Cardinality(pages)
<1>1. IsFiniteSet(BookPage)
  BY FS_Interval, PagesIsCount DEF BookPage
<1>2. n \in Nat /\ IsFiniteSet(pages)
  BY <1>1, FS_Subset, FS_CardinalityType
<1>3. list \in [1..n -> pages] /\ \A i, j \in DOMAIN list : i < j => list[i] < list[j]
  BY DEF InOrder
<1>4. \A i, j \in 1..n : list[i] = list[j] => i = j
  <2> HIDE DEF n
  <2> SUFFICES ASSUME NEW i \in 1..n, NEW j \in 1..n, list[i] = list[j]
               PROVE  i = j
    OBVIOUS
  <2>1. list[i] \in 1..Pages /\ list[j] \in 1..Pages
    BY <1>3 DEF BookPage
  <2>2. ~(i < j) /\ ~(j < i)
    BY <1>3, <2>1, PagesIsCount
  <2> QED
    BY <1>2, <2>2
<1>5. IsFiniteSet(1..n) /\ Cardinality(1..n) = n
  BY <1>2, FS_Interval
<1> HIDE DEF n
<1>6. list \in Injection(1..n, pages)
  BY <1>3, <1>4 DEF Injection, IsInjective
<1>7. Cardinality(1..n) = Cardinality(pages)
  BY <1>5 DEF n
<1>8. list \in Surjection(1..n, pages)
  BY <1>2, <1>6, <1>7, FS_Injection
<1> QED
  <2>1. DOMAIN list = 1..n /\ \A i \in 1..n : list[i] \in pages
    BY <1>3
  <2>2. \A p \in pages : \E i \in 1..n : list[i] = p
    BY <1>8 DEF Surjection
  <2>3. Distinct(list)
    BY <1>4, <2>1 DEF Distinct
  <2>4. Elements(list) = pages
    BY <2>1, <2>2 DEF Elements
  <2> QED
    BY <2>3, <2>4

\* Pages appended to a queue.
LEMMA ElementsOfConcat ==
  ASSUME NEW q \in Seq(BookPage), NEW list \in Seq(BookPage)
  PROVE  /\ Elements(q \o list) = Elements(q) \cup Elements(list)
         /\ Distinct(q) /\ Distinct(list) /\ Elements(q) \cap Elements(list) = {}
              => Distinct(q \o list)
<1> DEFINE both == q \o list
           m == Len(q)
           n == Len(list)
<1>1. /\ m \in Nat /\ n \in Nat /\ DOMAIN q = 1..m /\ DOMAIN list = 1..n
      /\ DOMAIN both = 1..(m + n)
      /\ \A i \in 1..(m + n) : both[i] = IF i <= m THEN q[i] ELSE list[i - m]
  BY ConcatProperties, LenProperties
<1> HIDE DEF m, n, both
<1>2. \A i \in 1..m : i \in 1..(m + n) /\ both[i] = q[i]
  BY <1>1
<1>3. \A i \in 1..n : m + i \in 1..(m + n) /\ both[m + i] = list[i]
  BY <1>1
<1>4. \A i \in 1..(m + n) : (i \in 1..m /\ both[i] = q[i]) \/ (i - m \in 1..n /\ both[i] = list[i - m])
  BY <1>1
<1>5. /\ \A p : p \in Elements(q) <=> \E i \in 1..m : q[i] = p
      /\ \A p : p \in Elements(list) <=> \E i \in 1..n : list[i] = p
      /\ \A p : p \in Elements(both) <=> \E i \in 1..(m + n) : both[i] = p
  BY <1>1 DEF Elements
<1>6. Elements(both) = Elements(q) \cup Elements(list)
  <2>1. ASSUME NEW p \in Elements(both)
        PROVE  p \in Elements(q) \cup Elements(list)
    <3>1. PICK i \in 1..(m + n) : both[i] = p
      BY <1>5, <2>1
    <3> QED
      BY <1>4, <1>5, <3>1
  <2>2. ASSUME NEW p, p \in Elements(q) \/ p \in Elements(list)
        PROVE  p \in Elements(both)
    <3>1. CASE \E i \in 1..m : q[i] = p
      BY <1>2, <1>5, <3>1
    <3>2. CASE \E i \in 1..n : list[i] = p
      BY <1>3, <1>5, <3>2
    <3> QED
      BY <1>5, <2>2, <3>1, <3>2
  <2> QED
    BY <2>1, <2>2
<1>7. ASSUME Distinct(q), Distinct(list), Elements(q) \cap Elements(list) = {},
             NEW i \in DOMAIN both, NEW j \in DOMAIN both, both[i] = both[j]
      PROVE  i = j
  <2>1. ASSUME NEW a \in 1..m, NEW b \in 1..n
        PROVE  q[a] # list[b]
    BY <1>5, <1>7
  <2>2. i \in 1..(m + n) /\ j \in 1..(m + n)
    BY <1>1, <1>7
  <2>3. \A a, b \in 1..m : q[a] = q[b] => a = b
    BY <1>1, <1>7 DEF Distinct
  <2>4. \A a, b \in 1..n : list[a] = list[b] => a = b
    BY <1>1, <1>7 DEF Distinct
  <2>5. CASE i \in 1..m /\ j \in 1..m /\ both[i] = q[i] /\ both[j] = q[j]
    BY <1>7, <2>3, <2>5
  <2>6. CASE i - m \in 1..n /\ j - m \in 1..n /\ both[i] = list[i - m] /\ both[j] = list[j - m]
    <3>1. i - m = j - m
      BY <1>7, <2>4, <2>6
    <3> QED
      BY <1>1, <2>2, <3>1
  <2> QED
    BY <1>4, <1>7, <2>1, <2>2, <2>5, <2>6
<1> QED
  BY <1>6, <1>7 DEF both, Distinct

\* What is left of a queue without its head.
LEMMA ElementsOfTail ==
  ASSUME NEW q \in Seq(BookPage), q # <<>>, Distinct(q)
  PROVE  /\ Distinct(Tail(q))
         /\ Elements(Tail(q)) = Elements(q) \ {Head(q)} /\ Head(q) \in Elements(q)
<1> DEFINE n == Len(q)
           t == Tail(q)
<1>1. /\ n \in Nat \ {0} /\ DOMAIN q = 1..n /\ DOMAIN t = 1..(n - 1)
      /\ \A i \in 1..(n - 1) : t[i] = q[i + 1]
      /\ Head(q) = q[1]
  BY HeadTailProperties, LenProperties, EmptySeq
<1> HIDE DEF n, t
<1>2. \A i \in 1..(n - 1) : i + 1 \in 1..n /\ i + 1 # 1
  BY <1>1
<1>3. \A i \in 1..n : i = 1 \/ (i - 1 \in 1..(n - 1) /\ t[i - 1] = q[i])
  BY <1>1
<1>4. \A i, j \in 1..n : q[i] = q[j] => i = j
  BY <1>1 DEF Distinct
<1>5. \A i, j \in 1..(n - 1) : t[i] = t[j] => i = j
  <2> SUFFICES ASSUME NEW i \in 1..(n - 1), NEW j \in 1..(n - 1), t[i] = t[j]
               PROVE  i = j
    OBVIOUS
  <2>1. q[i + 1] = q[j + 1]
    BY <1>1
  <2>2. i + 1 = j + 1
    BY <1>2, <1>4, <2>1
  <2> QED
    BY <1>1, <2>2
<1>6. 1 \in 1..n
  BY <1>1
<1>7. /\ \A p : p \in Elements(q) <=> \E i \in 1..n : q[i] = p
      /\ \A p : p \in Elements(t) <=> \E i \in 1..(n - 1) : t[i] = p
  BY <1>1 DEF Elements
<1>8. ASSUME NEW p \in Elements(t)
      PROVE  p \in Elements(q) /\ p # q[1]
  <2>1. PICK i \in 1..(n - 1) : t[i] = p
    BY <1>7, <1>8
  <2>2. q[i + 1] = p /\ i + 1 \in 1..n /\ i + 1 # 1
    BY <1>1, <1>2, <2>1
  <2> QED
    BY <1>4, <1>6, <1>7, <2>2
<1>9. ASSUME NEW p \in Elements(q), p # q[1]
      PROVE  p \in Elements(t)
  <2>1. PICK i \in 1..n : q[i] = p
    BY <1>7, <1>9
  <2> QED
    BY <1>3, <1>7, <1>9, <2>1
<1>10. Head(q) \in Elements(q)
  BY <1>1, <1>6, <1>7
<1>11. Elements(t) = Elements(q) \ {Head(q)}
  BY <1>1, <1>8, <1>9
<1>12. Distinct(t)
  BY <1>1, <1>5 DEF Distinct
<1> QED
  BY <1>10, <1>11, <1>12 DEF t

\* A runtime of which neither the queue nor the worker's page changes.
LEMMA SameStaysTidy ==
  ASSUME NEW r, Tidy(r), queue'[r] = queue[r], queued'[r] = queued[r], InHand(r)' = InHand(r)
  PROVE  Tidy(r)'
BY DEF Tidy, Listed

\* A runtime whose queue is empty and whose worker is at no page.
LEMMA EmptyIsTidy ==
  ASSUME NEW r, queue'[r] = <<>>, InHand(r)' = {}
  PROVE  Tidy(r)'
<1>1. Elements(<<>>) = {} /\ Distinct(<<>>)
  BY DEF Elements, Distinct
<1> QED
  BY <1>1 DEF Tidy, Listed

\* Nothing is queued or taken; the runtime may leave the table.
LEMMA IdleKeepsQueueing ==
  ASSUME Queueing, UNCHANGED <<queue, queued>>, registered' \in {registered, NoRuntime},
         \A r \in BookRuntime : InHand(r)' = InHand(r), BookTypeOK
  PROVE  Queueing'
<1>1. QueuedOnce'
  BY SameStaysTidy DEF Queueing, QueuedOnce
<1>2. NoneForgotten'
  BY DEF Queueing, NoneForgotten, Listed, BookTypeOK
<1> QED
  BY <1>1, <1>2 DEF Queueing

\* A compilation is over: its workers have the outcome in hand.
LEMMA EndRunKeepsHands ==
  ASSUME BookTypeOK, NEW s \in Slot, NEW outcome \in Outcome, EndRun(s, outcome),
         UNCHANGED building, NEW r \in BookRuntime
  PROVE  InHand(r)' = InHand(r)
<1>1. worker'[r] = worker[r] \/ (worker[r] = "building" /\ worker'[r] \in Outcome)
  BY DEF EndRun
<1> QED
  BY <1>1 DEF InHand, AtPage

\* A new runtime has an empty queue, and no worker.
LEMMA ClaimKeepsQueueing ==
  ASSUME BookTypeOK, Queueing, NEW r \in Table, NEW p, NEW force, Claim(r, p, force),
         UNCHANGED <<worker, building>>
  PROVE  Queueing'
<1>1. /\ registered' = r /\ queue' = InTable(queue, r, <<>>)
      /\ queued' = InTable(queued, r, {})
  BY DEF Claim
<1>2. r \in BookRuntime /\ (r = registered \/ (registered = NoRuntime /\ r \in Fresh))
  BY TableIsRuntime DEF BookTypeOK
<1>3. \A t : InHand(t)' = InHand(t)
  BY DEF InHand
<1>4. CASE r = registered
  BY <1>1, <1>3, <1>4, IdleKeepsQueueing DEF InTable
<1>5. CASE r # registered
  <2>1. r \in Fresh /\ worker[r] = "none"
    BY <1>2, <1>5 DEF Fresh
  <2>2. /\ queue' = [queue EXCEPT ![r] = <<>>] /\ queued' = [queued EXCEPT ![r] = {}]
        /\ InHand(r)' = {}
    BY <1>1, <1>3, <1>5, <2>1 DEF InTable, InHand, AtPage, Outcome
  <2>3. \A t \in BookRuntime : Tidy(t)'
    <3>1. Tidy(r)'
      BY <1>2, <2>2, EmptyIsTidy DEF BookTypeOK
    <3>2. ASSUME NEW t \in BookRuntime, t # r
          PROVE  Tidy(t)'
      BY <1>3, <2>2, <3>2, SameStaysTidy DEF BookTypeOK, Queueing, QueuedOnce
    <3> QED
      BY <3>1, <3>2
  <2>4. NoneForgotten'
    BY <1>1, <1>2, <2>2 DEF NoneForgotten, BookTypeOK
  <2> QED
    BY <2>3, <2>4 DEF Queueing, QueuedOnce
<1> QED
  BY <1>4, <1>5

\* The pages that the guard does not have are queued behind the others.
LEMMA EnqueueKeepsQueueing ==
  ASSUME BookTypeOK, Queueing, NEW owed \in SUBSET BookPage, Enqueue(owed),
         UNCHANGED building
  PROVE  Queueing'
<1> DEFINE guard(r) == IF r = registered THEN queued[r] ELSE {}
           waits(r) == IF r = registered THEN queue[r] ELSE <<>>
<1>0. PICK r \in Table :
        /\ registered' = r
        /\ \E list \in InOrder(owed \ guard(r)) : queue' = [queue EXCEPT ![r] = waits(r) \o list]
        /\ queued' = [queued EXCEPT ![r] = guard(r) \cup owed]
        /\ worker' = [worker EXCEPT ![r] = IF @ = "none" THEN "idle" ELSE @]
  BY DEF Enqueue
<1>1. PICK list \in InOrder(owed \ guard(r)) : queue' = [queue EXCEPT ![r] = waits(r) \o list]
  BY <1>0
<1>2. r \in BookRuntime /\ (r = registered \/ (registered = NoRuntime /\ r \in Fresh))
  BY TableIsRuntime DEF BookTypeOK
<1>3. \A t \in BookRuntime : InHand(t)' = InHand(t)
  BY <1>0, <1>2 DEF InHand, AtPage, Outcome, BookTypeOK
<1>4. /\ waits(r) \in Seq(BookPage) /\ Distinct(waits(r))
      /\ Elements(waits(r)) \cup InHand(r) \subseteq guard(r)
      /\ Elements(waits(r)) \cap InHand(r) = {}
      /\ guard(r) \subseteq Elements(waits(r)) \cup InHand(r)
  <2>1. CASE r = registered
    BY <1>2, <2>1, BookNamesDiffer
       DEF Queueing, QueuedOnce, Tidy, NoneForgotten, Listed, BookTypeOK
  <2>2. CASE r # registered
    <3>1. worker[r] = "none"
      BY <1>2, <2>2 DEF Fresh
    <3>2. InHand(r) = {} /\ guard(r) = {} /\ waits(r) = <<>>
      BY <2>2, <3>1 DEF InHand, AtPage, Outcome
    <3>3. Elements(<<>>) = {} /\ Distinct(<<>>) /\ <<>> \in Seq(BookPage)
      BY EmptySeq DEF Elements, Distinct
    <3> QED
      BY <3>2, <3>3
  <2> QED
    BY <2>1, <2>2
<1> HIDE DEF guard, waits
<1>5. list \in Seq(BookPage) /\ Distinct(list) /\ Elements(list) = owed \ guard(r)
  <2>1. owed \ guard(r) \in SUBSET BookPage
    OBVIOUS
  <2> QED
    BY <2>1, InOrderIsSequence, InOrderListsAll
<1>6. /\ Elements(waits(r) \o list) = Elements(waits(r)) \cup (owed \ guard(r))
      /\ Distinct(waits(r) \o list)
  BY <1>4, <1>5, ElementsOfConcat
<1>7. queue'[r] = waits(r) \o list /\ queued'[r] = guard(r) \cup owed
  BY <1>0, <1>1, <1>2 DEF BookTypeOK
<1>8. Tidy(r)'
  BY <1>2, <1>3, <1>4, <1>6, <1>7 DEF Tidy, Listed
<1>9. ASSUME NEW t \in BookRuntime, t # r
      PROVE  Tidy(t)'
  BY <1>0, <1>1, <1>3, <1>9, SameStaysTidy DEF BookTypeOK, Queueing, QueuedOnce
<1>10. NoneForgotten'
  BY <1>0, <1>2, <1>3, <1>4, <1>6, <1>7 DEF NoneForgotten, Listed
<1> QED
  BY <1>8, <1>9, <1>10 DEF Queueing, QueuedOnce

\* The head of the queue goes to the worker's hands, or needs no work.
LEMMA TakePageKeepsQueueing ==
  ASSUME BookTypeOK, Queueing, NEW r \in BookRuntime, TakePage(r)
  PROVE  Queueing'
<1> DEFINE p == Head(queue[r])
           rest == [queue EXCEPT ![r] = Tail(@)]
           done == [queued EXCEPT ![r] = @ \ {p}]
<1>1. worker[r] = "idle" /\ queue[r] \in Seq(BookPage) /\ queue[r] # <<>> /\ Tidy(r)
  BY DEF TakePage, BookTypeOK, Queueing, QueuedOnce
<1>2. InHand(r) = {}
  BY <1>1 DEF InHand, AtPage, Outcome
<1>3. /\ Distinct(Tail(queue[r])) /\ Elements(Tail(queue[r])) = Listed(r) \ {p}
      /\ p \in Listed(r)
  BY <1>1, ElementsOfTail DEF Tidy, Listed
<1>4. rest[r] = Tail(queue[r]) /\ \A t \in BookRuntime : t # r => rest[t] = queue[t]
  BY DEF BookTypeOK
<1>5. done[r] = queued[r] \ {p} /\ \A t \in BookRuntime : t # r => done[t] = queued[t]
  BY DEF BookTypeOK
<1>6. \/ /\ queue' = rest /\ queued' = done
         /\ worker' \in {worker, [worker EXCEPT ![r] = "none"]}
         /\ UNCHANGED <<registered, building>>
      \/ \E t \in Table :
           /\ registered' = t
           /\ queue' = InTable(rest, t, <<>>)
           /\ queued' = InTable(queued, t, {})
           /\ worker' = [worker EXCEPT ![r] = "building"]
           /\ building' = [building EXCEPT ![r] = [slot |-> <<t, p>>, page |-> Loaded(p)]]
  BY DEF TakePage
<1> HIDE DEF p, rest, done
<1>7. CASE /\ queue' = rest /\ queued' = done
           /\ worker' \in {worker, [worker EXCEPT ![r] = "none"]}
           /\ UNCHANGED <<registered, building>>
  <2>1. \A t \in BookRuntime : InHand(t)' = InHand(t)
    BY <1>1, <1>7 DEF InHand, AtPage, Outcome, BookTypeOK
  <2>2. Tidy(r)'
    BY <1>1, <1>2, <1>3, <1>4, <1>5, <1>7, <2>1 DEF Tidy, Listed
  <2>3. ASSUME NEW t \in BookRuntime, t # r
        PROVE  Tidy(t)'
    BY <1>4, <1>5, <1>7, <2>1, <2>3, SameStaysTidy DEF Queueing, QueuedOnce
  <2>4. NoneForgotten'
    <3>1. CASE registered = r
      BY <1>2, <1>3, <1>4, <1>5, <1>7, <2>1, <3>1 DEF Queueing, NoneForgotten, Listed
    <3>2. CASE registered # r
      BY <1>4, <1>5, <1>7, <2>1, <3>2 DEF Queueing, NoneForgotten, Listed, BookTypeOK
    <3> QED
      BY <3>1, <3>2
  <2> QED
    BY <2>2, <2>3, <2>4 DEF Queueing, QueuedOnce
<1>8. ASSUME NEW t \in Table,
             registered' = t,
             queue' = InTable(rest, t, <<>>),
             queued' = InTable(queued, t, {}),
             worker' = [worker EXCEPT ![r] = "building"],
             building' = [building EXCEPT ![r] = [slot |-> <<t, p>>, page |-> Loaded(p)]]
      PROVE  Queueing'
  <2>1. t \in BookRuntime /\ (t = registered \/ (registered = NoRuntime /\ t \in Fresh))
    BY TableIsRuntime DEF BookTypeOK
  <2>2. t # registered => t # r /\ worker[t] = "none"
    BY <1>1, <2>1 DEF Fresh
  <2>3. InHand(r)' = {p}
    <3>1. worker'[r] = "building" /\ building'[r].slot[2] = p
      BY <1>8 DEF BookTypeOK
    <3> QED
      BY <3>1 DEF InHand, AtPage
  <2>4. \A x \in BookRuntime : x # r => InHand(x)' = InHand(x)
    BY <1>8 DEF InHand, BookTypeOK
  <2>5. queue'[r] = Tail(queue[r]) /\ queued'[r] = queued[r]
    BY <1>4, <1>8, <2>1, <2>2 DEF InTable, BookTypeOK, rest
  <2>6. Tidy(r)'
    BY <1>1, <1>3, <2>3, <2>5 DEF Tidy, Listed
  <2>7. ASSUME NEW x \in BookRuntime, x # r, x = registered \/ x # t
        PROVE  queue'[x] = queue[x] /\ queued'[x] = queued[x]
    BY <1>4, <1>8, <2>1, <2>7 DEF InTable, BookTypeOK, rest
  <2>8. ASSUME t # registered
        PROVE  queue'[t] = <<>> /\ queued'[t] = {} /\ InHand(t)' = {}
    <3>1. queue'[t] = <<>> /\ queued'[t] = {}
      BY <1>8, <2>1, <2>8 DEF InTable, BookTypeOK, rest
    <3>2. InHand(t)' = {}
      BY <2>1, <2>2, <2>4, <2>8 DEF InHand, AtPage, Outcome
    <3> QED
      BY <3>1, <3>2
  <2>9. ASSUME NEW x \in BookRuntime
        PROVE  Tidy(x)'
    <3>1. CASE x = r
      BY <2>6, <3>1
    <3>2. CASE x # r /\ (x = registered \/ x # t)
      BY <2>4, <2>7, <3>2, SameStaysTidy DEF Queueing, QueuedOnce
    <3>3. CASE x = t /\ t # registered
      BY <2>8, <3>3, EmptyIsTidy
    <3> QED
      BY <3>1, <3>2, <3>3
  <2>10. NoneForgotten'
    <3>1. CASE t # registered
      BY <1>8, <2>8, <3>1 DEF NoneForgotten
    <3>2. CASE t = registered /\ t # r
      BY <1>8, <2>1, <2>4, <2>7, <3>2, BookNamesDiffer DEF Queueing, NoneForgotten, Listed
    <3>3. CASE t = registered /\ t = r
      BY <1>2, <1>3, <1>8, <2>1, <2>3, <2>5, <3>3, BookNamesDiffer
         DEF Queueing, NoneForgotten, Listed
    <3> QED
      BY <3>1, <3>2, <3>3
  <2> QED
    BY <2>9, <2>10 DEF Queueing, QueuedOnce
<1> QED
  BY <1>6, <1>7, <1>8

\* The worker has done with its page, which leaves its hands and the guard.
LEMMA LettingGoKeepsQueueing ==
  ASSUME BookTypeOK, Queueing, NEW r \in BookRuntime, worker[r] \in AtPage,
         worker'[r] \notin AtPage, \A t \in BookRuntime : t # r => worker'[t] = worker[t],
         queued' = [queued EXCEPT ![r] = @ \ {building[r].slot[2]}],
         building' = [building EXCEPT ![r] = NoBuild],
         UNCHANGED <<queue, registered>>
  PROVE  Queueing'
<1>1. InHand(r) = {building[r].slot[2]} /\ InHand(r)' = {}
  BY DEF InHand
<1>2. queued'[r] = queued[r] \ InHand(r)
  BY <1>1 DEF BookTypeOK
<1>3. Tidy(r)'
  BY <1>1, <1>2 DEF Queueing, QueuedOnce, Tidy, Listed
<1>4. ASSUME NEW t \in BookRuntime, t # r
      PROVE  queued'[t] = queued[t] /\ InHand(t)' = InHand(t)
  BY <1>4 DEF InHand, BookTypeOK
<1>5. ASSUME NEW t \in BookRuntime, t # r
      PROVE  Tidy(t)'
  BY <1>4, <1>5, SameStaysTidy DEF Queueing, QueuedOnce
<1>6. NoneForgotten'
  <2>1. CASE registered = r
    BY <1>1, <1>2, <2>1 DEF Queueing, NoneForgotten, Listed
  <2>2. CASE registered # r
    BY <1>4, <2>2 DEF Queueing, NoneForgotten, Listed, BookTypeOK
  <2> QED
    BY <2>1, <2>2
<1> QED
  BY <1>3, <1>5, <1>6 DEF Queueing, QueuedOnce

\* A halt empties the registered runtime; a worker it stops has nothing in hand.
LEMMA HaltKeepsQueueing ==
  ASSUME BookTypeOK, Queueing, registered \in BookRuntime, NEW x,
         Halt(registered, x), UNCHANGED registered
  PROVE  Queueing'
<1>1. /\ queue' = [queue EXCEPT ![registered] = <<>>]
      /\ queued' = [queued EXCEPT ![registered] = {}]
      /\ \A r \in BookRuntime : worker'[r] \in {worker[r], "none"}
      /\ worker'[registered] = "none"
      /\ \A r \in BookRuntime : worker'[r] \in AtPage => building'[r] = building[r]
  BY DEF Halt
<1>2. "none" \notin AtPage
  BY DEF AtPage, Outcome
<1>3. ASSUME NEW r \in BookRuntime
      PROVE  InHand(r)' = {} \/ InHand(r)' = InHand(r)
  BY <1>1, <1>2 DEF InHand
<1>4. Tidy(registered)'
  <2>1. queue'[registered] = <<>> /\ InHand(registered)' = {}
    BY <1>1, <1>2 DEF InHand, BookTypeOK
  <2> QED
    BY <2>1, EmptyIsTidy
<1>5. ASSUME NEW r \in BookRuntime, r # registered
      PROVE  Tidy(r)'
  <2>1. queue'[r] = queue[r] /\ queued'[r] = queued[r]
    BY <1>1, <1>5 DEF BookTypeOK
  <2> QED
    BY <1>3, <2>1 DEF Tidy, Listed, Queueing, QueuedOnce
<1>6. NoneForgotten'
  BY <1>1 DEF NoneForgotten, BookTypeOK
<1> QED
  BY <1>4, <1>5, <1>6 DEF Queueing, QueuedOnce

LEMMA OthersKeepQueueing ==
  ASSUME BookTypeOK, Queueing,
         \/ \E p \in BookPage : EditBlock(p) \/ Regenerate(p)
         \/ \E s \in Slot : \/ WakeForced(s) \/ Compile(s) \/ SaveBlock(s) \/ RaiseRun(s)
                            \/ \E status \in {"partial", "error"} : SavePage(s, status)
         \/ \E r \in BookRuntime : Settle(r) \/ Trip(r) \/ TripEnds(r) \/ Retire(r)
         \/ PauseBook \/ PauseEnds \/ Regenerated \/ Restart
  PROVE  Queueing'
<1>1. ASSUME UNCHANGED <<queue, queued, worker, building>>, registered' \in {registered, NoRuntime}
      PROVE  Queueing'
  <2>1. \A r \in BookRuntime : InHand(r)' = InHand(r)
    BY <1>1 DEF InHand
  <2> QED
    BY <1>1, <2>1, IdleKeepsQueueing
<1>2. CASE \/ \E p \in BookPage : EditBlock(p) \/ Regenerate(p)
           \/ \E s \in Slot : \/ WakeForced(s) \/ SaveBlock(s)
                              \/ \E status \in {"ready", "partial", "error"} : SavePage(s, status)
           \/ \E r \in BookRuntime : TripEnds(r)
           \/ PauseEnds \/ Regenerated
  <2>1. UNCHANGED <<queue, queued, worker, building>> /\ registered' \in {registered, NoRuntime}
    BY <1>2 DEF EditBlock, Regenerate, WakeForced, SaveBlock, SavePage, TripEnds, PauseEnds, Regenerated
  <2> QED
    BY <1>1, <2>1
<1>3. ASSUME NEW s \in Slot, StartRun(s) \/ FinishRun(s) \/ RaiseRun(s)
      PROVE  Queueing'
  <2>1. /\ UNCHANGED <<queue, queued, building, registered>>
        /\ UNCHANGED worker \/ \E outcome \in Outcome : EndRun(s, outcome)
    BY <1>3 DEF StartRun, FinishRun, RaiseRun, Outcome
  <2>2. CASE UNCHANGED worker
    BY <1>1, <2>1, <2>2
  <2>3. CASE \E outcome \in Outcome : EndRun(s, outcome)
    BY <2>1, <2>3, EndRunKeepsHands, IdleKeepsQueueing
  <2> QED
    BY <2>1, <2>2, <2>3
<1>4. ASSUME NEW r \in BookRuntime, Settle(r)
      PROVE  Queueing'
  <2>1. /\ worker[r] \in AtPage
        /\ worker' \in {[worker EXCEPT ![r] = "idle"], [worker EXCEPT ![r] = "none"]}
    BY <1>4 DEF Settle, AtPage, Outcome
  <2>2. worker'[r] \notin AtPage /\ \A t \in BookRuntime : t # r => worker'[t] = worker[t]
    BY <2>1 DEF AtPage, Outcome, BookTypeOK
  <2> QED
    BY <1>4, <2>1, <2>2, LettingGoKeepsQueueing DEF Settle
<1>5. ASSUME NEW r \in BookRuntime, Trip(r)
      PROVE  Queueing'
  <2>1. CASE registered = NoRuntime
    <3>1. worker[r] \in AtPage /\ worker' = [worker EXCEPT ![r] = "none"]
      BY <1>5, <2>1 DEF Trip, AtPage, Outcome
    <3>2. worker'[r] \notin AtPage /\ \A t \in BookRuntime : t # r => worker'[t] = worker[t]
      BY <3>1 DEF AtPage, Outcome, BookTypeOK
    <3> QED
      BY <1>5, <2>1, <3>1, <3>2, LettingGoKeepsQueueing DEF Trip
  <2>2. CASE registered # NoRuntime
    BY <1>5, <2>2, HaltKeepsQueueing DEF Trip, BookTypeOK
  <2> QED
    BY <2>1, <2>2
<1>6. CASE PauseBook
  <2>1. CASE registered = NoRuntime
    BY <1>1, <1>6, <2>1 DEF PauseBook
  <2>2. CASE registered # NoRuntime
    BY <1>6, <2>2, HaltKeepsQueueing DEF PauseBook, BookTypeOK
  <2> QED
    BY <2>1, <2>2
<1>7. ASSUME NEW r \in BookRuntime, Retire(r)
      PROVE  Queueing'
  <2>1. \A t \in BookRuntime : InHand(t)' = InHand(t)
    BY <1>7 DEF Retire, InHand, AtPage, Outcome, BookTypeOK
  <2> QED
    BY <1>7, <2>1, IdleKeepsQueueing DEF Retire
<1>8. CASE Restart
  <2>1. /\ registered' = NoRuntime
        /\ \A r \in BookRuntime : queue'[r] = <<>> /\ InHand(r)' = {}
    BY <1>8 DEF Restart, Unloaded, InHand, AtPage, Outcome
  <2> QED
    BY <2>1, EmptyIsTidy DEF Queueing, QueuedOnce, NoneForgotten
<1> QED
  BY <1>2, <1>3, <1>4, <1>5, <1>6, <1>7, <1>8 DEF Compile

LEMMA StepKeepsQueueing == BookTypeOK /\ Queueing /\ [BookNext]_bookVars => Queueing'
<1> SUFFICES ASSUME BookTypeOK, Queueing, [BookNext]_bookVars
             PROVE  Queueing'
  OBVIOUS
<1>1. ASSUME UNCHANGED <<queue, queued, worker, building, registered>>
      PROVE  Queueing'
  BY <1>1, IdleKeepsQueueing DEF InHand
<1>2. CASE UNCHANGED bookVars
  BY <1>1, <1>2 DEF bookVars
<1>3. ASSUME NEW p \in BookPage, OpenPage(p) \/ ForcePage(p)
      PROVE  Queueing'
  <2>1. UNCHANGED <<worker, building>>
    BY <1>3 DEF OpenPage, ForcePage
  <2>2. \/ UNCHANGED <<queue, queued, registered>>
        \/ \E r \in Table, force \in BOOLEAN : Claim(r, p, force)
    BY <1>3 DEF OpenPage, ForcePage
  <2> QED
    BY <1>1, <2>1, <2>2, ClaimKeepsQueueing
<1>4. CASE ResumeBook \/ OpenBook
  <2>1. Requeue
    BY <1>4 DEF ResumeBook, OpenBook
  <2>2. UNCHANGED building /\ Unfinished(shelf') \in SUBSET BookPage
    BY <2>1 DEF Requeue, Unfinished
  <2>3. UNCHANGED <<queue, queued, registered, worker>> \/ Enqueue(Unfinished(shelf'))
    BY <2>1 DEF Requeue
  <2>4. ASSUME NEW owed \in SUBSET BookPage, Enqueue(owed)
        PROVE  Queueing'
    BY <2>2, <2>4, EnqueueKeepsQueueing
  <2> QED
    BY <1>1, <2>2, <2>3, <2>4
<1> QED
  BY <1>2, <1>3, <1>4, TakePageKeepsQueueing, OthersKeepQueueing DEF BookNext, Work

LEMMA QueueingHolds == BookSpec => []Queueing
<1>1. BookInit => Queueing
  <2> SUFFICES ASSUME BookInit
               PROVE  Queueing
    OBVIOUS
  <2>1. \A r \in BookRuntime : queue[r] = <<>> /\ InHand(r) = {}
    BY DEF BookInit, InHand, AtPage, Outcome
  <2>2. Elements(<<>>) = {} /\ Distinct(<<>>)
    BY DEF Elements, Distinct
  <2> QED
    BY <2>1, <2>2 DEF BookInit, Queueing, QueuedOnce, Tidy, Listed, NoneForgotten
<1> QED
  BY <1>1, StepKeepsQueueing, BookTypes, PTL DEF BookSpec

(***************************************************************************)
(* A page is never queued twice, nor while the worker is at it (engine.py  *)
(* _enqueue_pending_pages, _worker_loop, with its finally).                *)
(***************************************************************************)
THEOREM PagesAreQueuedOnce == BookSpec => []QueuedOnce
BY QueueingHolds, PTL DEF Queueing

(***************************************************************************)
(* The guard never keeps a page out of the queue that nobody is to compile *)
(* (engine.py _enqueue_pending_pages "if page.id in runtime.queued").      *)
(***************************************************************************)
THEOREM NoPageIsForgotten == BookSpec => []NoneForgotten
BY QueueingHolds, PTL DEF Queueing

\* The workers stay at what they are at, and no compilation ends.
LEMMA BusyKeepsServing ==
  ASSUME BookTypeOK, Serving, UNCHANGED <<worker, building>>,
         \A s \in Slot : run[s] # "none" => run'[s] # "none",
         \/ registered' = NoRuntime
         \/ registered' = registered /\ queue' = queue
         \/ /\ registered' \in BookRuntime
            /\ queue'[registered'] = <<>> /\ worker[registered'] = "none",
         manifest' = manifest \/ manifest' = "ready"
  PROVE  Serving'
<1>1. WorkersAwaitRuns'
  BY DEF Serving, WorkersAwaitRuns, AtPage
<1>2. QueuesAreServed'
  BY DEF Serving, QueuesAreServed
<1>3. RefusedIsGivenUp'
  BY BookNamesDiffer DEF Serving, RefusedIsGivenUp
<1> QED
  BY <1>1, <1>2, <1>3 DEF Serving

\* The workers that await a compilation go on with its outcome.
LEMMA EndRunKeepsServing ==
  ASSUME BookTypeOK, Serving, NEW s \in Slot, NEW outcome \in Outcome, EndRun(s, outcome),
         outcome = "refused" => manifest = "paused",
         UNCHANGED <<registered, queue, building>>,
         manifest' = manifest \/ manifest' = "ready"
  PROVE  Serving'
<1>1. /\ \A t \in Slot : t # s => run'[t] = run[t]
      /\ \A r \in BookRuntime : \/ worker'[r] = worker[r] /\ (worker[r] = "building" => building[r].slot # s)
                                \/ worker[r] = "building" /\ building[r].slot = s /\ worker'[r] = outcome
  BY DEF EndRun, BookTypeOK
<1>2. outcome \in AtPage /\ outcome \notin {"none", "building"} /\ "building" \in AtPage
  BY DEF AtPage, Outcome
<1>3. WorkersAwaitRuns'
  BY <1>1, <1>2 DEF Serving, WorkersAwaitRuns
<1>4. QueuesAreServed'
  BY <1>1, <1>2 DEF Serving, QueuesAreServed, BookTypeOK
<1>5. RefusedIsGivenUp'
  BY <1>1, <1>2 DEF Serving, RefusedIsGivenUp
<1> QED
  BY <1>3, <1>4, <1>5 DEF Serving

LEMMA CompilingKeepsServing ==
  ASSUME BookTypeOK, Serving, NEW s \in Slot,
         \/ WakeForced(s) \/ StartRun(s) \/ FinishRun(s) \/ SaveBlock(s) \/ RaiseRun(s)
         \/ \E status \in {"ready", "partial", "error"} : SavePage(s, status)
  PROVE  Serving'
<1>1. CASE \/ WakeForced(s) \/ SaveBlock(s)
           \/ \E status \in {"ready", "partial", "error"} : SavePage(s, status)
  <2>1. /\ UNCHANGED <<worker, building, registered, queue, manifest>>
        /\ \/ run' = run
           \/ run' = [run EXCEPT ![s] = "begun"]
           \/ run' = [run EXCEPT ![s] = "saved"]
    BY <1>1 DEF WakeForced, SaveBlock, SavePage
  <2>2. \A t \in Slot : run[t] # "none" => run'[t] # "none"
    BY <2>1 DEF BookTypeOK
  <2> QED
    BY <2>1, <2>2, BusyKeepsServing
<1>2. CASE StartRun(s)
  <2>1. /\ UNCHANGED <<building, registered, queue, manifest>>
        /\ \/ run' = [run EXCEPT ![s] = "running"] /\ UNCHANGED worker
           \/ EndRun(s, "ok")
           \/ EndRun(s, "refused") /\ manifest = "paused"
    BY <1>2 DEF StartRun
  <2>2. CASE run' = [run EXCEPT ![s] = "running"] /\ UNCHANGED worker
    <3>1. \A t \in Slot : run[t] # "none" => run'[t] # "none"
      BY <2>2 DEF BookTypeOK
    <3> QED
      BY <2>1, <2>2, <3>1, BusyKeepsServing
  <2>3. CASE EndRun(s, "ok") \/ (EndRun(s, "refused") /\ manifest = "paused")
    <3>1. "ok" \in Outcome /\ "refused" \in Outcome /\ "ok" # "refused"
      BY DEF Outcome
    <3> QED
      BY <2>1, <2>3, <3>1, EndRunKeepsServing
  <2> QED
    BY <2>1, <2>2, <2>3
<1>3. CASE FinishRun(s) \/ RaiseRun(s)
  <2>1. /\ UNCHANGED <<building, registered, queue>> /\ (manifest' = manifest \/ manifest' = "ready")
        /\ EndRun(s, "ok") \/ EndRun(s, "systemic") \/ EndRun(s, "raised")
    BY <1>3 DEF FinishRun, RaiseRun, Finalize
  <2>2. {"ok", "systemic", "raised"} \subseteq Outcome /\ "refused" \notin {"ok", "systemic", "raised"}
    BY DEF Outcome
  <2> QED
    BY <2>1, <2>2, EndRunKeepsServing
<1> QED
  BY <1>1, <1>2, <1>3

LEMMA RequestKeepsServing ==
  ASSUME BookTypeOK, Serving, NEW p \in BookPage,
         OpenPage(p) \/ ForcePage(p) \/ EditBlock(p) \/ Regenerate(p)
  PROVE  Serving'
<1>1. UNCHANGED <<worker, building, manifest>>
  BY DEF OpenPage, ForcePage, EditBlock, Regenerate
<1>2. CASE UNCHANGED <<registered, queue, run>>
  BY <1>1, <1>2, BusyKeepsServing
<1>3. ASSUME NEW r \in Table, NEW force, Claim(r, p, force)
      PROVE  Serving'
  <2>1. r \in BookRuntime /\ (r = registered \/ (registered = NoRuntime /\ r \in Fresh))
    BY TableIsRuntime DEF BookTypeOK
  <2>2. run' \in {run, [run EXCEPT ![<<r, p>>] = "begun"]}
    BY <1>3 DEF Claim
  <2>3. \A s \in Slot : run[s] # "none" => run'[s] # "none"
    BY <2>2 DEF BookTypeOK
  <2>4. \/ registered' = registered /\ queue' = queue
        \/ /\ registered' \in BookRuntime
           /\ queue'[registered'] = <<>> /\ worker[registered'] = "none"
    BY <1>3, <2>1 DEF Claim, InTable, Fresh, BookTypeOK
  <2> QED
    BY <1>1, <2>3, <2>4, BusyKeepsServing
<1>4. UNCHANGED <<registered, queue, run>> \/ \E r \in Table, force \in BOOLEAN : Claim(r, p, force)
  BY DEF OpenPage, ForcePage, EditBlock, Regenerate
<1> QED
  BY <1>2, <1>3, <1>4

LEMMA RequeueKeepsServing ==
  ASSUME BookTypeOK, Serving, ResumeBook \/ OpenBook
  PROVE  Serving'
<1>1. Requeue
  BY DEF ResumeBook, OpenBook
<1>2. UNCHANGED <<building, run>>
  BY <1>1 DEF Requeue
<1>3. CASE Unfinished(shelf') = {}
  BY <1>1, <1>2, <1>3, BusyKeepsServing DEF Requeue, Finalize
<1>4. CASE Unfinished(shelf') # {}
  <2>1. manifest' = "compiling" /\ Enqueue(Unfinished(shelf'))
    BY <1>1, <1>4 DEF Requeue
  <2>2. PICK r \in Table :
          /\ registered' = r
          /\ worker' = [worker EXCEPT ![r] = IF @ = "none" THEN "idle" ELSE @]
    BY <2>1 DEF Enqueue
  <2>3. r \in BookRuntime /\ (r = registered \/ worker[r] = "none")
    BY TableIsRuntime DEF BookTypeOK, Fresh
  <2>4. /\ worker'[r] # "none"
        /\ \A t \in BookRuntime : worker'[t] = worker[t] \/ (worker[t] = "none" /\ worker'[t] = "idle")
        /\ r # registered => worker'[r] = "idle"
    BY <2>2, <2>3 DEF BookTypeOK
  <2>5. "idle" \notin AtPage
    BY DEF AtPage, Outcome
  <2>6. WorkersAwaitRuns'
    BY <1>2, <2>4, <2>5 DEF Serving, WorkersAwaitRuns
  <2>7. QueuesAreServed' /\ RefusedIsGivenUp'
    BY <2>1, <2>2, <2>3, <2>4 DEF Serving, QueuesAreServed, RefusedIsGivenUp
  <2> QED
    BY <2>6, <2>7 DEF Serving
<1> QED
  BY <1>3, <1>4

LEMMA TakePageKeepsServing ==
  ASSUME BookTypeOK, Serving, NEW r \in BookRuntime, TakePage(r)
  PROVE  Serving'
<1> DEFINE p == Head(queue[r])
           rest == [queue EXCEPT ![r] = Tail(@)]
<1>1. worker[r] = "idle" /\ manifest' = manifest /\ p \in BookPage
  BY HeadTailProperties DEF TakePage, BookTypeOK
<1>2. \A t \in BookRuntime : t # r => rest[t] = queue[t]
  BY DEF BookTypeOK
<1>3. \/ queue' = rest /\ UNCHANGED <<registered, worker, building, run>>
      \/ /\ manifest = "paused" /\ worker' = [worker EXCEPT ![r] = "none"]
         /\ UNCHANGED <<registered, building, run>>
      \/ /\ manifest # "paused"
         /\ \E t \in Table :
              /\ registered' = t
              /\ queue' = InTable(rest, t, <<>>)
              /\ run' = [run EXCEPT ![<<t, p>>] = IF @ = "none" THEN "begun" ELSE @]
              /\ worker' = [worker EXCEPT ![r] = "building"]
              /\ building' = [building EXCEPT ![r] = [slot |-> <<t, p>>, page |-> Loaded(p)]]
  BY DEF TakePage
<1> HIDE DEF p, rest
<1>4. CASE queue' = rest /\ UNCHANGED <<registered, worker, building, run>>
  <2>1. WorkersAwaitRuns' /\ RefusedIsGivenUp'
    BY <1>1, <1>4 DEF Serving, WorkersAwaitRuns, RefusedIsGivenUp
  <2>2. QueuesAreServed'
    BY <1>1, <1>2, <1>4 DEF Serving, QueuesAreServed, BookTypeOK
  <2> QED
    BY <2>1, <2>2 DEF Serving
<1>5. CASE /\ manifest = "paused" /\ worker' = [worker EXCEPT ![r] = "none"]
           /\ UNCHANGED <<registered, building, run>>
  <2>1. worker'[r] = "none" /\ \A t \in BookRuntime : t # r => worker'[t] = worker[t]
    BY <1>5 DEF BookTypeOK
  <2>2. "none" \notin AtPage
    BY DEF AtPage, Outcome
  <2> QED
    BY <1>1, <1>5, <2>1, <2>2 DEF Serving, WorkersAwaitRuns, RefusedIsGivenUp, QueuesAreServed
<1>6. ASSUME manifest # "paused", NEW t \in Table,
             registered' = t,
             queue' = InTable(rest, t, <<>>),
             run' = [run EXCEPT ![<<t, p>>] = IF @ = "none" THEN "begun" ELSE @],
             worker' = [worker EXCEPT ![r] = "building"],
             building' = [building EXCEPT ![r] = [slot |-> <<t, p>>, page |-> Loaded(p)]]
      PROVE  Serving'
  <2>1. /\ t \in BookRuntime
        /\ t = registered \/ (registered = NoRuntime /\ worker[t] = "none")
    BY TableIsRuntime DEF BookTypeOK, Fresh
  <2>2. <<t, p>> \in Slot
    BY <1>1, <2>1 DEF Slot
  <2>3. run'[<<t, p>>] # "none" /\ \A s \in Slot : run[s] # "none" => run'[s] # "none"
    <3> DEFINE slot == <<t, p>>
    <3>1. run' = [run EXCEPT ![slot] = IF run[slot] = "none" THEN "begun" ELSE run[slot]] /\ slot \in Slot
      BY <1>6, <2>2
    <3> HIDE DEF slot
    <3>2. run'[slot] # "none" /\ \A s \in Slot : run[s] # "none" => run'[s] # "none"
      BY <3>1 DEF BookTypeOK
    <3> QED
      BY <3>2 DEF slot
  <2>4. /\ worker'[r] = "building" /\ building'[r].slot = <<t, p>>
        /\ \A x \in BookRuntime : x # r => worker'[x] = worker[x] /\ building'[x] = building[x]
    <3> DEFINE slot == <<t, p>>
               at == [slot |-> slot, page |-> Loaded(p)]
    <3>1. at.slot = slot
      OBVIOUS
    <3>2. building' = [building EXCEPT ![r] = at]
      BY <1>6
    <3> HIDE DEF at, slot
    <3>3. worker'[r] = "building" /\ building'[r].slot = slot
      BY <1>6, <3>1, <3>2 DEF BookTypeOK
    <3>4. \A x \in BookRuntime : x # r => worker'[x] = worker[x] /\ building'[x] = building[x]
      BY <1>6, <3>2 DEF BookTypeOK
    <3> QED
      BY <3>3, <3>4 DEF slot
  <2>5. WorkersAwaitRuns'
    BY <2>2, <2>3, <2>4 DEF Serving, WorkersAwaitRuns, AtPage
  <2>6. RefusedIsGivenUp'
    BY <1>1, <1>6, <2>1, <2>4 DEF Serving, RefusedIsGivenUp
  <2>7. QueuesAreServed'
    <3>1. CASE t = r
      BY <1>6, <2>4, <3>1 DEF QueuesAreServed
    <3>2. CASE t = registered /\ t # r
      BY <1>1, <1>2, <1>6, <2>1, <2>4, <3>2, BookNamesDiffer DEF InTable, Serving, QueuesAreServed
    <3>3. CASE t # registered /\ t # r
      BY <1>6, <2>1, <3>3 DEF InTable, QueuesAreServed, BookTypeOK, rest
    <3> QED
      BY <2>1, <3>1, <3>2, <3>3
  <2> QED
    BY <2>5, <2>6, <2>7 DEF Serving
<1> QED
  BY <1>3, <1>4, <1>5, <1>6

\* A halt stops whoever awaits what it cancels, and empties the queue.
LEMMA HaltKeepsServing ==
  ASSUME BookTypeOK, Serving, registered \in BookRuntime, NEW x,
         Halt(registered, x), UNCHANGED registered
  PROVE  Serving'
<1>1. /\ \A s \in Slot : s[1] # registered => run'[s] = run[s]
      /\ \A r \in BookRuntime : \/ worker'[r] = "none"
                                \/ /\ worker'[r] = worker[r] /\ r # registered
                                   /\ worker[r] = "building" => building[r].slot[1] # registered
      /\ \A r \in BookRuntime : worker'[r] \in AtPage => building'[r] = building[r]
      /\ queue'[registered] = <<>>
  BY DEF Halt, BookTypeOK
<1>2. "none" \notin AtPage /\ "building" \in AtPage
  BY DEF AtPage, Outcome
<1>3. WorkersAwaitRuns'
  BY <1>1, <1>2 DEF Serving, WorkersAwaitRuns
<1>4. QueuesAreServed' /\ RefusedIsGivenUp'
  BY <1>1 DEF QueuesAreServed, RefusedIsGivenUp
<1> QED
  BY <1>3, <1>4 DEF Serving

LEMMA OthersKeepServing ==
  ASSUME BookTypeOK, Serving,
         \/ \E r \in BookRuntime : Settle(r) \/ Trip(r) \/ TripEnds(r) \/ Retire(r)
         \/ PauseBook \/ PauseEnds \/ Regenerated \/ Restart
  PROVE  Serving'
<1>1. CASE (\E r \in BookRuntime : TripEnds(r)) \/ PauseEnds \/ Regenerated
  <2>1. /\ UNCHANGED <<worker, building, run, queue>> /\ registered' \in {registered, NoRuntime}
        /\ manifest' = manifest \/ manifest' = "ready"
    BY <1>1 DEF TripEnds, PauseEnds, Regenerated, Finalize
  <2> QED
    BY <2>1, BusyKeepsServing
<1>2. ASSUME NEW r \in BookRuntime, NEW at \in {"idle", "none"},
             worker' = [worker EXCEPT ![r] = at],
             \A t \in BookRuntime : t # r => building'[t] = building[t],
             UNCHANGED <<run, queue>>, registered' \in {registered, NoRuntime},
             manifest' = manifest \/ registered = NoRuntime,
             at = "none" => registered' # r
      PROVE  Serving'
  <2>1. worker'[r] = at /\ \A t \in BookRuntime : t # r => worker'[t] = worker[t]
    BY <1>2 DEF BookTypeOK
  <2>2. at \notin AtPage /\ at # "building" /\ at # "refused"
    BY DEF AtPage, Outcome
  <2>3. WorkersAwaitRuns'
    BY <1>2, <2>1, <2>2 DEF Serving, WorkersAwaitRuns
  <2>4. QueuesAreServed'
    BY <1>2, <2>1 DEF Serving, QueuesAreServed, BookTypeOK
  <2>5. RefusedIsGivenUp'
    BY <1>2, <2>1, <2>2, BookNamesDiffer DEF Serving, RefusedIsGivenUp
  <2> QED
    BY <2>3, <2>4, <2>5 DEF Serving
<1>3. ASSUME NEW r \in BookRuntime, Retire(r)
      PROVE  Serving'
  BY <1>2, <1>3, BookNamesDiffer DEF Retire
<1>4. ASSUME NEW r \in BookRuntime, Settle(r)
      PROVE  Serving'
  <2>1. /\ UNCHANGED <<run, queue, registered, manifest>>
        /\ building' = [building EXCEPT ![r] = NoBuild]
        /\ \/ worker' = [worker EXCEPT ![r] = "idle"]
           \/ worker' = [worker EXCEPT ![r] = "none"] /\ worker[r] = "refused"
    BY <1>4 DEF Settle
  <2>2. worker[r] = "refused" => registered # r
    BY DEF Serving, RefusedIsGivenUp
  <2>3. \A t \in BookRuntime : t # r => building'[t] = building[t]
    BY <2>1 DEF BookTypeOK
  <2> QED
    BY <1>2, <2>1, <2>2, <2>3
<1>5. ASSUME NEW r \in BookRuntime, Trip(r)
      PROVE  Serving'
  <2>1. CASE registered = NoRuntime
    <3>1. /\ worker' = [worker EXCEPT ![r] = "none"]
          /\ building' = [building EXCEPT ![r] = NoBuild]
          /\ UNCHANGED <<run, queue, registered>>
      BY <1>5, <2>1 DEF Trip
    <3>2. \A t \in BookRuntime : t # r => building'[t] = building[t]
      BY <3>1 DEF BookTypeOK
    <3>3. registered' # r
      BY <2>1, <3>1, BookNamesDiffer
    <3> QED
      BY <1>2, <2>1, <3>1, <3>2, <3>3
  <2>2. CASE registered # NoRuntime
    BY <1>5, <2>2, HaltKeepsServing DEF Trip, BookTypeOK
  <2> QED
    BY <2>1, <2>2
<1>6. CASE PauseBook
  <2>1. CASE registered = NoRuntime
    <3>1. UNCHANGED <<worker, building, run, queue, registered>> /\ manifest' = "paused"
      BY <1>6, <2>1 DEF PauseBook
    <3> QED
      BY <2>1, <3>1, BookNamesDiffer
         DEF Serving, WorkersAwaitRuns, QueuesAreServed, RefusedIsGivenUp
  <2>2. CASE registered # NoRuntime
    BY <1>6, <2>2, HaltKeepsServing DEF PauseBook, BookTypeOK
  <2> QED
    BY <2>1, <2>2
<1>7. CASE Restart
  <2>1. registered' = NoRuntime /\ \A r \in BookRuntime : worker'[r] = "none"
    BY <1>7 DEF Restart, Unloaded
  <2> QED
    BY <2>1 DEF Serving, WorkersAwaitRuns, QueuesAreServed, RefusedIsGivenUp, AtPage, Outcome
<1> QED
  BY <1>1, <1>3, <1>4, <1>5, <1>6, <1>7

LEMMA ServingHolds == BookSpec => []Serving
<1>1. BookInit => Serving
  BY DEF BookInit, Serving, WorkersAwaitRuns, QueuesAreServed, RefusedIsGivenUp, AtPage, Outcome
<1>2. BookTypeOK /\ Serving /\ [BookNext]_bookVars => Serving'
  <2> SUFFICES ASSUME BookTypeOK, Serving, [BookNext]_bookVars
               PROVE  Serving'
    OBVIOUS
  <2>1. CASE UNCHANGED bookVars
    BY <2>1, BusyKeepsServing DEF bookVars
  <2>2. CASE BookNext
    BY <2>2, RequestKeepsServing, CompilingKeepsServing, RequeueKeepsServing,
       TakePageKeepsServing, OthersKeepServing DEF BookNext, Compile, Work
  <2> QED
    BY <2>1, <2>2
<1> QED
  BY <1>1, <1>2, BookTypes, PTL DEF BookSpec

(***************************************************************************)
(* No worker waits for ever on a compilation that ended, was cancelled or  *)
(* taken over (engine.py compile_page, _release_in_flight).                *)
(***************************************************************************)
THEOREM WorkersAreWoken == BookSpec => []WorkersAwaitRuns
BY ServingHolds, PTL DEF Serving

(***************************************************************************)
(* "A queue with items in it and no worker draining them" (engine.py       *)
(* maybe_resume_on_open) does not come about while the book is compiled,   *)
(* whatever is cancelled, paused and resumed.                              *)
(***************************************************************************)
THEOREM NoQueueIsLeft == BookSpec => []QueuesAreServed
BY ServingHolds, PTL DEF Serving

-----------------------------------------------------------------------------
(* What the reader wrote *)

(***************************************************************************)
(* What the reader wrote on a page is not lost by a step of any task of    *)
(* the book, of a halt, or of a restart, as long as no task that loaded    *)
(* the page before is still at work on it (compiler.py, engine.py          *)
(* update_block, regenerate_block, _mark_page_error).                      *)
(***************************************************************************)
THEOREM EditsAreKept == BookSpec => EditsKept
<1>1. ASSUME BookTypeOK, BookNext, NEW p \in BookPage, shelf[p].edited, ~InFlight(p)
      PROVE  shelf'[p].edited
  <2>1. regen.page # p /\ \A s \in Slot : s[2] = p => run[s] # "running"
    <3>1. \A s \in Slot : s = <<s[1], s[2]>> /\ s[1] \in BookRuntime
      BY DEF Slot
    <3> QED
      BY <1>1, <3>1 DEF InFlight
  <2>2. \A r \in BookRuntime :
          building[r].page.status = "generating" => building[r].slot[2] # p
    BY <1>1 DEF InFlight
  <2>3. Stranded(shelf)[p].edited
    BY <1>1, StrandedPages DEF BookTypeOK
  <2>4. ASSUME NEW s \in Slot, run[s] = "running"
        PROVE  \A page : shelf' = [shelf EXCEPT ![s[2]] = page] => shelf'[p] = shelf[p]
    BY <2>1, <2>4 DEF BookTypeOK
  <2>5. ASSUME NEW r \in BookRuntime, NEW status, Restore(r, status)
        PROVE  shelf'[p] = shelf[p]
    BY <2>2, <2>5 DEF Restore, BookTypeOK
  <2>6. CASE UNCHANGED shelf
    BY <1>1, <2>6
  <2>7. ASSUME NEW s \in Slot, StartRun(s)
        PROVE  shelf'[p].edited
    <3>1. \/ UNCHANGED shelf
          \/ \E status, body :
               shelf' = [shelf EXCEPT ![s[2]] =
                          [status |-> status, body |-> body, edited |-> shelf[s[2]].edited]]
      BY <2>7 DEF StartRun
    <3>2. ASSUME NEW page, page.edited = shelf[s[2]].edited,
                 shelf' = [shelf EXCEPT ![s[2]] = page]
          PROVE  shelf'[p].edited
      BY <1>1, <3>2 DEF BookTypeOK
    <3>3. CASE UNCHANGED shelf
      BY <1>1, <3>3
    <3>4. ASSUME NEW status, NEW body,
                 shelf' = [shelf EXCEPT ![s[2]] =
                            [status |-> status, body |-> body, edited |-> shelf[s[2]].edited]]
          PROVE  shelf'[p].edited
      BY <3>2, <3>4
    <3> QED
      BY <3>1, <3>3, <3>4
  <2>8. ASSUME NEW s \in Slot,
               \/ SaveBlock(s) \/ RaiseRun(s)
               \/ \E status \in {"ready", "partial", "error"} : SavePage(s, status)
        PROVE  shelf'[p].edited
    <3>1. run[s] = "running"
      BY <2>8 DEF SaveBlock, RaiseRun, SavePage
    <3>2. \/ shelf' = [shelf EXCEPT ![s[2]] = copy'[s]]
          \/ shelf' = [shelf EXCEPT ![s[2]] = [copy[s] EXCEPT !.status = "error"]]
      BY <2>8 DEF SaveBlock, RaiseRun, SavePage
    <3> QED
      BY <1>1, <2>4, <3>1, <3>2
  <2>9. ASSUME NEW r \in BookRuntime, TakePage(r)
        PROVE  shelf'[p].edited
    <3>1. \/ UNCHANGED shelf
          \/ \E q : shelf' = [shelf EXCEPT ![q] = Stranded(shelf)[q]]
      BY <2>9 DEF TakePage
    <3> QED
      BY <1>1, <2>3, <3>1 DEF BookTypeOK
  <2>10. ASSUME NEW r \in BookRuntime, Settle(r) \/ Trip(r)
         PROVE  shelf'[p].edited
    <3>1. UNCHANGED shelf \/ Restore(r, "error") \/ Restore(r, "pending")
      BY <2>10 DEF Settle, Trip
    <3> QED
      BY <1>1, <2>5, <3>1
  <2>11. ASSUME NEW q \in BookPage, EditBlock(q)
         PROVE  shelf'[p].edited
    <3>1. PICK status : shelf' = [shelf EXCEPT ![q].edited = TRUE, ![q].status = status]
      BY <2>11 DEF EditBlock
    <3> QED
      BY <1>1, <3>1 DEF BookTypeOK, PageRecord
  <2>12. CASE Regenerated
    <3>1. PICK page : shelf' = [shelf EXCEPT ![regen.page] = page]
      BY <2>12 DEF Regenerated
    <3> QED
      BY <1>1, <2>1, <3>1 DEF BookTypeOK
  <2>13. CASE ResumeBook \/ OpenBook \/ PauseBook \/ PauseEnds
    <3>1. shelf' \in {shelf, Stranded(shelf)}
      BY <2>13 DEF ResumeBook, OpenBook, Requeue, PauseBook, PauseEnds
    <3> QED
      BY <1>1, <2>3, <3>1
  <2>14. \/ \E q \in BookPage : OpenPage(q) \/ ForcePage(q) \/ Regenerate(q)
         \/ \E s \in Slot : WakeForced(s) \/ FinishRun(s)
         \/ \E r \in BookRuntime : TripEnds(r) \/ Retire(r)
         \/ Restart
         => UNCHANGED shelf
    BY DEF OpenPage, ForcePage, Regenerate, WakeForced, FinishRun, TripEnds, Retire, Restart
  <2> QED
    BY <1>1, <2>6, <2>7, <2>8, <2>9, <2>10, <2>11, <2>12, <2>13, <2>14
       DEF BookNext, Compile, Work
<1>2. BookTypeOK /\ [BookNext]_bookVars
        => [\A p \in BookPage : shelf[p].edited /\ ~InFlight(p) => shelf'[p].edited]_bookVars
  BY <1>1
<1> QED
  BY <1>2, BookTypes, PTL DEF BookSpec, EditsKept
=============================================================================
