---------------------------- MODULE BookCompilation ----------------------------
(***************************************************************************)
(* The compilation of one generated book (deeptutor/book/engine.py over    *)
(* book/compiler.py and book/storage.py): a queue of pages with one        *)
(* background worker, requests of the reader for single pages, a breaker   *)
(* that pauses the book, pause and resume, edits and block regeneration.   *)
(*                                                                         *)
(* All of it runs on one event loop: what the code does between two points *)
(* where it can suspend is one step here.  The queue, the worker and the   *)
(* table of running compilations live in a runtime object that the engine  *)
(* registers for the book and drops when it retires it, while a coroutine  *)
(* may still hold it.  A page is saved and loaded whole.                   *)
(***************************************************************************)
EXTENDS Naturals, Sequences, FiniteSets

CONSTANTS
  Pages,           \* number of pages, compiled in their order
  BookRuntime,     \* identities of runtime objects
  NoRuntime,
  Reader,          \* the request that pauses the book
  StrikeLimit,     \* CONSECUTIVE_PAGE_FAILURE_LIMIT
  MaxFailures,     \* bound on failing compilations
  MaxRequests      \* bound on the reader's requests, opening and unpausing the
                   \* book apart, and on restarts of the process

ASSUME PagesIsCount == Pages \in Nat /\ StrikeLimit \in Nat \ {0}
ASSUME BookBounds == MaxFailures \in Nat /\ MaxRequests \in Nat
ASSUME BookNamesDiffer == NoRuntime \notin BookRuntime /\ Reader \notin BookRuntime

VARIABLES
  manifest,        \* status of the book
  shelf,           \* the pages on disk
  registered,      \* the runtime in the engine's table, or NoRuntime
  queue, queued,   \* each runtime's queue, and the set that guards it
  strikes,         \* its consecutive_page_failures
  worker,          \* what its worker task is at
  building,        \* the compilation its worker is at, and the page it loaded
  run,             \* the in_flight table of every runtime
  forced,          \* the compilations started with force
  copy,            \* the page that each compilation holds in memory
  waiting,         \* forced requests that wait for a compilation to end
  halting,         \* the runtime that each halt in progress works on
  regen,           \* the block regeneration in progress
  outlived,        \* runtimes given work while they were halted, or after they
                   \* left the table (history)
  failures, requests   \* events counted against the bounds

bookVars == <<manifest, shelf, registered, queue, queued, strikes, worker, building,
              run, forced, copy, waiting, halting, regen, outlived, failures, requests>>

BookPage == 1..Pages
Slot == BookRuntime \X BookPage

\* How much of a page exists: no blocks planned, some not run, or all run.
Body == {"blank", "part", "full"}
Settled == {"ready", "partial"}
PageRecord == [status : {"pending", "generating", "error"} \cup Settled,
               body : Body, edited : BOOLEAN]
Blank == [status |-> "pending", body |-> "blank", edited |-> FALSE]
NoSlot == <<NoRuntime, 0>>
NoBuild == [slot |-> NoSlot, page |-> Blank]
NoRegen == [page |-> 0, copy |-> Blank]
Outcome == {"ok", "systemic", "raised", "refused"}
\* A worker at a page awaits its compilation, or has the outcome in hand.
AtPage == {"building"} \cup Outcome

BookTypeOK ==
  /\ manifest \in {"compiling", "paused", "ready"}
  /\ shelf \in [BookPage -> PageRecord]
  /\ registered \in BookRuntime \cup {NoRuntime}
  /\ queue \in [BookRuntime -> Seq(BookPage)]
  /\ queued \in [BookRuntime -> SUBSET BookPage]
  /\ strikes \in [BookRuntime -> 0..(StrikeLimit - 1)]
  /\ worker \in [BookRuntime -> {"none", "idle"} \cup AtPage]
  /\ building \in [BookRuntime -> [slot : Slot \cup {NoSlot}, page : PageRecord]]
  /\ run \in [Slot -> {"none", "begun", "running", "saved"}]
  /\ forced \subseteq Slot
  /\ copy \in [Slot -> PageRecord]
  /\ waiting \subseteq Slot
  /\ halting \in [BookRuntime \cup {Reader} -> BookRuntime \cup {NoRuntime}]
  /\ regen \in [page : BookPage \cup {0}, copy : PageRecord]
  /\ outlived \subseteq BookRuntime
  /\ failures \in Nat /\ requests \in Nat

\* The process holds nothing of the book.
Unloaded ==
  /\ registered' = NoRuntime
  /\ queue' = [r \in BookRuntime |-> <<>>]
  /\ queued' = [r \in BookRuntime |-> {}]
  /\ strikes' = [r \in BookRuntime |-> 0]
  /\ worker' = [r \in BookRuntime |-> "none"]
  /\ building' = [r \in BookRuntime |-> NoBuild]
  /\ run' = [s \in Slot |-> "none"]
  /\ forced' = {} /\ waiting' = {}
  /\ copy' = [s \in Slot |-> Blank]
  /\ halting' = [x \in BookRuntime \cup {Reader} |-> NoRuntime]
  /\ regen' = NoRegen
  /\ outlived' = {}

\* confirm_spine has saved the page shells and not yet queued them.
BookInit ==
  /\ manifest = "compiling"
  /\ shelf = [p \in BookPage |-> Blank]
  /\ registered = NoRuntime
  /\ queue = [r \in BookRuntime |-> <<>>]
  /\ queued = [r \in BookRuntime |-> {}]
  /\ strikes = [r \in BookRuntime |-> 0]
  /\ worker = [r \in BookRuntime |-> "none"]
  /\ building = [r \in BookRuntime |-> NoBuild]
  /\ run = [s \in Slot |-> "none"]
  /\ forced = {} /\ waiting = {}
  /\ copy = [s \in Slot |-> Blank]
  /\ halting = [x \in BookRuntime \cup {Reader} |-> NoRuntime]
  /\ regen = NoRegen
  /\ outlived = {}
  /\ failures = 0 /\ requests = 0

Request == requests < MaxRequests /\ requests' = requests + 1
Failure == failures < MaxFailures /\ failures' = failures + 1

\* A runtime object that nothing refers to any more, and so a new one.
Fresh ==
  {r \in BookRuntime :
     /\ r # registered /\ worker[r] = "none"
     /\ \A p \in BookPage : run[<<r, p>>] = "none" /\ <<r, p>> \notin waiting
     /\ \A x \in BookRuntime : building[x].slot[1] # r
     /\ halting[r] = NoRuntime /\ \A x \in DOMAIN halting : halting[x] # r}

\* _get_or_create_runtime; which of the new ones makes no difference.
Table ==
  IF registered # NoRuntime THEN {registered}
  ELSE IF Fresh = {} THEN {} ELSE {CHOOSE r \in BookRuntime : r \in Fresh}

BeingHalted(r) == \E x \in DOMAIN halting : halting[x] = r

\* Work comes to runtime r, the registered one or a new one.
Touch(r) ==
  outlived' = IF r # registered THEN outlived \ {r}
              ELSE IF BeingHalted(r) THEN outlived \cup {r} ELSE outlived

InTable(f, r, new) == IF r = registered THEN f ELSE [f EXCEPT ![r] = new]

Unfinished(pages) == {p \in BookPage : pages[p].status \notin Settled}

\* _maybe_finalize_book, once the pages are saved.
Finalize(pages) == manifest' = IF Unfinished(pages) = {} THEN "ready" ELSE manifest

\* Pages stranded in PLANNING or GENERATING owe their work again.
Stranded(pages) ==
  [p \in BookPage |-> IF pages[p].status = "generating"
                        THEN [pages[p] EXCEPT !.status = "pending"] ELSE pages[p]]

-----------------------------------------------------------------------------
\* compile_page for a caller that joins what runs, on runtime r.
Claim(r, p, force) ==
  /\ registered' = r /\ Touch(r)
  /\ queue' = InTable(queue, r, <<>>)
  /\ queued' = InTable(queued, r, {})
  /\ strikes' = InTable(strikes, r, 0)
  /\ IF run[<<r, p>>] = "none"
       THEN /\ run' = [run EXCEPT ![<<r, p>>] = "begun"]
            /\ forced' = IF force THEN forced \cup {<<r, p>>} ELSE forced
       ELSE UNCHANGED <<run, forced>>

\* The reader opens a page that is not ready.
OpenPage(p) ==
  /\ manifest # "paused" /\ shelf[p].status # "ready"
  /\ Request
  /\ \E r \in Table : Claim(r, p, FALSE)
  /\ UNCHANGED <<manifest, shelf, worker, building, copy, waiting, halting, regen,
                 failures>>

\* The reader asks for the page to be generated again.
ForcePage(p) ==
  /\ manifest # "paused"
  /\ Request
  /\ IF registered # NoRuntime /\ run[<<registered, p>>] # "none"
       THEN /\ waiting' = waiting \cup {<<registered, p>>}
            /\ UNCHANGED <<registered, queue, queued, strikes, run, forced,
                           outlived>>
       ELSE UNCHANGED waiting /\ \E r \in Table : Claim(r, p, TRUE)
  /\ UNCHANGED <<manifest, shelf, worker, building, copy, halting, regen, failures>>

\* That run has ended; the request takes the slot in the runtime it knows.
WakeForced(s) ==
  /\ s \in waiting /\ run[s] = "none"
  /\ waiting' = waiting \ {s}
  /\ run' = [run EXCEPT ![s] = "begun"]
  /\ forced' = forced \cup {s}
  /\ outlived' = IF s[1] # registered \/ BeingHalted(s[1])
                   THEN outlived \cup {s[1]} ELSE outlived
  /\ UNCHANGED <<manifest, shelf, registered, queue, queued, strikes, worker,
                 building, copy, halting, regen, failures, requests>>

\* The compilation s is over; the workers that await it resume with outcome.
EndRun(s, outcome) ==
  /\ run' = [run EXCEPT ![s] = "none"]
  /\ forced' = forced \ {s}
  /\ copy' = [copy EXCEPT ![s] = Blank]
  /\ worker' = [r \in BookRuntime |->
                 IF worker[r] = "building" /\ building[r].slot = s THEN outcome ELSE worker[r]]

\* Mutation: a forced compilation starts from an empty page.
StartRunBare(s) ==
  /\ run[s] = "begun" /\ manifest # "paused"
  /\ copy' = [copy EXCEPT ![s] = [Blank EXCEPT !.status = "generating"]]
  /\ shelf' = [shelf EXCEPT ![s[2]] = copy'[s]]
  /\ run' = [run EXCEPT ![s] = "running"]
  /\ UNCHANGED <<manifest, registered, queue, queued, strikes, worker, building, forced,
                 waiting, halting, regen, outlived, failures, requests>>

\* _compile_page_now looks at the book and the page, and marks the page.  What it
\* awaits before the first save only publishes progress, to queues without a
\* bound: that never suspends the task, so that nobody edits the page between.
StartRun(s) ==
  /\ run[s] = "begun"
  /\ LET page == shelf[s[2]]
         body == IF s \in forced /\ page.body = "full" THEN "part" ELSE page.body
         mine == [status |-> "generating", body |-> body, edited |-> page.edited]
     IN  CASE manifest = "paused" -> EndRun(s, "refused") /\ UNCHANGED shelf
           [] manifest # "paused" /\ page.status = "ready" /\ s \notin forced ->
                EndRun(s, "ok") /\ UNCHANGED shelf
           [] OTHER -> /\ run' = [run EXCEPT ![s] = "running"]
                       /\ copy' = [copy EXCEPT ![s] = mine]
                       /\ shelf' = [shelf EXCEPT ![s[2]] = mine]
                       /\ UNCHANGED <<worker, forced>>
  /\ UNCHANGED <<manifest, registered, queue, queued, strikes, building, waiting,
                 halting, regen, outlived, failures, requests>>

\* The plan, or a block, is done and the page saved as the compiler has it.
SaveBlock(s) ==
  /\ run[s] = "running"
  /\ copy' = [copy EXCEPT ![s].body = "part"]
  /\ shelf' = [shelf EXCEPT ![s[2]] = copy'[s]]
  /\ UNCHANGED <<manifest, registered, queue, queued, strikes, worker, building,
                 run, forced, waiting, halting, regen, outlived, failures, requests>>

\* Every block was run; blocks that failed leave the page partial or in error.
SavePage(s, status) ==
  /\ run[s] = "running"
  /\ IF status = "ready" THEN UNCHANGED failures ELSE Failure
  /\ ~(copy[s].edited /\ status = "error")
  /\ copy' = [copy EXCEPT ![s].status = status, ![s].body = "full"]
  /\ shelf' = [shelf EXCEPT ![s[2]] = copy'[s]]
  /\ run' = [run EXCEPT ![s] = "saved"]
  /\ UNCHANGED <<manifest, registered, queue, queued, strikes, worker, building, forced,
                 waiting, halting, regen, outlived, requests>>

\* The events of the page are out; the book may be ready with it.
FinishRun(s) ==
  /\ run[s] = "saved"
  /\ \/ EndRun(s, "ok")
     \/ copy[s].status = "error" /\ EndRun(s, "systemic")
  /\ Finalize(shelf)
  /\ UNCHANGED <<shelf, registered, queue, queued, strikes, building, waiting, halting,
                 regen, outlived, failures, requests>>

\* The planner or a save raises: _mark_page_error.
RaiseRun(s) ==
  /\ run[s] = "running" /\ Failure
  /\ shelf' = [shelf EXCEPT ![s[2]] = [copy[s] EXCEPT !.status = "error"]]
  /\ EndRun(s, "raised")
  /\ UNCHANGED <<manifest, registered, queue, queued, strikes, building, waiting,
                 halting, regen, outlived, requests>>

-----------------------------------------------------------------------------
\* The pages of a set as a sequence, in their order.
InOrder(pages) ==
  {list \in [1..Cardinality(pages) -> pages] :
     \A i, j \in DOMAIN list : i < j => list[i] < list[j]}

\* _enqueue_pending_pages, for the pages in owed; _ensure_worker.
Enqueue(owed) ==
  \E r \in Table :
    LET guard == IF r = registered THEN queued[r] ELSE {}
        waits == IF r = registered THEN queue[r] ELSE <<>>
    IN  /\ registered' = r /\ Touch(r)
        /\ \E list \in InOrder(owed \ guard) : queue' = [queue EXCEPT ![r] = waits \o list]
        /\ queued' = [queued EXCEPT ![r] = guard \cup owed]
        /\ strikes' = [strikes EXCEPT ![r] = 0]
        /\ worker' = [worker EXCEPT ![r] = IF @ = "none" THEN "idle" ELSE @]

\* Mutation: a book that owes no page has nothing to resume.
RequeueOwed ==
  /\ shelf' = Stranded(shelf)
  /\ LET owed == Unfinished(shelf') IN
       IF owed = {}
         THEN UNCHANGED <<manifest, registered, queue, queued, strikes, worker, outlived>>
         ELSE manifest' = "compiling" /\ Enqueue(owed)
  /\ UNCHANGED <<building, run, forced, copy, waiting, halting, regen, failures>>

\* resume_book.
Requeue ==
  /\ shelf' = Stranded(shelf)
  /\ LET owed == Unfinished(shelf') IN
       IF owed = {}
         THEN /\ Finalize(shelf')
              /\ UNCHANGED <<registered, queue, queued, strikes, worker, outlived>>
         ELSE manifest' = "compiling" /\ Enqueue(owed)
  /\ UNCHANGED <<building, run, forced, copy, waiting, halting, regen, failures>>

ResumeBook ==
  /\ IF manifest = "paused" THEN UNCHANGED requests ELSE Request
  /\ Requeue

\* maybe_resume_on_open: nobody in this process is at work on the book.
OpenBook ==
  /\ manifest = "compiling"
  /\ registered # NoRuntime =>
       /\ \A p \in BookPage : run[<<registered, p>>] = "none"
       /\ worker[registered] = "none"
  /\ Requeue /\ UNCHANGED requests

\* The page as the worker has it: one that is not being generated is never written back.
Loaded(p) == IF shelf[p].status = "generating" THEN shelf[p] ELSE Blank

\* The worker loop takes the next page.
TakePage(r) ==
  /\ worker[r] = "idle" /\ queue[r] # <<>>
  /\ LET p == Head(queue[r])
         rest == [queue EXCEPT ![r] = Tail(@)]
         done == [queued EXCEPT ![r] = @ \ {p}]
     IN  CASE shelf[p].status = "ready" ->
                /\ queue' = rest /\ queued' = done
                /\ UNCHANGED <<shelf, registered, strikes, worker, building, run,
                               forced, outlived>>
           [] shelf[p].status # "ready" /\ manifest = "paused" ->
                /\ queue' = rest /\ queued' = done
                /\ worker' = [worker EXCEPT ![r] = "none"]
                /\ shelf' = [shelf EXCEPT ![p] = Stranded(shelf)[p]]
                /\ UNCHANGED <<registered, strikes, building, run, forced,
                               outlived>>
           [] OTHER -> \E t \in Table :
                /\ registered' = t /\ Touch(t)
                /\ queue' = InTable(rest, t, <<>>)
                /\ queued' = InTable(queued, t, {})
                /\ strikes' = InTable(strikes, t, 0)
                /\ run' = [run EXCEPT ![<<t, p>>] = IF @ = "none" THEN "begun" ELSE @]
                /\ worker' = [worker EXCEPT ![r] = "building"]
                /\ building' = [building EXCEPT ![r] = [slot |-> <<t, p>>, page |-> Loaded(p)]]
                /\ UNCHANGED <<shelf, forced>>
  /\ UNCHANGED <<manifest, copy, waiting, halting, regen, failures, requests>>

\* Nothing came for two seconds: the worker and its runtime retire.
Retire(r) ==
  /\ worker[r] = "idle" /\ queue[r] = <<>>
  /\ \A p \in BookPage : run[<<r, p>>] = "none"
  /\ worker' = [worker EXCEPT ![r] = "none"]
  /\ registered' = IF registered = r THEN NoRuntime ELSE registered
  /\ UNCHANGED <<manifest, shelf, queue, queued, strikes, building, run, forced,
                 copy, waiting, halting, regen, outlived, failures, requests>>

\* What a worker's error handling writes: the page as it loaded it.
Restore(r, status) ==
  LET page == building[r].page IN
  shelf' = IF page.status = "generating"
             THEN [shelf EXCEPT ![building[r].slot[2]] = [page EXCEPT !.status = status]]
             ELSE shelf

\* The worker has its page; the failures in a row stay below the limit.
Settle(r) ==
  /\ \/ /\ worker[r] = "ok"
        /\ strikes' = [strikes EXCEPT ![r] = 0]
        /\ worker' = [worker EXCEPT ![r] = "idle"]
        /\ UNCHANGED shelf
     \/ /\ worker[r] \in {"systemic", "raised"} /\ strikes[r] + 1 < StrikeLimit
        /\ strikes' = [strikes EXCEPT ![r] = @ + 1]
        /\ worker' = [worker EXCEPT ![r] = "idle"]
        /\ IF worker[r] = "raised" THEN Restore(r, "error") ELSE UNCHANGED shelf
     \/ /\ worker[r] = "refused"
        /\ worker' = [worker EXCEPT ![r] = "none"]
        /\ Restore(r, "pending")
        /\ UNCHANGED strikes
  /\ queued' = [queued EXCEPT ![r] = @ \ {building[r].slot[2]}]
  /\ building' = [building EXCEPT ![r] = NoBuild]
  /\ UNCHANGED <<manifest, registered, queue, run, forced, copy, waiting, halting,
                 regen, outlived, failures, requests>>

-----------------------------------------------------------------------------
\* Mutation: the worker is stopped, and what runs is left to finish.
HaltWorkerOnly(h, self) ==
  /\ queue' = [queue EXCEPT ![h] = <<>>]
  /\ queued' = [queued EXCEPT ![h] = {}]
  /\ strikes' = [strikes EXCEPT ![h] = 0]
  /\ worker' = [r \in BookRuntime |-> IF r \in {self, h} THEN "none" ELSE worker[r]]
  /\ building' = [r \in BookRuntime |-> IF worker'[r] \in AtPage THEN building[r] ELSE NoBuild]
  /\ UNCHANGED <<run, forced, copy>>

(***************************************************************************)
(* _halt_compilation, first part: the worker and every compilation of the  *)
(* runtime h are cancelled, but for the task that halts; a worker that     *)
(* awaits one of them goes with it.  It then waits for them to end.  The   *)
(* worker that halts has left the runtime, which may be given another      *)
(* while it waits.                                                         *)
(***************************************************************************)
Halt(h, self) ==
  /\ run' = [s \in Slot |-> IF s[1] = h THEN "none" ELSE run[s]]
  /\ forced' = {s \in forced : s[1] # h}
  /\ copy' = [s \in Slot |-> IF s[1] = h THEN Blank ELSE copy[s]]
  /\ queue' = [queue EXCEPT ![h] = <<>>]
  /\ queued' = [queued EXCEPT ![h] = {}]
  /\ strikes' = [strikes EXCEPT ![h] = 0]
  /\ worker' = [r \in BookRuntime |->
                 IF r \in {self, h} \/ (worker[r] = "building" /\ building[r].slot[1] = h)
                   THEN "none" ELSE worker[r]]
  /\ building' = [r \in BookRuntime |-> IF worker'[r] \in AtPage THEN building[r] ELSE NoBuild]

\* pause_book saves the manifest first and then halts.
PauseBook ==
  /\ halting[Reader] = NoRuntime /\ Request
  /\ manifest' = "paused"
  /\ IF registered = NoRuntime
       THEN /\ shelf' = Stranded(shelf)
            /\ UNCHANGED <<queue, queued, strikes, worker, building, run, forced,
                           copy, halting>>
       ELSE /\ Halt(registered, Reader)
            /\ halting' = [halting EXCEPT ![Reader] = registered]
            /\ UNCHANGED shelf
  /\ UNCHANGED <<registered, waiting, regen, outlived, failures>>

\* The cancelled tasks are over: the runtime goes and the pages are reset.
PauseEnds ==
  /\ halting[Reader] # NoRuntime
  /\ registered' = IF registered = halting[Reader] THEN NoRuntime ELSE registered
  /\ halting' = [halting EXCEPT ![Reader] = NoRuntime]
  /\ shelf' = Stranded(shelf)
  /\ UNCHANGED <<manifest, queue, queued, strikes, worker, building, run, forced,
                 copy, waiting, regen, outlived, failures, requests>>

\* The breaker trips: _pause_compilation, from the worker itself.
Trip(r) ==
  /\ worker[r] \in {"systemic", "raised"} /\ strikes[r] + 1 >= StrikeLimit
  /\ IF worker[r] = "raised" THEN Restore(r, "error") ELSE UNCHANGED shelf
  /\ manifest' = "paused"
  /\ IF registered = NoRuntime
       THEN /\ worker' = [worker EXCEPT ![r] = "none"]
            /\ queued' = [queued EXCEPT ![r] = @ \ {building[r].slot[2]}]
            /\ building' = [building EXCEPT ![r] = NoBuild]
            /\ UNCHANGED <<queue, strikes, run, forced, copy, halting>>
       ELSE Halt(registered, r) /\ halting' = [halting EXCEPT ![r] = registered]
  /\ UNCHANGED <<registered, waiting, regen, outlived, failures, requests>>

\* The runtime goes; whoever took its place in the meantime does not.
TripEnds(r) ==
  /\ halting[r] # NoRuntime
  /\ registered' = IF registered = halting[r] THEN NoRuntime ELSE registered
  /\ halting' = [halting EXCEPT ![r] = NoRuntime]
  /\ UNCHANGED <<manifest, shelf, queue, queued, strikes, worker, building, run,
                 forced, copy, waiting, regen, outlived, failures, requests>>

\* update_block: the reader corrects a block, and the status is taken anew.
EditBlock(p) ==
  /\ shelf[p].body # "blank" /\ Request
  /\ \E status \in IF shelf[p].body = "part" THEN {"partial"}
                   ELSE IF shelf[p].status = "ready" THEN {"ready"} ELSE Settled :
       shelf' = [shelf EXCEPT ![p].edited = TRUE, ![p].status = status]
  /\ UNCHANGED <<manifest, registered, queue, queued, strikes, worker, building,
                 run, forced, copy, waiting, halting, regen, outlived, failures>>

\* regenerate_block loads the page and generates another block of it.
Regenerate(p) ==
  /\ manifest # "paused" /\ shelf[p].body # "blank" /\ regen = NoRegen /\ Request
  /\ regen' = [page |-> p, copy |-> shelf[p]]
  /\ UNCHANGED <<manifest, shelf, registered, queue, queued, strikes, worker,
                 building, run, forced, copy, waiting, halting, outlived, failures>>

\* It saves the page it loaded, whatever became of the page or the book.
Regenerated ==
  /\ regen # NoRegen
  /\ \/ UNCHANGED failures
        /\ \E status \in IF regen.copy.body = "full" THEN Settled ELSE {"partial"} :
             shelf' = [shelf EXCEPT ![regen.page] = [regen.copy EXCEPT !.status = status]]
     \/ Failure /\ ~regen.copy.edited
        /\ shelf' = [shelf EXCEPT ![regen.page] = [regen.copy EXCEPT !.status = "error"]]
  /\ Finalize(shelf')
  /\ regen' = NoRegen
  /\ UNCHANGED <<registered, queue, queued, strikes, worker, building, run, forced,
                 copy, waiting, halting, outlived, requests>>

\* The process is restarted; the book and its pages stay.
Restart ==
  /\ Request
  /\ Unloaded
  /\ UNCHANGED <<manifest, shelf, failures>>

Compile(s) == StartRun(s) \/ SavePage(s, "ready") \/ FinishRun(s)

Work(r) == TakePage(r) \/ Settle(r) \/ Trip(r)

BookNext ==
  \/ \E p \in BookPage : OpenPage(p) \/ ForcePage(p) \/ EditBlock(p) \/ Regenerate(p)
  \/ \E s \in Slot : \/ WakeForced(s) \/ Compile(s) \/ SaveBlock(s) \/ RaiseRun(s)
                     \/ \E status \in {"partial", "error"} : SavePage(s, status)
  \/ \E r \in BookRuntime : Work(r) \/ Retire(r) \/ TripEnds(r)
  \/ ResumeBook \/ OpenBook \/ PauseBook \/ PauseEnds \/ Regenerated \/ Restart

(***************************************************************************)
(* The event loop runs every task, a compilation ends, and the reader      *)
(* comes back to the book.  No request and no failure is promised.         *)
(***************************************************************************)
BookFairness ==
  /\ \A s \in Slot : WF_bookVars(Compile(s)) /\ WF_bookVars(WakeForced(s))
  /\ \A r \in BookRuntime :
       WF_bookVars(Work(r)) /\ WF_bookVars(Retire(r)) /\ WF_bookVars(TripEnds(r))
  /\ WF_bookVars(OpenBook) /\ WF_bookVars(PauseEnds) /\ WF_bookVars(Regenerated)

BookSpec == BookInit /\ [][BookNext]_bookVars
BookFairSpec == BookSpec /\ BookFairness

-----------------------------------------------------------------------------
(***************************************************************************)
(* No two compilations of a page run at once, whether the reader or the    *)
(* worker asked for it ("they can never race into compiling the same page  *)
(* twice"), unless a runtime was given work while it was halted, or after  *)
(* it was halted, retired or dropped from the table.                       *)
(***************************************************************************)
OneRunPerPage ==
  \A s, t \in Slot :
    s # t /\ s[2] = t[2] /\ run[s] = "running" /\ run[t] = "running"
      => s[1] \in outlived \/ t[1] \in outlived

(***************************************************************************)
(* Once a pause is through, no page of the paused book is compiled, with   *)
(* the same exceptions (engine.py pause_book, _pause_compilation).         *)
(***************************************************************************)
PauseHolds ==
  manifest = "paused" /\ (\A x \in DOMAIN halting : halting[x] = NoRuntime)
    => \A s \in Slot : run[s] = "running" => s[1] \in outlived

(***************************************************************************)
(* A book that is being compiled does not stay so for ever: it becomes     *)
(* ready or is paused, through failures, cancellations and restarts, as    *)
(* long as the reader comes back to it (engine.py maybe_resume_on_open).   *)
(* BookRuntime bounds the runtime objects that are alive at once: a book   *)
(* that needs another, when tasks hold them all, is not judged.            *)
(***************************************************************************)
NoneLeft == Table = {}

BookSettles == manifest = "compiling" ~> manifest # "compiling" \/ NoneLeft

(***************************************************************************)
(* A page that counts as finished has had every block run, so that resume  *)
(* may leave it alone (engine.py _UNFINISHED_PAGE_STATUSES).               *)
(***************************************************************************)
FinishedWasRun ==
  \A p \in BookPage : shelf[p].status \in Settled => shelf[p].body = "full"

(***************************************************************************)
(* What the reader wrote outlives every compilation that starts after it,  *)
(* forced, failed, cancelled or resumed ("hand-edited prose survives a     *)
(* forced regenerate").  Work that loaded the page before the edit saves   *)
(* its own copy over it.                                                   *)
(***************************************************************************)
InFlight(p) ==
  \/ regen.page = p
  \/ \E r \in BookRuntime :
       \/ run[<<r, p>>] = "running"
       \/ building[r].slot[2] = p /\ building[r].page.status = "generating"

EditsKept ==
  [][\A p \in BookPage : shelf[p].edited /\ ~InFlight(p) => shelf'[p].edited]_bookVars
=============================================================================
