------------------------------ MODULE PathLeases ------------------------------
(***************************************************************************)
(* The exclusive leases on mastery paths: how a tutor turn takes over a    *)
(* path (services/session/turns/learning_adapter.py), moves to another one *)
(* (capabilities/mastery/binding.py), pauses on a question, and gives the  *)
(* path back, while administrative requests exclude the tutors             *)
(* (api/routers/mastery_path.py).  The lease table is that of              *)
(* learning/storage.py: one holder per path, one path per holder.          *)
(*                                                                         *)
(* What a turn does to a path it works on is left out.                     *)
(***************************************************************************)

CONSTANTS
  Path,          \* mastery paths, all of which exist
  Tutor,         \* turns of the mastery capability
  Admin,         \* administrative requests (operation ids "api-...")
  Nobody,        \* no holder, no lease row
  NoPath,        \* no path was given up
  MayPark,       \* a turn asks the learner and waits
  MaySwitch,     \* a turn calls mastery_switch or mastery_leave
  Mortal         \* turns and requests whose worker may die

ASSUME HoldersDiffer == Tutor \cap Admin = {} /\ Nobody \notin Tutor \cup Admin
ASSUME NoPathIsNoPath == NoPath \notin Path

Holder == Tutor \cup Admin

VARIABLES
  holder,        \* the lease table: the holder of each path
  row,           \* status of each turn's database row
  step,          \* where each turn or request is
  on,            \* the path each one is bound to
  saw,           \* the holder it found in the table
  aim, left,     \* a switching turn's target, and the path to fall back to
  late,          \* acquisition that a cancelled switch left to its thread
  strayed,       \* turns that were deprived of their path (history)
  broken         \* holders that died or were cancelled in a switch (history)

pathVars == <<holder, row, step, on, saw, aim, left, late, strayed, broken>>

RowStatus == {"none", "running", "waiting_input", "ended"}
TutorStep == {"new", "looking", "judging", "freeing", "taking", "checking",
              "working", "parked", "switching", "returning", "closing", "over"}
AdminStep == {"new", "cancelling", "freeing", "taking", "working", "over"}

PathTypeOK ==
  /\ holder \in [Path -> Holder \cup {Nobody}]
  /\ row \in [Tutor -> RowStatus]
  /\ step \in [Holder -> TutorStep \cup AdminStep]
  /\ on \in [Holder -> Path \cup {NoPath}]
  /\ saw \in [Holder -> Holder \cup {Nobody}]
  /\ {aim, left, late} \subseteq [Tutor -> Path \cup {NoPath}]
  /\ strayed \subseteq Tutor /\ broken \subseteq Holder

PathInit ==
  /\ holder = [p \in Path |-> Nobody]
  /\ row = [t \in Tutor |-> "none"]
  /\ step = [x \in Holder |-> "new"]
  /\ on = [x \in Holder |-> NoPath]
  /\ saw = [x \in Holder |-> Nobody]
  /\ aim = [t \in Tutor |-> NoPath]
  /\ left = [t \in Tutor |-> NoPath]
  /\ late = [t \in Tutor |-> NoPath]
  /\ strayed = {} /\ broken = {}

To(x, s) == step' = [step EXCEPT ![x] = s]
SetRow(t, s) == row' = [row EXCEPT ![t] = s]
Give(p, x) == holder' = [holder EXCEPT ![p] = x]

\* acquire_path_lease: refused while another holder has the row.
CanTake(p, x) == holder[p] \in {Nobody, x}

\* release_path_lease, scoped to the holder.
ReleaseOf(p, x) == Give(p, IF holder[p] = x THEN Nobody ELSE holder[p])

\* release_leases_for_turn: whatever path the turn holds.
Freed(x) == [p \in Path |-> IF holder[p] = x THEN Nobody ELSE holder[p]]

\* What every step of a turn that is not switching leaves alone.
fixed == <<aim, left, late, broken>>

\* start_turn: the row is created and the execution is registered.
Begin(t, p) ==
  /\ step[t] = "new"
  /\ SetRow(t, "running")
  /\ on' = [on EXCEPT ![t] = p]
  /\ To(t, "looking")
  /\ UNCHANGED <<holder, saw, fixed, strayed>>

\* get_path_lease; the lease of an administrative request is left alone.
Look(t) ==
  /\ step[t] = "looking"
  /\ saw' = [saw EXCEPT ![t] = holder[on[t]]]
  /\ To(t, IF holder[on[t]] \in Tutor THEN "judging" ELSE "taking")
  /\ UNCHANGED <<holder, row, on, fixed, strayed>>

(***************************************************************************)
(* _release_superseded_lease: the lease is kept by a turn whose row says   *)
(* "running".  The cancellation of one that is also parked is not modelled *)
(* as a branch: a parked turn's row says "waiting_input" before its flag   *)
(* is set and until after it is cleared, so both are never seen together.  *)
(***************************************************************************)
Judge(t) ==
  /\ step[t] = "judging"
  /\ To(t, IF row[saw[t]] = "running" THEN "taking" ELSE "freeing")
  /\ UNCHANGED <<holder, row, on, saw, fixed, strayed>>

\* The superseded turn's lease goes; a lease taken by someone else stays.
FreeSuperseded(t) ==
  /\ step[t] = "freeing"
  /\ ReleaseOf(on[t], saw[t])
  /\ strayed' = IF holder[on[t]] = saw[t] THEN strayed \cup {saw[t]} ELSE strayed
  /\ To(t, "taking")
  /\ UNCHANGED <<row, on, saw, fixed>>

\* Mutation: the lease is written whoever has it.
TakeAnyway(t) ==
  /\ step[t] = "taking"
  /\ Give(on[t], t) /\ To(t, "checking")
  /\ saw' = [saw EXCEPT ![t] = Nobody]
  /\ UNCHANGED <<row, on, fixed, strayed>>

\* acquire_path_lease at the start of a turn; a conflict rejects the turn.
Take(t) ==
  /\ step[t] = "taking"
  /\ IF CanTake(on[t], t)
       THEN Give(on[t], t) /\ To(t, "checking") /\ UNCHANGED row
       ELSE To(t, "over") /\ SetRow(t, "ended") /\ UNCHANGED holder
  /\ saw' = [saw EXCEPT ![t] = Nobody]
  /\ UNCHANGED <<on, fixed, strayed>>

\* A turn that was cancelled while it started is not launched.
Check(t) ==
  /\ step[t] = "checking"
  /\ IF row[t] = "running"
       THEN To(t, "working") /\ UNCHANGED holder
       ELSE To(t, "over") /\ ReleaseOf(on[t], t)
  /\ UNCHANGED <<row, on, saw, fixed, strayed>>

\* ask_user; the pause is refused when the row is no longer running.
Park(t) ==
  /\ MayPark /\ step[t] = "working"
  /\ IF row[t] = "running"
       THEN SetRow(t, "waiting_input") /\ To(t, "parked")
       ELSE UNCHANGED row /\ To(t, "closing")
  /\ UNCHANGED <<holder, on, saw, fixed, strayed>>

\* The learner answers; nobody asks whether the turn still has its path.
Unpark(t) ==
  /\ step[t] = "parked"
  /\ SetRow(t, IF row[t] = "waiting_input" THEN "running" ELSE row[t])
  /\ To(t, "working")
  /\ UNCHANGED <<holder, on, saw, fixed, strayed>>

(***************************************************************************)
(* rebind_active_path gives up the lease before it asks for the next one;  *)
(* when that is refused it asks for the old one again, unless that is the  *)
(* path it was refused, and goes on on the old path with or without it.    *)
(***************************************************************************)
LeavePath(t, p) ==
  /\ MaySwitch /\ step[t] = "working"
  /\ left' = [left EXCEPT ![t] = IF p # on[t] /\ holder[on[t]] = t THEN on[t] ELSE NoPath]
  /\ aim' = [aim EXCEPT ![t] = p]
  /\ holder' = Freed(t)
  /\ To(t, "switching")
  /\ UNCHANGED <<row, on, saw, late, strayed, broken>>

EnterPath(t) ==
  /\ step[t] = "switching"
  /\ IF CanTake(aim[t], t)
       THEN /\ Give(aim[t], t) /\ To(t, "working")
            /\ on' = [on EXCEPT ![t] = aim[t]]
            /\ strayed' = strayed \ {t}
       ELSE To(t, "returning") /\ UNCHANGED <<holder, on, strayed>>
  /\ UNCHANGED <<row, saw, fixed>>

Return(t) ==
  /\ step[t] = "returning"
  /\ IF left[t] # NoPath /\ CanTake(left[t], t)
       THEN Give(left[t], t) /\ UNCHANGED strayed
       ELSE UNCHANGED holder /\ strayed' = strayed \cup {t}
  /\ To(t, "working")
  /\ UNCHANGED <<row, on, saw, fixed>>

\* The turn ends, or its owner cancels it, the thread of a switch running on.
Stop(t) ==
  /\ step[t] \in {"working", "parked", "switching", "returning"}
  /\ late' = [late EXCEPT ![t] = CASE step[t] = "switching" -> aim[t]
                                   [] step[t] = "returning" -> left[t]
                                   [] OTHER -> NoPath]
  /\ broken' = IF step[t] \in {"switching", "returning"} THEN broken \cup {t} ELSE broken
  /\ SetRow(t, "ended")
  /\ To(t, "closing")
  /\ UNCHANGED <<holder, on, saw, aim, left, strayed>>

ThreadTakes(t) ==
  /\ late[t] # NoPath
  /\ holder' = IF CanTake(late[t], t) THEN [holder EXCEPT ![late[t]] = t] ELSE holder
  /\ late' = [late EXCEPT ![t] = NoPath]
  /\ UNCHANGED <<row, step, on, saw, aim, left, strayed, broken>>

DropSwitch(t) == aim' = [aim EXCEPT ![t] = NoPath] /\ left' = [left EXCEPT ![t] = NoPath]

\* Mutation: the path that the turn is on is released, not what it holds.
CloseByPath(t) ==
  /\ step[t] = "closing"
  /\ ReleaseOf(IF aim[t] = NoPath THEN on[t] ELSE left[t], t)
  /\ To(t, "over")
  /\ DropSwitch(t)
  /\ UNCHANGED <<row, on, saw, late, broken, strayed>>

\* The finally of _run_turn releases by turn, not by path.
Finish(t) ==
  /\ step[t] = "closing"
  /\ holder' = Freed(t)
  /\ To(t, "over")
  /\ DropSwitch(t)
  /\ UNCHANGED <<row, on, saw, late, broken, strayed>>

\* The worker dies with its threads; the leader's recovery ends the row later.
Die(t) ==
  /\ t \in Mortal /\ step[t] \notin {"new", "over"}
  /\ To(t, "over")
  /\ broken' = broken \cup {t}
  /\ saw' = [saw EXCEPT ![t] = Nobody] /\ late' = [late EXCEPT ![t] = NoPath]
  /\ DropSwitch(t)
  /\ UNCHANGED <<holder, row, on, strayed>>

Recover(t) ==
  /\ step[t] = "over" /\ row[t] \in {"running", "waiting_input"}
  /\ SetRow(t, "ended")
  /\ UNCHANGED <<holder, step, on, saw, fixed, strayed>>

-----------------------------------------------------------------------------
\* _cancel_active_learning_turn, without a lease: the rows of the path's turns.
Sweep(p) ==
  row' = [t \in Tutor |-> IF on[t] = p /\ row[t] = "running" THEN "ended" ELSE row[t]]

Ask(a, p) ==
  /\ step[a] = "new"
  /\ on' = [on EXCEPT ![a] = p]
  /\ saw' = [saw EXCEPT ![a] = holder[p]]
  /\ To(a, IF holder[p] \in Tutor THEN "cancelling" ELSE "taking")
  /\ IF holder[p] = Nobody THEN Sweep(p) ELSE UNCHANGED row
  /\ UNCHANGED <<holder, fixed, strayed>>

(***************************************************************************)
(* cancel_turn of the routers' own runtime, which knows none of the        *)
(* executions: the row of a running turn is ended, its task goes on.       *)
(***************************************************************************)
CancelTutor(a) ==
  /\ step[a] = "cancelling"
  /\ SetRow(saw[a], IF row[saw[a]] = "running" THEN "ended" ELSE row[saw[a]])
  /\ To(a, "freeing")
  /\ UNCHANGED <<holder, on, saw, fixed, strayed>>

FreeTutor(a) ==
  /\ step[a] = "freeing"
  /\ ReleaseOf(on[a], saw[a])
  /\ strayed' = IF holder[on[a]] = saw[a] THEN strayed \cup {saw[a]} ELSE strayed
  /\ To(a, "taking")
  /\ UNCHANGED <<row, on, saw, fixed>>

\* The request's own lease, or a 409.
TakeOver(a) ==
  /\ step[a] = "taking"
  /\ IF CanTake(on[a], a)
       THEN Give(on[a], a) /\ To(a, "working")
       ELSE UNCHANGED holder /\ To(a, "over")
  /\ saw' = [saw EXCEPT ![a] = Nobody]
  /\ UNCHANGED <<row, on, fixed, strayed>>

GiveBack(a) ==
  /\ step[a] = "working"
  /\ ReleaseOf(on[a], a)
  /\ To(a, "over")
  /\ UNCHANGED <<row, on, saw, fixed, strayed>>

DieAsking(a) ==
  /\ a \in Mortal /\ step[a] \notin {"new", "over"}
  /\ To(a, "over")
  /\ broken' = broken \cup {a}
  /\ saw' = [saw EXCEPT ![a] = Nobody]
  /\ UNCHANGED <<holder, row, on, aim, left, late, strayed>>

\* What a turn or a request does by itself.
Proceed(t) ==
  \/ Look(t) \/ Judge(t) \/ FreeSuperseded(t) \/ Take(t) \/ Check(t)
  \/ EnterPath(t) \/ Return(t) \/ Finish(t)

ProceedAdmin(a) == CancelTutor(a) \/ FreeTutor(a) \/ TakeOver(a) \/ GiveBack(a)

PathNext ==
  \/ \E t \in Tutor :
       \/ Proceed(t) \/ Park(t) \/ Unpark(t) \/ Stop(t) \/ ThreadTakes(t)
       \/ Die(t) \/ Recover(t)
       \/ \E p \in Path : Begin(t, p) \/ LeavePath(t, p)
  \/ \E a \in Admin :
       \/ ProceedAdmin(a) \/ DieAsking(a)
       \/ \E p \in Path : Ask(a, p)

PathSpec == PathInit /\ [][PathNext]_pathVars

-----------------------------------------------------------------------------
Working(x) == step[x] = "working"

(***************************************************************************)
(* "The one active mutating turn allowed for a mastery path": two turns    *)
(* never work on one path.                                                 *)
(***************************************************************************)
PathExclusive ==
  \A t, u \in Tutor : Working(t) /\ Working(u) /\ on[t] = on[u] => t = u

(***************************************************************************)
(* Whoever works on a path holds its lease, but for the turns that were    *)
(* deprived of it: parked and superseded, refused on a switch and on the   *)
(* way back, or cancelled by a request that cannot reach their task.       *)
(***************************************************************************)
WorkersHoldPaths ==
  \A x \in Holder \ strayed : Working(x) => holder[on[x]] = x

(***************************************************************************)
(* A turn or a request that is over holds no path, whichever path it moved *)
(* to, unless it died or its switch was cancelled under way.               *)
(***************************************************************************)
PathsGivenBack ==
  \A x \in Holder \ broken : step[x] = "over" => \A p \in Path : holder[p] # x
=============================================================================
