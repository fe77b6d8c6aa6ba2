--------------------------- MODULE TurnCoordinator ---------------------------
(***************************************************************************)
(* The turn leases of deeptutor/runtime/coordination: one module for the   *)
(* in-process MemoryCoordinator and the Lua scripts of the Redis adapter,  *)
(* told apart by the constant Redis where the two differ.                  *)
(*                                                                         *)
(* A worker that starts a turn acquires a lease on the turn's session,     *)
(* renews it while it executes and releases it at the end.  A lease that   *)
(* is not renewed expires; the leader then finds the turn in the registry  *)
(* of known turns, recovers it and acknowledges it.                        *)
(*                                                                         *)
(* Time is abstracted to the one event the code can observe: a lease that  *)
(* is live becomes expired.  The owner id is abstracted away: every turn   *)
(* id is a fresh uuid acquired once, so turn and token identify the owner. *)
(***************************************************************************)
EXTENDS Turns

CONSTANTS
  NoTurn,       \* "this session has no current turn"
  Redis         \* TRUE: the Redis adapter; FALSE: the in-process one

ASSUME NoTurnIsNoTurn == NoTurn \notin Turn
ASSUME RedisIsBoolean == Redis \in BOOLEAN

VARIABLES
  lease,        \* fencing token of the lease record kept for a turn, 0 for none
  live,         \* turns whose lease record has not expired
  sessionTurn,  \* the turn a session's lease points to
  fence,        \* the last fencing token issued
  known,        \* registry of turns the recovery scan looks at
  claim         \* token in the TurnLease object a caller was handed, 0 for none

coordVars == <<lease, live, sessionTurn, fence, known, claim>>

CoordTypeOK ==
  /\ lease \in [Turn -> Nat]
  /\ live \subseteq Turn
  /\ sessionTurn \in [Session -> Turn \cup {NoTurn}]
  /\ fence \in Nat
  /\ known \subseteq Turn
  /\ claim \in [Turn -> Nat]

CoordInit ==
  /\ lease = [t \in Turn |-> 0]
  /\ live = {}
  /\ sessionTurn = [s \in Session |-> NoTurn]
  /\ fence = 0
  /\ known = {}
  /\ claim = [t \in Turn |-> 0]

\* get_lease: the record of an expired lease is not returned.
Active(t) == t \in live

SessionHeld(s) == sessionTurn[s] # NoTurn /\ Active(sessionTurn[s])

(***************************************************************************)
(* acquire_turn: refused while the session's current lease is live;        *)
(* otherwise a new token is issued and an expired lease is overwritten.    *)
(***************************************************************************)
\* Mutation: the session's current lease is not looked at.
CanAcquireHeld(t) == claim[t] = 0

CanAcquire(t) ==
  /\ claim[t] = 0
  /\ ~SessionHeld(SessionOf[t])

\* The lease record, the session's pointer and the caller's lease object.
HandOut(t) ==
  /\ lease' = [lease EXCEPT ![t] = fence + 1]
  /\ claim' = [claim EXCEPT ![t] = fence + 1]
  /\ live' = live \cup {t}
  /\ sessionTurn' = [sessionTurn EXCEPT ![SessionOf[t]] = t]

\* Mutation: the turn is not entered in the registry.
AcquireUnregistered(t) ==
  CanAcquire(t) /\ HandOut(t) /\ fence' = fence + 1 /\ UNCHANGED known

Acquire(t) ==
  /\ CanAcquire(t)
  /\ HandOut(t)
  /\ fence' = fence + 1
  /\ known' = known \cup {t}

\* The caller's lease object names the record that is stored now.
Matches(t) == claim[t] # 0 /\ lease[t] = claim[t]

\* Mutation: the stored record is not looked at.
CanRenewBlind(t) == claim[t] # 0

\* renew_turn succeeds only for the matching holder of a lease still live.
CanRenew(t) == Matches(t) /\ Active(t)

Renew(t) ==
  /\ CanRenew(t)
  /\ live' = live \cup {t}
  /\ UNCHANGED <<lease, sessionTurn, fence, known, claim>>

\* Mutation: the session's pointer is cleared whichever turn it names.
DropPointer(t) ==
  /\ lease' = [lease EXCEPT ![t] = 0]
  /\ live' = live \ {t}
  /\ sessionTurn' = [sessionTurn EXCEPT ![SessionOf[t]] = NoTurn]

\* Drop the record of t, and the session's pointer when it is still t.
Drop(t) ==
  /\ lease' = [lease EXCEPT ![t] = 0]
  /\ live' = live \ {t}
  /\ sessionTurn' = [sessionTurn EXCEPT ![SessionOf[t]] =
                       IF @ = t THEN NoTurn ELSE @]

\* Mutation: the registry entry goes even when the lease does not match.
ReleaseUnmatched(t) ==
  /\ IF Matches(t) THEN Drop(t) ELSE UNCHANGED <<lease, live, sessionTurn>>
  /\ known' = known \ {t}
  /\ UNCHANGED <<fence, claim>>

(***************************************************************************)
(* release_turn: a mismatch changes nothing.  The Redis script also takes  *)
(* the turn out of the registry of leases; the memory adapter does not.    *)
(***************************************************************************)
Release(t) ==
  IF Matches(t)
    THEN /\ Drop(t)
         /\ known' = IF Redis THEN known \ {t} ELSE known
         /\ UNCHANGED <<fence, claim>>
    ELSE UNCHANGED coordVars

(***************************************************************************)
(* The TTL runs out.  Redis deletes the two keys; the memory adapter keeps *)
(* the record, which _active() no longer accepts.                          *)
(***************************************************************************)
Expire(t) ==
  /\ Active(t)
  /\ IF Redis
       THEN Drop(t)
       ELSE live' = live \ {t} /\ UNCHANGED <<lease, sessionTurn>>
  /\ UNCHANGED <<fence, known, claim>>

\* list_expired_turn_ids
Expired == {t \in known : ~Active(t)}

\* acknowledge_expired_turn
Acknowledge(t) ==
  /\ known' = known \ {t}
  /\ IF lease[t] # 0 /\ ~Active(t)
       THEN Drop(t)
       ELSE UNCHANGED <<lease, live, sessionTurn>>
  /\ UNCHANGED <<fence, claim>>

\* The only process of a memory deployment restarts: its coordinator is empty.
Forget ==
  /\ ~Redis
  /\ lease' = [t \in Turn |-> 0]
  /\ live' = {}
  /\ sessionTurn' = [s \in Session |-> NoTurn]
  /\ fence' = 0
  /\ known' = {}
  /\ UNCHANGED claim

(***************************************************************************)
(* recover_once acknowledges only turns of its list of expired ones, and   *)
(* an expired lease never comes back.  Acknowledge itself does not look:   *)
(* it is a contract of its callers.                                        *)
(***************************************************************************)
WasExpired(t) == claim[t] # 0 /\ ~Active(t)

CoordNext ==
  \/ \E t \in Turn : \/ Acquire(t)
                     \/ Renew(t)
                     \/ Release(t)
                     \/ Expire(t)
                     \/ WasExpired(t) /\ Acknowledge(t)
  \/ Forget

CoordSpec == CoordInit /\ [][CoordNext]_coordVars

-----------------------------------------------------------------------------
(***************************************************************************)
(* At most one turn of a session holds a live lease, whatever the order of *)
(* expiry, late release by the old owner, acknowledgement and acquisition  *)
(* by the next one (acquire_turn, release_turn, acknowledge_expired_turn). *)
(***************************************************************************)
LeaseExclusive ==
  \A t, u \in live : SessionOf[t] = SessionOf[u] => t = u

(***************************************************************************)
(* Fencing: the holder of a live lease carries a larger token than every   *)
(* other turn of its session that ever got one, so that a stale holder can *)
(* be told from the current one (the INCR of the acquire script).  In      *)
(* memory the counter restarts with the process.                           *)
(***************************************************************************)
FencingOrder ==
  Redis => \A t \in live, u \in Turn :
             /\ u # t
             /\ SessionOf[u] = SessionOf[t]
             => claim[u] < claim[t]

(***************************************************************************)
(* A live lease can always be found by the session that it blocks and by   *)
(* the recovery scan once it expires: the pointer, the record and the      *)
(* registry that acquire_turn writes together never come apart, although   *)
(* release, the TTL, the next acquire_turn and an acknowledgement that is  *)
(* late by any time each change them for another turn.                     *)
(***************************************************************************)
LeaseReachable ==
  \A t \in live : /\ sessionTurn[SessionOf[t]] = t
                  /\ lease[t] = claim[t]
                  /\ lease[t] # 0
                  /\ t \in known

(***************************************************************************)
(* A lease that expired, was released or was forgotten never comes back to *)
(* life: recovery may act on a turn it saw expired (renew_turn refuses an  *)
(* expired lease).                                                         *)
(***************************************************************************)
NeverRevived ==
  [][\A t \in Turn : claim[t] # 0 /\ ~Active(t) => ~Active(t)']_coordVars

\* What the sessions of the coordinator look like from outside: FencedLease.
Lease == INSTANCE FencedLease WITH
           holders <- [s \in Session |-> {t \in live : SessionOf[t] = s}],
           past <- {t \in Turn : claim[t] # 0}

(***************************************************************************)
(* The coordinator implements the abstract fenced lease per session.       *)
(***************************************************************************)
ImplementsLease == Lease!Spec
=============================================================================
