-------------------------- MODULE TurnRuntime_proofs ---------------------------
(***************************************************************************)
(* Proofs about leases, rows and the life of turns, for any turns,         *)
(* sessions, workers and bounds and for both adapters.                     *)
(*                                                                         *)
(* LeaseExclusive is not inductive: that no other turn of the session is   *)
(* live when acquire_turn finds the session's pointer dead follows only    *)
(* because every live turn is the one its session points to.  That is      *)
(* LeaseReachable, which is inductive with the types, and from which       *)
(* LeaseExclusive follows.                                                 *)
(*                                                                         *)
(* The runtime is a client of the leases and of the rows: each of its      *)
(* steps is a step of TurnCoordinator or leaves the leases alone, and a    *)
(* step of TurnStore or leaves the rows alone.  What is proved of the two  *)
(* components under any client therefore holds of the whole system.  The   *)
(* first fact needs TargetsAreLost, since the leases stay reachable only   *)
(* when expired turns alone are acknowledged; the second one needs the     *)
(* types of the tokens the runtime hands to the store.  Both are part of   *)
(* RuntimeInv.                                                             *)
(***************************************************************************)
EXTENDS TurnRuntime, TLAPS

-----------------------------------------------------------------------------
(* The leases under any clients of the coordinator                         *)

CoordInv == CoordTypeOK /\ LeaseReachable

\* The pointer of a session names at most one turn.
LEMMA ReachableIsExclusive ==
  ASSUME LeaseReachable
  PROVE  LeaseExclusive
BY DEF LeaseReachable, LeaseExclusive

\* A session that is not held has no live turn.
LEMMA NotHeldIsEmpty ==
  ASSUME LeaseReachable, NEW t \in Turn, CoordTypeOK, ~SessionHeld(SessionOf[t])
  PROVE  \A u \in live : SessionOf[u] # SessionOf[t]
BY NoTurnIsNoTurn DEF LeaseReachable, SessionHeld, Active, CoordTypeOK

\* Dropping a turn, and its registry entry, leaves the other live turns reachable.
LEMMA DropKeepsReachable ==
  ASSUME CoordInv, NEW t \in Turn, Drop(t), UNCHANGED claim, known \ {t} \subseteq known'
  PROVE  /\ LeaseReachable'
         /\ lease' \in [Turn -> Nat]
         /\ live' \subseteq Turn
         /\ sessionTurn' \in [Session -> Turn \cup {NoTurn}]
BY SessionOfType DEF CoordInv, CoordTypeOK, LeaseReachable, Drop

LEMMA CoordInitInv == CoordInit => CoordInv
BY DEF CoordInit, CoordInv, CoordTypeOK, LeaseReachable

LEMMA CoordNextInv == CoordInv /\ [CoordNext]_coordVars => CoordInv'
<1> SUFFICES ASSUME CoordInv, [CoordNext]_coordVars
             PROVE  CoordInv'
  OBVIOUS
<1> USE DEF CoordInv
<1>1. ASSUME NEW t \in Turn, Acquire(t)
      PROVE  CoordInv'
  <2>1. \A u \in live : SessionOf[u] # SessionOf[t]
    BY <1>1, NotHeldIsEmpty DEF Acquire, CanAcquire
  <2>2. CoordTypeOK'
    <3>1. /\ fence + 1 \in Nat \ {0}
          /\ SessionOf[t] \in Session
      BY SessionOfType DEF CoordTypeOK
    <3>2. lease' \in [Turn -> Nat] /\ claim' \in [Turn -> Nat]
      BY <1>1, <3>1 DEF CoordTypeOK, Acquire, HandOut
    <3>3. live' \subseteq Turn /\ known' \subseteq Turn /\ fence' \in Nat
      BY <1>1, <3>1 DEF CoordTypeOK, Acquire, HandOut
    <3>4. sessionTurn' \in [Session -> Turn \cup {NoTurn}]
      BY <1>1, <3>1 DEF CoordTypeOK, Acquire, HandOut
    <3> QED
      BY <3>2, <3>3, <3>4 DEF CoordTypeOK
  <2>3. LeaseReachable'
    <3> SUFFICES ASSUME NEW u \in live'
                 PROVE  /\ sessionTurn'[SessionOf[u]] = u
                        /\ lease'[u] = claim'[u]
                        /\ lease'[u] # 0
                        /\ u \in known'
      BY DEF LeaseReachable
    <3>1. CASE u = t
      <4>1. fence + 1 # 0 /\ SessionOf[t] \in Session
        BY SessionOfType DEF CoordTypeOK
      <4> QED
        BY <1>1, <3>1, <4>1 DEF CoordTypeOK, Acquire, HandOut
    <3>2. CASE u # t
      BY <1>1, <2>1, <3>2, SessionOfType DEF CoordTypeOK, Acquire, HandOut, LeaseReachable
    <3> QED
      BY <3>1, <3>2
  <2> QED
    BY <2>2, <2>3
<1>2. ASSUME NEW t \in Turn, Renew(t)
      PROVE  CoordInv'
  BY <1>2 DEF Renew, CanRenew, Active, CoordTypeOK, LeaseReachable
<1>3. ASSUME NEW t \in Turn, Release(t)
      PROVE  CoordInv'
  <2>1. CASE Matches(t)
    BY <1>3, <2>1, DropKeepsReachable DEF Release, CoordTypeOK
  <2>2. CASE ~Matches(t)
    BY <1>3, <2>2 DEF Release, coordVars, CoordTypeOK, LeaseReachable
  <2> QED
    BY <2>1, <2>2
<1>4. ASSUME NEW t \in Turn, Expire(t)
      PROVE  CoordInv'
  <2>1. CASE Redis
    BY <1>4, <2>1, DropKeepsReachable DEF Expire, CoordTypeOK
  <2>2. CASE ~Redis
    BY <1>4, <2>2 DEF Expire, CoordTypeOK, LeaseReachable
  <2> QED
    BY <2>1, <2>2
<1>5. ASSUME NEW t \in Turn, WasExpired(t), Acknowledge(t)
      PROVE  CoordInv'
  <2>1. CASE lease[t] # 0 /\ ~Active(t)
    BY <1>5, <2>1, DropKeepsReachable DEF Acknowledge, CoordTypeOK
  <2>2. CASE ~(lease[t] # 0 /\ ~Active(t))
    BY <1>5, <2>2 DEF Acknowledge, WasExpired, Active, CoordTypeOK, LeaseReachable
  <2> QED
    BY <2>1, <2>2
<1>6. CASE Forget
  BY <1>6 DEF Forget, CoordTypeOK, LeaseReachable
<1>7. CASE UNCHANGED coordVars
  BY <1>7 DEF coordVars, CoordTypeOK, LeaseReachable
<1> QED
  BY <1>1, <1>2, <1>3, <1>4, <1>5, <1>6, <1>7 DEF CoordNext

(***************************************************************************)
(* The state of a coordinator is always well typed, and a live lease is    *)
(* always the one its session points to and in the registry, if only       *)
(* expired turns are acknowledged.                                         *)
(***************************************************************************)
THEOREM CoordInvariant == CoordSpec => []CoordInv
BY CoordInitInv, CoordNextInv, PTL DEF CoordSpec

\* The state of a coordinator is always well typed (memory.py, redis.py).
THEOREM CoordTypeCorrect == CoordSpec => []CoordTypeOK
<1>1. CoordInv => CoordTypeOK
  BY DEF CoordInv
<1> QED
  BY <1>1, CoordInvariant, PTL

\* A live lease is found through its session, and by recovery once it expires.
THEOREM LeaseIsReachable == CoordSpec => []LeaseReachable
<1>1. CoordInv => LeaseReachable
  BY DEF CoordInv
<1> QED
  BY <1>1, CoordInvariant, PTL

\* acquire_turn never grants a session that another turn holds.
THEOREM LeaseIsExclusive == CoordSpec => []LeaseExclusive
BY LeaseIsReachable, ReachableIsExclusive, PTL

-----------------------------------------------------------------------------
(***************************************************************************)
(* Fencing.  Without a restart of the counter every token handed out so    *)
(* far is at most fence, so that the next one exceeds them all.            *)
(***************************************************************************)
FenceInv == Redis => \A t \in Turn : claim[t] <= fence

LEMMA FenceInvInductive ==
  ASSUME CoordInv, FenceInv, [CoordNext]_coordVars
  PROVE  FenceInv'
<1> USE DEF FenceInv, CoordInv, CoordTypeOK
<1>1. ASSUME NEW t \in Turn, Acquire(t)
      PROVE  FenceInv'
  BY <1>1 DEF Acquire, HandOut
<1>2. ASSUME NEW t \in Turn, Renew(t) \/ Release(t) \/ Expire(t) \/ Acknowledge(t)
      PROVE  FenceInv'
  BY <1>2 DEF Renew, Release, Expire, Acknowledge, coordVars
<1>3. CASE Forget
  BY <1>3 DEF Forget
<1>4. CASE UNCHANGED coordVars
  BY <1>4 DEF coordVars
<1> QED
  BY <1>1, <1>2, <1>3, <1>4 DEF CoordNext

\* Only an acquisition hands out a token or makes a turn live.
LEMMA OnlyAcquireAdds ==
  ASSUME CoordInv, NEW t \in Turn,
         Renew(t) \/ Release(t) \/ Expire(t) \/ Acknowledge(t)
  PROVE  live' \subseteq live /\ UNCHANGED claim
<1>1. CASE Renew(t)
  BY <1>1 DEF Renew, CanRenew, Active
<1>2. CASE Release(t)
  BY <1>2 DEF Release, Drop, coordVars
<1>3. CASE Expire(t)
  BY <1>3 DEF Expire, Drop
<1>4. CASE Acknowledge(t)
  BY <1>4 DEF Acknowledge, Drop
<1> QED
  BY <1>1, <1>2, <1>3, <1>4

LEMMA FencingInductive ==
  ASSUME CoordInv, FenceInv, FencingOrder, [CoordNext]_coordVars
  PROVE  FencingOrder'
<1>1. ASSUME NEW t \in Turn, Acquire(t)
      PROVE  FencingOrder'
  <2> SUFFICES ASSUME Redis, NEW v \in live', NEW u \in Turn,
                      u # v, SessionOf[u] = SessionOf[v]
               PROVE  claim'[u] < claim'[v]
    BY DEF FencingOrder
  <2>1. \A w \in live : SessionOf[w] # SessionOf[t]
    BY <1>1, NotHeldIsEmpty DEF Acquire, CanAcquire, CoordInv
  <2>2. /\ live' = live \cup {t}
        /\ claim' = [claim EXCEPT ![t] = fence + 1]
        /\ claim \in [Turn -> Nat]
        /\ fence \in Nat
        /\ live \subseteq Turn
    BY <1>1 DEF Acquire, HandOut, CoordInv, CoordTypeOK
  <2>3. CASE v = t
    BY <2>2, <2>3 DEF FenceInv
  <2>4. CASE v # t
    <3>1. v \in live /\ u # t
      BY <2>1, <2>2, <2>4
    <3> QED
      BY <2>2, <2>4, <3>1 DEF FencingOrder
  <2> QED
    BY <2>3, <2>4
<1>2. ASSUME NEW t \in Turn, Renew(t) \/ Release(t) \/ Expire(t) \/ Acknowledge(t)
      PROVE  FencingOrder'
  BY <1>2, OnlyAcquireAdds DEF FencingOrder
<1>3. CASE Forget
  BY <1>3 DEF Forget, FencingOrder
<1>4. CASE UNCHANGED coordVars
  BY <1>4 DEF coordVars, FencingOrder
<1> QED
  BY <1>1, <1>2, <1>3, <1>4 DEF CoordNext

\* A newer holder of a session always has the larger token (redis.py INCR).
THEOREM TokensAreOrdered == CoordSpec => []FencingOrder
<1>1. CoordInit => FenceInv /\ FencingOrder
  BY DEF CoordInit, FenceInv, FencingOrder
<1>2. CoordInv /\ FenceInv /\ FencingOrder /\ [CoordNext]_coordVars
      => FenceInv' /\ FencingOrder'
  BY FenceInvInductive, FencingInductive
<1> QED
  BY <1>1, <1>2, CoordInvariant, PTL DEF CoordSpec

-----------------------------------------------------------------------------
\* Everything in the registry was acquired once.
KnownWereClaimed == \A t \in known : claim[t] # 0

LEMMA KnownInductive ==
  ASSUME CoordInv, KnownWereClaimed, [CoordNext]_coordVars
  PROVE  KnownWereClaimed'
<1> USE DEF KnownWereClaimed, CoordInv, CoordTypeOK
<1>1. ASSUME NEW t \in Turn, Acquire(t)
      PROVE  KnownWereClaimed'
  BY <1>1 DEF Acquire, HandOut
<1>2. ASSUME NEW t \in Turn, Renew(t) \/ Release(t) \/ Expire(t) \/ Acknowledge(t)
      PROVE  KnownWereClaimed'
  <2>1. known' \subseteq known
    BY <1>2 DEF Renew, Release, Expire, Acknowledge, coordVars
  <2> QED
    BY <1>2, <2>1, OnlyAcquireAdds
<1>3. CASE Forget \/ UNCHANGED coordVars
  BY <1>3 DEF Forget, coordVars
<1> QED
  BY <1>1, <1>2, <1>3 DEF CoordNext

\* A turn is acquired once: its token is never replaced, and a lease that is
\* gone stays gone.
LEMMA ClaimedOnce ==
  ASSUME CoordInv, [CoordNext]_coordVars, NEW t \in Turn, claim[t] # 0
  PROVE  /\ claim'[t] = claim[t]
         /\ ~Active(t) => ~Active(t)'
<1>1. ASSUME NEW u \in Turn, Acquire(u)
      PROVE  claim'[t] = claim[t] /\ (~Active(t) => ~Active(t)')
  BY <1>1 DEF Acquire, CanAcquire, HandOut, Active, CoordInv, CoordTypeOK
<1>2. ASSUME NEW u \in Turn, Renew(u) \/ Release(u) \/ Expire(u) \/ Acknowledge(u)
      PROVE  claim'[t] = claim[t] /\ (~Active(t) => ~Active(t)')
  BY <1>2, OnlyAcquireAdds DEF Active
<1>3. CASE Forget \/ UNCHANGED coordVars
  BY <1>3 DEF Forget, coordVars, Active
<1> QED
  BY <1>1, <1>2, <1>3 DEF CoordNext

\* renew_turn cannot bring an expired lease back: what recovery saw as expired
\* stays expired.
THEOREM LeasesStayDead == CoordSpec => NeverRevived
<1>1. CoordInv /\ [CoordNext]_coordVars
      => [\A t \in Turn : claim[t] # 0 /\ ~Active(t) => ~Active(t)']_coordVars
  BY ClaimedOnce DEF Active
<1> QED
  BY <1>1, CoordInvariant, PTL DEF CoordSpec, NeverRevived

-----------------------------------------------------------------------------
\* What the sessions look like from outside: the mapping of Lease.
Holders == [s \in Session |-> {t \in live : SessionOf[t] = s}]
Past == {t \in Turn : claim[t] # 0}

\* When a turn leaves live, its session becomes free and no other changes.
LEMMA LeavingFreesSession ==
  ASSUME CoordInv, NEW t \in Turn, live' = live \ {t}, UNCHANGED claim
  PROVE  Lease!Next \/ UNCHANGED Lease!vars
<1>1. CASE t \in live
  <2>1. SessionOf[t] \in Session
    BY SessionOfType
  <2>2. Holders[SessionOf[t]] # {}
    BY <1>1, <2>1 DEF Holders
  <2>3. Holders' = [Holders EXCEPT ![SessionOf[t]] = {}]
    BY <1>1, <2>1, ReachableIsExclusive DEF Holders, LeaseExclusive, CoordInv
  <2>4. Lease!GiveUp(SessionOf[t])
    BY <2>2, <2>3 DEF Lease!GiveUp, Holders
  <2> QED
    BY <2>1, <2>4 DEF Lease!Next
<1>2. CASE t \notin live
  <2>1. live' = live
    BY <1>2
  <2> QED
    BY <2>1 DEF Lease!vars
<1> QED
  BY <1>1, <1>2

\* Every step of the coordinator is a step of the abstract lease, or none.
LEMMA CoordStepRefines ==
  ASSUME CoordInv, [CoordNext]_coordVars
  PROVE  [Lease!Next]_(Lease!vars)
<1>1. ASSUME NEW t \in Turn, Acquire(t)
      PROVE  Lease!Next
  <2>1. \A u \in live : SessionOf[u] # SessionOf[t]
    BY <1>1, NotHeldIsEmpty DEF Acquire, CanAcquire, CoordInv
  <2>2. /\ live' = live \cup {t}
        /\ claim' = [claim EXCEPT ![t] = fence + 1]
        /\ claim[t] = 0
    BY <1>1 DEF Acquire, CanAcquire, HandOut
  <2>3. /\ claim \in [Turn -> Nat]
        /\ fence + 1 # 0
        /\ SessionOf[t] \in Session
        /\ live \subseteq Turn
    BY SessionOfType DEF CoordInv, CoordTypeOK
  <2>4. t \notin Past /\ Past' = Past \cup {t}
    BY <2>2, <2>3 DEF Past
  <2>5. Holders[SessionOf[t]] = {} /\ Holders' = [Holders EXCEPT ![SessionOf[t]] = {t}]
    BY <2>1, <2>2, <2>3 DEF Holders
  <2>6. Lease!Grant(t)
    BY <2>4, <2>5 DEF Lease!Grant, Past, Holders
  <2> QED
    BY <2>6 DEF Lease!Next
<1>2. ASSUME NEW t \in Turn, Renew(t)
      PROVE  UNCHANGED Lease!vars
  <2>1. live' = live /\ claim' = claim
    BY <1>2 DEF Renew, CanRenew, Active
  <2> QED
    BY <2>1 DEF Lease!vars
<1>3. ASSUME NEW t \in Turn, Release(t) \/ Expire(t) \/ Acknowledge(t)
      PROVE  [Lease!Next]_(Lease!vars)
  <2>1. /\ live' = live \ {t} \/ live' = live
        /\ claim' = claim
    BY <1>3 DEF Release, Expire, Acknowledge, Drop, coordVars
  <2>2. CASE live' = live \ {t}
    BY <2>1, <2>2, LeavingFreesSession
  <2>3. CASE live' = live
    BY <2>1, <2>3 DEF Lease!vars
  <2> QED
    BY <2>1, <2>2, <2>3
<1>4. ASSUME Forget
      PROVE  Lease!Next
  <2>1. live' = {} /\ claim' = claim
    BY <1>4 DEF Forget
  <2>2. Lease!GiveUpAll
    BY <2>1 DEF Lease!GiveUpAll
  <2> QED
    BY <2>2 DEF Lease!Next
<1>5. CASE UNCHANGED coordVars
  BY <1>5 DEF coordVars, Lease!vars
<1> QED
  BY <1>1, <1>2, <1>3, <1>4, <1>5 DEF CoordNext

\* Both adapters implement the abstract fenced lease per session.
THEOREM CoordImplementsLease == CoordSpec => ImplementsLease
<1>1. CoordInit => Lease!Init
  BY DEF CoordInit, Lease!Init
<1> QED
  BY <1>1, CoordStepRefines, CoordInvariant, PTL DEF CoordSpec, ImplementsLease, Lease!Spec
-----------------------------------------------------------------------------
(* The turn rows under any callers of the store: its guarantees depend     *)
(* neither on leases and tokens nor on the order of the callers.           *)

StoreInv == StoreTypeOK /\ OneActiveTurn

LEMMA StoreTypeInductive ==
  ASSUME StoreTypeOK, [StoreNext]_storeVars
  PROVE  StoreTypeOK'
<1> USE DEF StoreTypeOK, Status, NonterminalStatus, TerminalStatus
<1>1. ASSUME NEW t \in Turn, NEW token \in Nat, Begin(t, token)
      PROVE  StoreTypeOK'
  BY <1>1 DEF Begin
<1>2. ASSUME NEW t \in Turn, NEW to \in Status, NEW expected \in Status \cup {"any"},
             NEW token \in Nat, Transition(t, to, expected, token)
      PROVE  StoreTypeOK'
  BY <1>2 DEF Transition
<1>3. ASSUME NEW s \in Session, DeleteSession(s)
      PROVE  StoreTypeOK'
  BY <1>3 DEF DeleteSession
<1>4. CASE UNCHANGED storeVars
  BY <1>4 DEF storeVars
<1> QED
  BY <1>1, <1>2, <1>3, <1>4 DEF StoreNext

\* transition_turn and delete_session never make a row unfinished that was not.
LEMMA NoResurrection ==
  ASSUME StoreTypeOK, NEW u \in Turn, Nonterminal(u)',
         \/ \E t \in Turn, to \in Status, expected \in Status \cup {"any"}, token \in Nat :
              Transition(t, to, expected, token)
         \/ \E s \in Session : DeleteSession(s)
  PROVE  Nonterminal(u)
<1> USE DEF StoreTypeOK, Status, NonterminalStatus, TerminalStatus, Nonterminal
<1>1. ASSUME NEW t \in Turn, NEW to \in Status, NEW expected \in Status \cup {"any"},
             NEW token \in Nat, Transition(t, to, expected, token)
      PROVE  Nonterminal(u)
  BY <1>1 DEF Transition, Admits, HasRow, Terminal
<1>2. ASSUME NEW s \in Session, DeleteSession(s)
      PROVE  Nonterminal(u)
  BY <1>2 DEF DeleteSession
<1> QED
  BY <1>1, <1>2

LEMMA OneActiveTurnInductive ==
  ASSUME StoreTypeOK, OneActiveTurn, [StoreNext]_storeVars
  PROVE  OneActiveTurn'
<1>1. ASSUME NEW t \in Turn, NEW token \in Nat, Begin(t, token)
      PROVE  OneActiveTurn'
  <2>1. \A u \in Turn : SessionOf[u] = SessionOf[t] => ~Nonterminal(u)
    BY <1>1 DEF Begin, CanBegin
  <2>2. \A u \in Turn : Nonterminal(u)' => u = t \/ Nonterminal(u)
    BY <1>1 DEF Begin, Nonterminal, StoreTypeOK
  <2> QED
    BY <2>1, <2>2 DEF OneActiveTurn
<1>2. ASSUME \/ \E t \in Turn, to \in Status, expected \in Status \cup {"any"}, token \in Nat :
                  Transition(t, to, expected, token)
             \/ \E s \in Session : DeleteSession(s)
      PROVE  OneActiveTurn'
  <2>1. \A u \in Turn : Nonterminal(u)' => Nonterminal(u)
    BY <1>2, NoResurrection
  <2> QED
    BY <2>1 DEF OneActiveTurn
<1>3. CASE UNCHANGED storeVars
  BY <1>3 DEF storeVars, OneActiveTurn, Nonterminal
<1> QED
  BY <1>1, <1>2, <1>3 DEF StoreNext

LEMMA OutcomeStep ==
  ASSUME StoreTypeOK, [StoreNext]_storeVars, NEW u \in Turn, Terminal(u)
  PROVE  status'[u] \in {status[u], "none"}
<1> USE DEF StoreTypeOK, Status, NonterminalStatus, TerminalStatus, Terminal
<1>1. ASSUME NEW t \in Turn, NEW token \in Nat, Begin(t, token)
      PROVE  status'[u] \in {status[u], "none"}
  BY <1>1 DEF Begin, CanBegin, HasRow
<1>2. ASSUME NEW t \in Turn, NEW to \in Status, NEW expected \in Status \cup {"any"},
             NEW token \in Nat, Transition(t, to, expected, token)
      PROVE  status'[u] \in {status[u], "none"}
  BY <1>2 DEF Transition, Admits
<1>3. ASSUME NEW s \in Session, DeleteSession(s)
      PROVE  status'[u] \in {status[u], "none"}
  BY <1>3 DEF DeleteSession
<1>4. CASE UNCHANGED storeVars
  BY <1>4 DEF storeVars
<1> QED
  BY <1>1, <1>2, <1>3, <1>4 DEF StoreNext

(***************************************************************************)
(* Whatever the callers do, the rows are well typed and a session has at   *)
(* most one unfinished turn (begin_turn, transition_turn, delete_session). *)
(***************************************************************************)
THEOREM StoreInvariant == StoreSpec => []StoreInv
<1>1. StoreInit => StoreInv
  BY DEF StoreInit, StoreInv, StoreTypeOK, OneActiveTurn, Nonterminal, NonterminalStatus
<1>2. StoreInv /\ [StoreNext]_storeVars => StoreInv'
  BY StoreTypeInductive, OneActiveTurnInductive DEF StoreInv
<1> QED
  BY <1>1, <1>2, PTL DEF StoreSpec

\* A terminal row keeps its status until its session is deleted (transition_turn).
THEOREM StoreOutcomeIsFinal == StoreSpec => OutcomeIsFinal
<1>1. StoreInv /\ [StoreNext]_storeVars
      => [\A t \in Turn : Terminal(t) => status'[t] \in {status[t], "none"}]_storeVars
  BY OutcomeStep DEF StoreInv
<1> QED
  BY <1>1, StoreInvariant, PTL DEF StoreSpec, OutcomeIsFinal

-----------------------------------------------------------------------------
(* The runtime as a client of the leases *)

\* A step of a turn makes at most one call that changes the leases.
LEMMA TurnStepCoord ==
  ASSUME NEW t \in Turn, TurnStep(t)
  PROVE  Acquire(t) \/ Renew(t) \/ Release(t) \/ Expire(t) \/ UNCHANGED coordVars
<1>1. CASE StartTurn(t)
  BY <1>1 DEF StartTurn
<1>2. CASE BeginTurn(t) \/ LaunchFails(t)
  BY <1>2 DEF BeginTurn, LaunchFails, TryRelease
<1>3. CASE Cleanup(t) \/ InterruptCleanup(t)
  BY <1>3 DEF Cleanup, InterruptCleanup, TryRelease
<1>4. CASE Heartbeat(t)
  BY <1>4 DEF Heartbeat
<1>5. CASE LeaseExpires(t)
  BY <1>5 DEF LeaseExpires
<1>6. CASE AbandonStart(t) \/ RejectLaunch(t) \/ Launch(t)
  BY <1>6 DEF AbandonStart, RejectLaunch, Launch
<1>7. CASE Pause(t) \/ Reply(t) \/ InterruptWait(t) \/ Restore(t)
  BY <1>7 DEF Pause, Reply, InterruptWait, Restore
<1>8. CASE Finish(t) \/ Settle(t) \/ Announce(t) \/ AfterDone(t)
  BY <1>8 DEF Finish, Settle, Announce, AfterDone
<1>9. CASE Interrupt(t) \/ CancelPublish(t) \/ CancelSettle(t) \/ CancelAnnounce(t)
  BY <1>9 DEF Interrupt, CancelPublish, CancelSettle, CancelAnnounce
<1>10. CASE Fail(t) \/ FailPublish(t) \/ FailSettle(t)
  BY <1>10 DEF Fail, FailPublish, FailSettle
<1>11. CASE ObserveCancel(t) \/ CoordinationFails(t)
  BY <1>11 DEF ObserveCancel, CoordinationFails
<1>12. CASE RequestCancel(t) \/ LocalCancel(t) \/ AdminCancel(t)
  BY <1>12 DEF RequestCancel, LocalCancel, AdminCancel
<1> QED
  BY <1>1, <1>2, <1>3, <1>4, <1>5, <1>6, <1>7, <1>8, <1>9, <1>10, <1>11, <1>12 DEF TurnStep

\* What the loop of w has listed or works on.
Targets(w) == {t \in Turn : t \in rec[w].todo \/ t = rec[w].turn}

\* A target had a lease once and has none now; ClaimedOnce keeps it that way.
TargetsAreLost == \A w \in Worker : \A t \in Targets(w) : WasExpired(t)

\* Of a process, a crash may wipe the leases and recovery acknowledges a turn.
LEMMA ProcessStepCoord ==
  ASSUME TypeOK, TargetsAreLost, NEW w \in Worker, ProcessStep(w)
  PROVE  \/ Forget
         \/ \E t \in Turn : WasExpired(t) /\ Acknowledge(t)
         \/ UNCHANGED coordVars
<1>1. CASE Shutdown(w)
  BY <1>1 DEF Shutdown
<1>2. CASE Crash(w)
  BY <1>2 DEF Crash
<1>3. CASE RecList(w) \/ RecRead(w) \/ RecPublish(w) \/ RecAppend(w) \/ RecFails(w)
  BY <1>3 DEF RecList, RecRead, RecPublish, RecAppend, RecFails
<1>4. CASE RecSettle(w)
  BY <1>4 DEF RecSettle
<1>5. CASE RecAck(w)
  <2>1. rec[w].turn \in Turn
    BY <1>5 DEF RecAck, TypeOK, RecTypeOK, Recovery
  <2>2. WasExpired(rec[w].turn)
    BY <2>1 DEF TargetsAreLost, Targets
  <2> QED
    BY <1>5, <2>1, <2>2 DEF RecAck
<1> QED
  BY <1>1, <1>2, <1>3, <1>4, <1>5 DEF ProcessStep

LEMMA CoordStep ==
  ASSUME TypeOK, TargetsAreLost, [Next]_vars
  PROVE  [CoordNext]_coordVars
<1>1. CASE \E t \in Turn : TurnStep(t)
  BY <1>1, TurnStepCoord DEF CoordNext
<1>2. CASE \E w \in Worker : ProcessStep(w)
  BY <1>2, ProcessStepCoord DEF CoordNext
<1>3. CASE \E s \in Session : RemoveSession(s)
  BY <1>3 DEF RemoveSession
<1>4. CASE UNCHANGED vars
  BY <1>4 DEF vars
<1> QED
  BY <1>1, <1>2, <1>3, <1>4 DEF Next

-----------------------------------------------------------------------------
(* The runtime as a client of the rows *)

\* A call of transition_turn as some client makes it.
SomeTransition ==
  \E t \in Turn, to \in Status, expected \in Status \cup {"any"}, token \in Nat :
    Transition(t, to, expected, token)

LEMMA TurnStepStore ==
  ASSUME TypeOK, NEW t \in Turn, TurnStep(t)
  PROVE  BeginTurn(t) \/ SomeTransition \/ UNCHANGED storeVars
<1> USE DEF Status, NonterminalStatus, TerminalStatus
<1>1. claim[t] \in Nat /\ 0 \in Nat /\ outcome[t] \in Status
  BY DEF TypeOK, CoordTypeOK, TaskTypeOK
<1>2. CASE BeginTurn(t)
  BY <1>2 DEF BeginTurn
<1>3. CASE RejectLaunch(t) \/ LaunchFails(t)
  <2>1. Transition(t, "failed", "any", 0)
    BY <1>3 DEF RejectLaunch, LaunchFails
  <2> QED
    BY <2>1 DEF SomeTransition
<1>4. CASE AdminCancel(t)
  <2>1. Transition(t, "cancelled", "any", 0)
    BY <1>4 DEF AdminCancel
  <2> QED
    BY <2>1 DEF SomeTransition
<1>5. CASE Pause(t)
  <2>1. Transition(t, "waiting_input", "running", claim[t])
    BY <1>5 DEF Pause
  <2> QED
    BY <1>1, <2>1 DEF SomeTransition
<1>6. CASE Restore(t)
  <2>1. Transition(t, "running", "waiting_input", claim[t])
    BY <1>6 DEF Restore
  <2> QED
    BY <1>1, <2>1 DEF SomeTransition
<1>7. CASE Settle(t) \/ CancelSettle(t)
  <2>1. Transition(t, outcome[t], "running", claim[t])
    BY <1>7 DEF Settle, CancelSettle
  <2> QED
    BY <1>1, <2>1 DEF SomeTransition
<1>8. CASE FailSettle(t)
  <2>1. Transition(t, "failed", "running", claim[t])
    BY <1>8 DEF FailSettle
  <2> QED
    BY <1>1, <2>1 DEF SomeTransition
<1>9. CASE Interrupt(t)
  <2>1. \/ UNCHANGED storeVars
        \/ Transition(t, "waiting_input", "running", claim[t])
        \/ Transition(t, outcome[t], "running", claim[t])
    BY <1>9 DEF Interrupt, InFlight
  <2> QED
    BY <1>1, <2>1 DEF SomeTransition
<1>10. CASE StartTurn(t) \/ AbandonStart(t) \/ Launch(t)
  BY <1>10 DEF StartTurn, AbandonStart, Launch
<1>11. CASE Reply(t) \/ InterruptWait(t) \/ Finish(t) \/ Announce(t) \/ AfterDone(t)
  BY <1>11 DEF Reply, InterruptWait, Finish, Announce, AfterDone
<1>12. CASE CancelPublish(t) \/ CancelAnnounce(t) \/ Fail(t) \/ FailPublish(t)
  BY <1>12 DEF CancelPublish, CancelAnnounce, Fail, FailPublish
<1>13. CASE Cleanup(t) \/ InterruptCleanup(t)
  BY <1>13 DEF Cleanup, InterruptCleanup
<1>14. CASE ObserveCancel(t) \/ Heartbeat(t) \/ CoordinationFails(t)
  BY <1>14 DEF ObserveCancel, Heartbeat, CoordinationFails
<1>15. CASE RequestCancel(t) \/ LocalCancel(t) \/ LeaseExpires(t)
  BY <1>15 DEF RequestCancel, LocalCancel, LeaseExpires
<1> QED
  BY <1>2, <1>3, <1>4, <1>5, <1>6, <1>7, <1>8, <1>9, <1>10, <1>11, <1>12, <1>13, <1>14,
     <1>15 DEF TurnStep

LEMMA ProcessStepStore ==
  ASSUME TypeOK, NEW w \in Worker, ProcessStep(w)
  PROVE  SomeTransition \/ UNCHANGED storeVars
<1>1. CASE RecSettle(w)
  <2>1. /\ rec[w].turn \in Turn
        /\ rec[w].seen \in NonterminalStatus
        /\ rec[w].token \in Nat
    BY <1>1 DEF RecSettle, TypeOK, RecTypeOK, Recovery
  <2>2. Transition(rec[w].turn, "failed", rec[w].seen, rec[w].token)
    BY <1>1 DEF RecSettle
  <2> QED
    BY <2>1, <2>2 DEF SomeTransition, Status, NonterminalStatus, TerminalStatus
<1>2. CASE Shutdown(w) \/ Crash(w)
  BY <1>2 DEF Shutdown, Crash
<1>3. CASE RecList(w) \/ RecRead(w) \/ RecPublish(w) \/ RecAppend(w) \/ RecAck(w) \/ RecFails(w)
  BY <1>3 DEF RecList, RecRead, RecPublish, RecAppend, RecAck, RecFails
<1> QED
  BY <1>1, <1>2, <1>3 DEF ProcessStep

LEMMA StoreStep ==
  ASSUME TypeOK, [Next]_vars
  PROVE  [StoreNext]_storeVars
<1>1. ASSUME NEW t \in Turn, TurnStep(t)
      PROVE  [StoreNext]_storeVars
  <2>1. claim[t] \in Nat
    BY DEF TypeOK, CoordTypeOK
  <2>2. BeginTurn(t) => Begin(t, claim[t]) \/ UNCHANGED storeVars
    BY DEF BeginTurn
  <2> QED
    BY <1>1, <2>1, <2>2, TurnStepStore DEF StoreNext, SomeTransition
<1>2. ASSUME NEW w \in Worker, ProcessStep(w)
      PROVE  [StoreNext]_storeVars
  BY <1>2, ProcessStepStore DEF StoreNext, SomeTransition
<1>3. CASE \E s \in Session : RemoveSession(s)
  BY <1>3 DEF RemoveSession, StoreNext
<1>4. CASE UNCHANGED vars
  BY <1>4 DEF vars
<1> QED
  BY <1>1, <1>2, <1>3, <1>4 DEF Next

-----------------------------------------------------------------------------
(* Type correctness *)

LEMMA ExitTypes ==
  ASSUME TaskTypeOK, NEW T, Exit(T), UNCHANGED cmd
  PROVE  TaskTypeOK'
<1>1. pc' \in [Turn -> Phase] /\ worker' \in [Turn -> Worker]
  BY DEF TaskTypeOK, Exit, Phase
<1>2. stop' \in [Turn -> {"none", "cancel", "shutdown"}] /\ outcome' \in [Turn -> TerminalStatus]
  BY DEF TaskTypeOK, Exit, TerminalStatus
<1>3. lost' \in [Turn -> BOOLEAN]
  BY Zenon DEF TaskTypeOK, Exit
<1>4. coord' \in [Turn -> BOOLEAN]
  BY Zenon DEF TaskTypeOK, Exit
<1> QED
  BY <1>1, <1>2, <1>3, <1>4 DEF TaskTypeOK

LEMMA CancelTaskTypes ==
  ASSUME TaskTypeOK, NEW t \in Turn, CancelTask(t)
  PROVE  /\ stop' \in [Turn -> {"none", "cancel", "shutdown"}]
         /\ coord' \in [Turn -> BOOLEAN]
<1>1. stop' \in [Turn -> {"none", "cancel", "shutdown"}]
  BY DEF TaskTypeOK, CancelTask
<1>2. coord' \in [Turn -> BOOLEAN]
  BY DEF TaskTypeOK, CancelTask
<1> QED
  BY <1>1, <1>2

LEMMA TurnStepTypes ==
  ASSUME TypeOK, NEW t \in Turn, TurnStep(t)
  PROVE  TaskTypeOK' /\ BudgetTypeOK' /\ UNCHANGED rec
<1> USE DEF TypeOK, TaskTypeOK, BudgetTypeOK, Goto, Fault, NoFault, budgetVars, taskVars,
            Phase, TaskPhase, Running, Unwinding, TerminalStatus
<1>1. CASE StartTurn(t) \/ AbandonStart(t) \/ Launch(t) \/ RejectLaunch(t)
  BY <1>1 DEF StartTurn, AbandonStart, Launch, RejectLaunch
<1>2. CASE BeginTurn(t) \/ LaunchFails(t)
  BY <1>2 DEF BeginTurn, LaunchFails, TryRelease
<1>3. CASE Pause(t) \/ Reply(t) \/ InterruptWait(t) \/ Restore(t)
  BY <1>3 DEF Pause, Reply, InterruptWait, Restore
<1>4. CASE Finish(t) \/ Settle(t) \/ Announce(t)
  BY <1>4 DEF Finish, Settle, Announce
<1>5. CASE Interrupt(t)
  BY <1>5 DEF Interrupt, UnwindTo, StopOutcome
<1>6. CASE CancelPublish(t) \/ FailPublish(t)
  BY <1>6 DEF CancelPublish, FailPublish
<1>7. CASE CancelSettle(t) \/ FailSettle(t)
  BY <1>7 DEF CancelSettle, FailSettle
<1>8. CASE CancelAnnounce(t) \/ AfterDone(t)
  BY <1>8 DEF CancelAnnounce, AfterDone
<1>9. CASE Fail(t)
  BY <1>9 DEF Fail
<1>10. CASE Cleanup(t) \/ InterruptCleanup(t)
  BY <1>10, ExitTypes DEF Cleanup, InterruptCleanup, TryRelease
<1>11. CASE ObserveCancel(t)
  BY <1>11, CancelTaskTypes DEF ObserveCancel
<1>12. CASE Heartbeat(t)
  BY <1>12, CancelTaskTypes DEF Heartbeat
<1>13. CASE CoordinationFails(t)
  BY <1>13, CancelTaskTypes DEF CoordinationFails
<1>14. CASE RequestCancel(t) \/ LocalCancel(t) \/ AdminCancel(t) \/ LeaseExpires(t)
  BY <1>14 DEF RequestCancel, LocalCancel, AdminCancel, LeaseExpires
<1> QED
  BY <1>1, <1>2, <1>3, <1>4, <1>5, <1>6, <1>7, <1>8, <1>9, <1>10, <1>11, <1>12, <1>13,
     <1>14 DEF TurnStep

\* What a loop may remember of its pass, whatever it remembered before.
RecordOK(r) ==
  /\ r \in Recovery
  /\ r.pc = "scan" <=> r.turn = NoTurn
  /\ r.pc \in {"publish", "append", "settle"} => r.seen # "none"

LEMMA RecUpdate ==
  ASSUME RecTypeOK, NEW w \in Worker, NEW r, RecordOK(r), rec' = [rec EXCEPT ![w] = r]
  PROVE  RecTypeOK'
BY DEF RecTypeOK, RecordOK

LEMMA RecGotoOK ==
  ASSUME RecTypeOK, NEW w \in Worker, rec[w].pc # "scan",
         NEW p \in {"append", "settle", "ack"},
         rec[w].seen # "none" \/ p = "ack", RecGoto(w, p)
  PROVE  RecTypeOK'
<1>1. RecordOK([rec[w] EXCEPT !.pc = p])
  BY DEF RecTypeOK, RecordOK, Recovery
<1> QED
  BY <1>1, RecUpdate DEF RecGoto

LEMMA RecNextOK ==
  ASSUME RecTypeOK, NEW w \in Worker, RecNext(w)
  PROVE  RecTypeOK'
<1>1. RecordOK([RecIdle EXCEPT !.todo = rec[w].todo])
  BY DEF RecTypeOK, RecordOK, Recovery, RecIdle
<1> QED
  BY <1>1, RecUpdate DEF RecNext

LEMMA RecStepTypes ==
  ASSUME TypeOK, NEW w \in Worker, ProcessStep(w)
  PROVE  RecTypeOK'
<1> USE DEF TypeOK
<1>1. CASE Shutdown(w)
  BY <1>1 DEF Shutdown, RecTypeOK
<1>2. CASE Crash(w)
  <2>1. RecordOK(RecIdle)
    BY DEF RecordOK, Recovery, RecIdle
  <2> QED
    BY <1>2, <2>1, RecUpdate DEF Crash
<1>3. CASE RecList(w)
  <2>1. RecordOK([rec[w] EXCEPT !.todo = Expired])
    BY <1>3 DEF RecList, RecTypeOK, RecordOK, Recovery, Expired, CoordTypeOK
  <2> QED
    BY <1>3, <2>1, RecUpdate DEF RecList
<1>4. CASE RecRead(w)
  <2>1. PICK t \in rec[w].todo :
          \/ rec' = [rec EXCEPT ![w].todo = rec[w].todo \ {t}]
          \/ rec' = [rec EXCEPT ![w] = [RecIdle EXCEPT !.pc = "ack",
                        !.todo = rec[w].todo \ {t}, !.turn = t]]
          \/ /\ Nonterminal(t)
             /\ rec' = [rec EXCEPT ![w] =
                          [pc |-> "publish", todo |-> rec[w].todo \ {t}, turn |-> t,
                           seen |-> status[t], token |-> rowToken[t]]]
    BY <1>4 DEF RecRead
  <2>2. t \in Turn /\ t # NoTurn
    BY NoTurnIsNoTurn DEF RecTypeOK, Recovery
  <2>3. RecordOK([rec[w] EXCEPT !.todo = rec[w].todo \ {t}])
    BY <1>4 DEF RecRead, RecTypeOK, RecordOK, Recovery
  <2>4. RecordOK([RecIdle EXCEPT !.pc = "ack", !.todo = rec[w].todo \ {t}, !.turn = t])
    BY <2>2 DEF RecTypeOK, RecordOK, Recovery, RecIdle
  <2>5. ASSUME Nonterminal(t)
        PROVE  RecordOK([pc |-> "publish", todo |-> rec[w].todo \ {t}, turn |-> t,
                         seen |-> status[t], token |-> rowToken[t]])
    <3>1. status[t] \in NonterminalStatus /\ rowToken[t] \in Nat
      BY <2>2, <2>5 DEF Nonterminal, StoreTypeOK
    <3> QED
      BY <2>2, <3>1 DEF RecTypeOK, RecordOK, Recovery, NonterminalStatus
  <2> QED
    BY <2>1, <2>3, <2>4, <2>5, RecUpdate
<1>5. CASE RecPublish(w)
  BY <1>5, RecGotoOK DEF RecPublish, RecTypeOK
<1>6. CASE RecAppend(w)
  BY <1>6, RecGotoOK, RecNextOK DEF RecAppend, RecTypeOK
<1>7. CASE RecSettle(w)
  BY <1>7, RecGotoOK DEF RecSettle
<1>8. CASE RecAck(w) \/ RecFails(w)
  BY <1>8, RecNextOK DEF RecAck, RecFails
<1> QED
  BY <1>1, <1>2, <1>3, <1>4, <1>5, <1>6, <1>7, <1>8 DEF ProcessStep

LEMMA ProcessStepTypes ==
  ASSUME TypeOK, NEW w \in Worker, ProcessStep(w)
  PROVE  TaskTypeOK' /\ BudgetTypeOK'
<1> USE DEF TypeOK
<1>1. CASE Shutdown(w)
  BY <1>1 DEF Shutdown, TaskTypeOK, BudgetTypeOK
<1>2. CASE Crash(w)
  BY <1>2, ExitTypes DEF Crash, BudgetTypeOK
<1>3. CASE RecList(w) \/ RecRead(w) \/ RecPublish(w) \/ RecAppend(w)
  BY <1>3 DEF RecList, RecRead, RecPublish, RecAppend, taskVars, budgetVars,
              TaskTypeOK, BudgetTypeOK
<1>4. CASE RecSettle(w) \/ RecAck(w) \/ RecFails(w)
  BY <1>4 DEF RecSettle, RecAck, RecFails, taskVars, budgetVars, Fault,
              TaskTypeOK, BudgetTypeOK
<1> QED
  BY <1>1, <1>2, <1>3, <1>4 DEF ProcessStep

LEMMA TargetsWereExpired ==
  ASSUME TypeOK, [Next]_vars, NEW w \in Worker
  PROVE  Targets(w)' \subseteq Targets(w) \cup Expired
<1> USE DEF TypeOK, Targets
<1>1. CASE UNCHANGED rec
  BY <1>1
<1>2. ASSUME NEW v \in Worker, ProcessStep(v)
      PROVE  Targets(w)' \subseteq Targets(w) \cup Expired
  <2> USE DEF RecTypeOK, RecIdle, Recovery
  <2>1. CASE Shutdown(v)
    BY <1>1, <2>1 DEF Shutdown
  <2>2. CASE Crash(v)
    BY <2>2, NoTurnIsNoTurn DEF Crash
  <2>3. CASE RecList(v)
    BY <2>3 DEF RecList
  <2>4. CASE RecRead(v)
    <3>1. PICK t \in rec[v].todo :
            /\ rec'[v].todo \subseteq rec[v].todo
            /\ rec'[v].turn \in {rec[v].turn, t}
      <4>1. PICK t \in rec[v].todo :
              \/ rec' = [rec EXCEPT ![v].todo = rec[v].todo \ {t}]
              \/ rec' = [rec EXCEPT ![v] = [RecIdle EXCEPT !.pc = "ack",
                            !.todo = rec[v].todo \ {t}, !.turn = t]]
              \/ rec' = [rec EXCEPT ![v] =
                            [pc |-> "publish", todo |-> rec[v].todo \ {t}, turn |-> t,
                             seen |-> status[t], token |-> rowToken[t]]]
        BY <2>4 DEF RecRead
      <4>2. CASE rec' = [rec EXCEPT ![v].todo = rec[v].todo \ {t}]
        BY <4>2
      <4>3. CASE rec' = [rec EXCEPT ![v] = [RecIdle EXCEPT !.pc = "ack",
                            !.todo = rec[v].todo \ {t}, !.turn = t]]
        BY <4>3
      <4> QED
        BY <4>1, <4>2, <4>3
    <3>2. v # w => rec'[w] = rec[w]
      BY <2>4 DEF RecRead
    <3> QED
      BY <3>1, <3>2
  <2>5. CASE RecPublish(v) \/ RecSettle(v)
    BY <2>5 DEF RecPublish, RecSettle, RecGoto
  <2>6. CASE RecAppend(v)
    BY <2>6, NoTurnIsNoTurn DEF RecAppend, RecGoto, RecNext
  <2>7. CASE RecAck(v) \/ RecFails(v)
    BY <2>7, NoTurnIsNoTurn DEF RecAck, RecFails, RecNext
  <2> QED
    BY <1>2, <2>1, <2>2, <2>3, <2>4, <2>5, <2>6, <2>7 DEF ProcessStep
<1>3. ASSUME NEW t \in Turn, TurnStep(t)
      PROVE  UNCHANGED rec
  BY <1>3, TurnStepTypes
<1>4. CASE \E s \in Session : RemoveSession(s)
  BY <1>1, <1>4 DEF RemoveSession
<1>5. CASE UNCHANGED vars
  BY <1>1, <1>5 DEF vars
<1> QED
  BY <1>1, <1>2, <1>3, <1>4, <1>5 DEF Next

(***************************************************************************)
(* The inductive invariant: the types need the reachability of leases,     *)
(* since the type of a coordinator step depends on it (Drop); the leases   *)
(* stay reachable because recovery acknowledges expired turns only, which  *)
(* it does because the turns it listed stay expired; and the store's part  *)
(* is inductive by itself.                                                 *)
(***************************************************************************)
RuntimeInv == TypeOK /\ CoordInv /\ StoreInv /\ KnownWereClaimed /\ TargetsAreLost

LEMMA InitInv == Init => RuntimeInv
<1> SUFFICES ASSUME Init
             PROVE  RuntimeInv
  OBVIOUS
<1>1. CoordInv /\ CoordTypeOK
  BY CoordInitInv DEF Init, CoordInv
<1>2. StoreInv /\ StoreTypeOK
  BY DEF Init, StoreInit, StoreInv, StoreTypeOK, OneActiveTurn, Nonterminal, NonterminalStatus
<1>3. TaskTypeOK /\ BudgetTypeOK
  BY DEF Init, TaskTypeOK, BudgetTypeOK, Phase, TerminalStatus
<1>4. RecTypeOK
  BY DEF Init, RecTypeOK, Recovery, RecIdle
<1>5. KnownWereClaimed /\ TargetsAreLost
  BY NoTurnIsNoTurn DEF Init, CoordInit, KnownWereClaimed, TargetsAreLost, Targets, RecIdle
<1> QED
  BY <1>1, <1>2, <1>3, <1>4, <1>5 DEF RuntimeInv, TypeOK

LEMMA NextTypes ==
  ASSUME TypeOK, [Next]_vars
  PROVE  TaskTypeOK' /\ RecTypeOK' /\ BudgetTypeOK'
<1>1. ASSUME NEW t \in Turn, TurnStep(t)
      PROVE  TaskTypeOK' /\ RecTypeOK' /\ BudgetTypeOK'
  <2>1. TaskTypeOK' /\ BudgetTypeOK' /\ UNCHANGED rec
    BY <1>1, TurnStepTypes
  <2> QED
    BY <2>1 DEF TypeOK, RecTypeOK
<1>2. ASSUME NEW w \in Worker, ProcessStep(w)
      PROVE  TaskTypeOK' /\ RecTypeOK' /\ BudgetTypeOK'
  BY <1>2, ProcessStepTypes, RecStepTypes
<1>3. CASE UNCHANGED <<taskVars, cmd, rec, budgetVars>>
  BY <1>3 DEF TypeOK, TaskTypeOK, RecTypeOK, BudgetTypeOK, taskVars, budgetVars
<1>4. CASE \E s \in Session : RemoveSession(s)
  BY <1>3, <1>4 DEF RemoveSession
<1>5. CASE UNCHANGED vars
  BY <1>3, <1>5 DEF vars
<1> QED
  BY <1>1, <1>2, <1>4, <1>5 DEF Next

LEMMA TargetsStayLost ==
  ASSUME RuntimeInv, [Next]_vars
  PROVE  KnownWereClaimed' /\ TargetsAreLost'
<1>1. CoordInv /\ [CoordNext]_coordVars /\ TypeOK
  BY CoordStep DEF RuntimeInv
<1>2. KnownWereClaimed'
  BY <1>1, KnownInductive DEF RuntimeInv
<1>3. ASSUME NEW w \in Worker, NEW t \in Targets(w)'
      PROVE  WasExpired(t)'
  <2>1. t \in Turn /\ claim[t] # 0 /\ ~Active(t)
    BY <1>1, <1>3, TargetsWereExpired
       DEF RuntimeInv, Targets, TargetsAreLost, WasExpired, Expired, KnownWereClaimed,
           CoordInv, CoordTypeOK
  <2> QED
    BY <1>1, <2>1, ClaimedOnce DEF WasExpired
<1> QED
  BY <1>2, <1>3 DEF TargetsAreLost

LEMMA NextInv == RuntimeInv /\ [Next]_vars => RuntimeInv'
<1> SUFFICES ASSUME RuntimeInv, [Next]_vars
             PROVE  RuntimeInv'
  OBVIOUS
<1>1. CoordInv'
  BY CoordStep, CoordNextInv DEF RuntimeInv
<1>2. StoreInv'
  BY StoreStep, StoreTypeInductive, OneActiveTurnInductive DEF RuntimeInv, StoreInv
<1>3. TaskTypeOK' /\ RecTypeOK' /\ BudgetTypeOK'
  BY NextTypes DEF RuntimeInv
<1>4. KnownWereClaimed' /\ TargetsAreLost'
  BY TargetsStayLost
<1> QED
  BY <1>1, <1>2, <1>3, <1>4 DEF RuntimeInv, TypeOK, CoordInv, StoreInv

\* The state of the turn runtime is always well typed, with its leases and rows.
THEOREM RuntimeInvariant == Spec => []RuntimeInv
BY InitInv, NextInv, PTL DEF Spec

\* What each variable holds after any run of workers, users and faults.
THEOREM RuntimeTypeCorrect == Spec => []TypeOK
<1>1. RuntimeInv => TypeOK
  BY DEF RuntimeInv
<1> QED
  BY <1>1, RuntimeInvariant, PTL

-----------------------------------------------------------------------------
(* The runtime uses its two components as they are specified *)

\* Workers, recovery and crashes only drive the coordinator through its own
\* operations, so that everything proved of it holds in the runtime.
THEOREM RuntimeUsesCoordinator == Spec => CoordSpec
<1>1. RuntimeInv /\ [Next]_vars => [CoordNext]_coordVars
  BY CoordStep DEF RuntimeInv
<1>2. Init => CoordInit
  BY DEF Init
<1> QED
  BY <1>1, <1>2, RuntimeInvariant, PTL DEF Spec, CoordSpec

\* Workers, recovery and administrative requests only write rows through
\* begin_turn, transition_turn and delete_session.
THEOREM RuntimeUsesStore == Spec => StoreSpec
<1>1. RuntimeInv /\ [Next]_vars => [StoreNext]_storeVars
  BY StoreStep DEF RuntimeInv
<1>2. Init => StoreInit
  BY DEF Init
<1> QED
  BY <1>1, <1>2, RuntimeInvariant, PTL DEF Spec, StoreSpec

\* No two turns of a session are unfinished, with any number of workers.
THEOREM RuntimeOneActiveTurn == Spec => []OneActiveTurn
<1>1. RuntimeInv => OneActiveTurn
  BY DEF RuntimeInv, StoreInv
<1> QED
  BY <1>1, RuntimeInvariant, PTL

\* No two turns of a session hold live leases, with any number of workers.
THEOREM RuntimeLeaseExclusive == Spec => []LeaseExclusive
BY RuntimeUsesCoordinator, LeaseIsExclusive, PTL

\* The holder of a live lease is the turn its session points to, and recovery
\* finds it once it expires: acknowledging a turn never takes another, or a
\* renewed one, out of the registry.
THEOREM RuntimeLeaseReachable == Spec => []LeaseReachable
BY RuntimeUsesCoordinator, LeaseIsReachable, PTL

\* The holder of a session has the largest token of all its owners.
THEOREM RuntimeFencing == Spec => []FencingOrder
BY RuntimeUsesCoordinator, TokensAreOrdered, PTL

\* Whoever writes last, a turn keeps its first outcome.
THEOREM RuntimeOutcomeIsFinal == Spec => OutcomeIsFinal
BY RuntimeUsesStore, StoreOutcomeIsFinal, PTL

\* A turn that recovery listed as expired is never owned again, so that
\* recovery and a living owner do not both decide its outcome.
THEOREM RecoveryNeverMeetsOwner == Spec => []RecoverySparesOwners
<1>1. RuntimeInv => RecoverySparesOwners
  BY NoTurnIsNoTurn DEF RuntimeInv, TargetsAreLost, Targets, WasExpired, RecoverySparesOwners,
     Active, TypeOK, CoordTypeOK
<1> QED
  BY <1>1, RuntimeInvariant, PTL

-----------------------------------------------------------------------------
(* What a step does to the phase of a turn *)

\* Phases in which a DONE event is about to be published, or was.
Told == {"announce", "post", "cancelAnnounce"}

LEMMA OtherTurns ==
  ASSUME TypeOK, NEW t \in Turn, TurnStep(t), NEW u \in Turn, u # t
  PROVE  pc'[u] = pc[u] /\ outcome'[u] = outcome[u]
<1> USE DEF TypeOK, TaskTypeOK, Goto, taskVars
<1>1. CASE StartTurn(t) \/ AbandonStart(t) \/ BeginTurn(t) \/ RejectLaunch(t) \/ Launch(t)
  BY <1>1 DEF StartTurn, AbandonStart, BeginTurn, RejectLaunch, Launch
<1>2. CASE LaunchFails(t) \/ Pause(t) \/ Reply(t) \/ InterruptWait(t) \/ Restore(t)
  BY <1>2 DEF LaunchFails, Pause, Reply, InterruptWait, Restore
<1>3. CASE Finish(t) \/ Settle(t) \/ Announce(t) \/ AfterDone(t) \/ Interrupt(t)
  BY <1>3 DEF Finish, Settle, Announce, AfterDone, Interrupt
<1>4. CASE CancelPublish(t) \/ CancelSettle(t) \/ CancelAnnounce(t)
  BY <1>4 DEF CancelPublish, CancelSettle, CancelAnnounce
<1>5. CASE Fail(t) \/ FailPublish(t) \/ FailSettle(t)
  BY <1>5 DEF Fail, FailPublish, FailSettle
<1>6. CASE Cleanup(t) \/ InterruptCleanup(t)
  BY <1>6 DEF Cleanup, InterruptCleanup, Exit
<1>7. CASE ObserveCancel(t) \/ Heartbeat(t) \/ CoordinationFails(t) \/ LeaseExpires(t)
  BY <1>7 DEF ObserveCancel, Heartbeat, CoordinationFails, LeaseExpires
<1>8. CASE RequestCancel(t) \/ LocalCancel(t) \/ AdminCancel(t)
  BY <1>8 DEF RequestCancel, LocalCancel, AdminCancel
<1> QED
  BY <1>1, <1>2, <1>3, <1>4, <1>5, <1>6, <1>7, <1>8 DEF TurnStep

\* Nor does it touch the row of another turn.
LEMMA OtherRows ==
  ASSUME TypeOK, NEW t \in Turn, TurnStep(t), NEW u \in Turn, u # t
  PROVE  status'[u] = status[u]
<1> USE DEF TypeOK, StoreTypeOK, Transition, storeVars
<1>1. CASE StartTurn(t) \/ AbandonStart(t) \/ RejectLaunch(t) \/ Launch(t)
  BY <1>1 DEF StartTurn, AbandonStart, RejectLaunch, Launch
<1>2. CASE BeginTurn(t) \/ LaunchFails(t) \/ Pause(t)
  BY <1>2 DEF BeginTurn, Begin, LaunchFails, Pause
<1>3. CASE Reply(t) \/ InterruptWait(t) \/ Restore(t) \/ Finish(t)
  BY <1>3 DEF Reply, InterruptWait, Restore, Finish
<1>4. CASE Settle(t) \/ Announce(t) \/ AfterDone(t)
  BY <1>4 DEF Settle, Announce, AfterDone
<1>5. CASE Interrupt(t)
  BY <1>5 DEF Interrupt, InFlight
<1>6. CASE CancelPublish(t) \/ CancelSettle(t) \/ CancelAnnounce(t)
  BY <1>6 DEF CancelPublish, CancelSettle, CancelAnnounce
<1>7. CASE Fail(t) \/ FailPublish(t) \/ FailSettle(t) \/ Cleanup(t) \/ InterruptCleanup(t)
  BY <1>7 DEF Fail, FailPublish, FailSettle, Cleanup, InterruptCleanup
<1>8. CASE ObserveCancel(t) \/ Heartbeat(t) \/ CoordinationFails(t) \/ LeaseExpires(t)
  BY <1>8 DEF ObserveCancel, Heartbeat, CoordinationFails, LeaseExpires
<1>9. CASE RequestCancel(t) \/ LocalCancel(t) \/ AdminCancel(t)
  BY <1>9 DEF RequestCancel, LocalCancel, AdminCancel
<1> QED
  BY <1>1, <1>2, <1>3, <1>4, <1>5, <1>6, <1>7, <1>8, <1>9 DEF TurnStep

\* An ended turn stays ended.
LEMMA EndedStays ==
  ASSUME TypeOK, NEW t \in Turn, TurnStep(t), pc[t] = "ended"
  PROVE  pc'[t] = "ended"
<1> USE DEF TypeOK, TaskTypeOK, Goto, At, Continues, taskVars
<1>1. CASE StartTurn(t) \/ AbandonStart(t) \/ BeginTurn(t) \/ RejectLaunch(t) \/ Launch(t)
  BY <1>1 DEF StartTurn, AbandonStart, BeginTurn, RejectLaunch, Launch
<1>2. CASE LaunchFails(t) \/ Pause(t) \/ Reply(t) \/ InterruptWait(t) \/ Restore(t)
  BY <1>2 DEF LaunchFails, Pause, Reply, InterruptWait, Restore
<1>3. CASE Finish(t) \/ Settle(t) \/ Announce(t) \/ AfterDone(t)
  BY <1>3 DEF Finish, Settle, Announce, AfterDone
<1>4. CASE Interrupt(t)
  BY <1>4 DEF Interrupt, TaskPhase, Running, Unwinding
<1>5. CASE CancelPublish(t) \/ CancelSettle(t) \/ CancelAnnounce(t)
  BY <1>5 DEF CancelPublish, CancelSettle, CancelAnnounce
<1>6. CASE Fail(t) \/ FailPublish(t) \/ FailSettle(t) \/ Cleanup(t) \/ InterruptCleanup(t)
  BY <1>6 DEF Fail, FailPublish, FailSettle, Cleanup, InterruptCleanup, Exit
<1>7. CASE ObserveCancel(t) \/ Heartbeat(t) \/ CoordinationFails(t) \/ LeaseExpires(t)
  BY <1>7 DEF ObserveCancel, Heartbeat, CoordinationFails, LeaseExpires
<1>8. CASE RequestCancel(t) \/ LocalCancel(t) \/ AdminCancel(t)
  BY <1>8 DEF RequestCancel, LocalCancel, AdminCancel
<1> QED
  BY <1>1, <1>2, <1>3, <1>4, <1>5, <1>6, <1>7, <1>8 DEF TurnStep

\* A task enters these phases only by an admitted compare-and-set.
LEMMA ToldByTransition ==
  ASSUME TypeOK, NEW t \in Turn, TurnStep(t), pc'[t] \in Told
  PROVE  \/ pc[t] \in Told /\ outcome'[t] = outcome[t]
         \/ status'[t] = outcome'[t]
<1> USE DEF TypeOK, TaskTypeOK, Goto, taskVars, Told, At, Continues
<1>1. CASE StartTurn(t) \/ AbandonStart(t) \/ BeginTurn(t) \/ RejectLaunch(t) \/ Launch(t)
  BY <1>1 DEF StartTurn, AbandonStart, BeginTurn, RejectLaunch, Launch
<1>2. CASE LaunchFails(t) \/ Pause(t) \/ Reply(t) \/ InterruptWait(t) \/ Restore(t)
  BY <1>2 DEF LaunchFails, Pause, Reply, InterruptWait, Restore
<1>3. CASE Finish(t) \/ Announce(t) \/ AfterDone(t)
  BY <1>3 DEF Finish, Announce, AfterDone
<1>4. CASE Settle(t)
  BY <1>4 DEF Settle, Transition, StoreTypeOK
<1>5. CASE CancelSettle(t)
  BY <1>5 DEF CancelSettle, Transition, StoreTypeOK
<1>6. CASE Interrupt(t)
  BY <1>6 DEF Interrupt, UnwindTo
<1>7. CASE CancelPublish(t) \/ CancelAnnounce(t)
  BY <1>7 DEF CancelPublish, CancelAnnounce
<1>8. CASE Fail(t) \/ FailPublish(t) \/ FailSettle(t)
  BY <1>8 DEF Fail, FailPublish, FailSettle
<1>9. CASE Cleanup(t) \/ InterruptCleanup(t)
  BY <1>9 DEF Cleanup, InterruptCleanup, Exit
<1>10. CASE ObserveCancel(t) \/ Heartbeat(t) \/ CoordinationFails(t) \/ LeaseExpires(t)
  BY <1>10 DEF ObserveCancel, Heartbeat, CoordinationFails, LeaseExpires
<1>11. CASE RequestCancel(t) \/ LocalCancel(t) \/ AdminCancel(t)
  BY <1>11 DEF RequestCancel, LocalCancel, AdminCancel
<1> QED
  BY <1>1, <1>2, <1>3, <1>4, <1>5, <1>6, <1>7, <1>8, <1>9, <1>10, <1>11 DEF TurnStep

\* Processes only end tasks.
LEMMA ProcessStepPhases ==
  ASSUME TypeOK, NEW w \in Worker, ProcessStep(w), NEW u \in Turn
  PROVE  pc'[u] = "ended" \/ (pc'[u] = pc[u] /\ outcome'[u] = outcome[u])
<1>1. CASE Shutdown(w) \/ RecList(w) \/ RecRead(w) \/ RecPublish(w)
  BY <1>1 DEF Shutdown, RecList, RecRead, RecPublish, taskVars
<1>2. CASE RecAppend(w) \/ RecSettle(w) \/ RecAck(w) \/ RecFails(w)
  BY <1>2 DEF RecAppend, RecSettle, RecAck, RecFails, taskVars
<1>3. CASE Crash(w)
  BY <1>3 DEF Crash, Exit
<1> QED
  BY <1>1, <1>2, <1>3 DEF ProcessStep

\* So a turn in such a phase was there before, or has just been settled.
LEMMA ToldOrigin ==
  ASSUME TypeOK, [Next]_vars, NEW u \in Turn, pc'[u] \in Told
  PROVE  \/ pc[u] \in Told /\ outcome'[u] = outcome[u]
         \/ status'[u] = outcome'[u]
<1>1. ASSUME NEW t \in Turn, TurnStep(t)
      PROVE  \/ pc[u] \in Told /\ outcome'[u] = outcome[u]
             \/ status'[u] = outcome'[u]
  BY <1>1, OtherTurns, ToldByTransition
<1>2. ASSUME NEW w \in Worker, ProcessStep(w)
      PROVE  pc[u] \in Told /\ outcome'[u] = outcome[u]
  BY <1>2, ProcessStepPhases DEF Told
<1>3. CASE \E s \in Session : RemoveSession(s)
  BY <1>3 DEF RemoveSession, taskVars
<1>4. CASE UNCHANGED vars
  BY <1>4 DEF vars, taskVars
<1> QED
  BY <1>1, <1>2, <1>3, <1>4 DEF Next

-----------------------------------------------------------------------------
(* Rows and the tokens they carry *)

\* A row and its token come from begin_turn and stay until they are deleted.
LEMMA RowOrigin ==
  ASSUME TypeOK, [Next]_vars, NEW u \in Turn, HasRow(u)'
  PROVE  \/ HasRow(u) /\ rowToken'[u] = rowToken[u]
         \/ /\ pc[u] = "acquired" /\ pc'[u] = "launch"
            /\ rowToken'[u] = claim[u] /\ UNCHANGED claim
<1> DEFINE Kept == HasRow(u) /\ rowToken'[u] = rowToken[u]
<1>1. SomeTransition => Kept
  BY DEF SomeTransition, Transition, Admits, HasRow, TypeOK, StoreTypeOK
<1>2. UNCHANGED storeVars => Kept
  BY DEF storeVars, HasRow
<1>3. ASSUME NEW t \in Turn, BeginTurn(t)
      PROVE  \/ Kept
             \/ /\ pc[u] = "acquired" /\ pc'[u] = "launch"
                /\ rowToken'[u] = claim[u] /\ UNCHANGED claim
  BY <1>3 DEF BeginTurn, Begin, At, Goto, HasRow, TypeOK, StoreTypeOK, TaskTypeOK,
              coordVars, storeVars
<1>4. CASE \E t \in Turn : TurnStep(t)
  BY <1>1, <1>2, <1>3, <1>4, TurnStepStore
<1>5. CASE \E w \in Worker : ProcessStep(w)
  BY <1>1, <1>2, <1>5, ProcessStepStore
<1>6. CASE \E s \in Session : RemoveSession(s)
  BY <1>6 DEF RemoveSession, DeleteSession, HasRow
<1>7. CASE UNCHANGED vars
  BY <1>2, <1>7 DEF vars
<1> QED
  BY <1>3, <1>4, <1>5, <1>6, <1>7 DEF Next

\* The event that tells a client how its turn ended agrees with the row, for
\* any interleaving of the owner, recovery, cancellation and deletion.
THEOREM AnnouncedIsStored == Spec => []DoneMatchesRow
<1>1. Init => DoneMatchesRow
  BY DEF Init, DoneMatchesRow
<1>2. RuntimeInv /\ DoneMatchesRow /\ [Next]_vars => DoneMatchesRow'
  <2> SUFFICES ASSUME RuntimeInv, DoneMatchesRow, [Next]_vars,
                      NEW u \in Turn, pc'[u] \in Told
               PROVE  status'[u] \in {outcome'[u], "none"}
    BY DEF DoneMatchesRow, Told
  <2>1. TypeOK /\ StoreTypeOK /\ [StoreNext]_storeVars
    BY StoreStep DEF RuntimeInv, TypeOK
  <2>2. CASE pc[u] \in Told /\ outcome'[u] = outcome[u]
    <3>1. CASE status[u] = outcome[u]
      <4>1. Terminal(u)
        BY <2>1, <3>1 DEF Terminal, TypeOK, TaskTypeOK
      <4> QED
        BY <2>1, <2>2, <3>1, <4>1, OutcomeStep
    <3>2. CASE status[u] = "none"
      BY <2>1, <2>2, <3>2, RowOrigin DEF HasRow, Told
    <3> QED
      BY <2>2, <3>1, <3>2 DEF DoneMatchesRow, Told
  <2> QED
    BY <2>1, <2>2, ToldOrigin
<1> QED
  BY <1>1, <1>2, RuntimeInvariant, PTL DEF Spec

\* A turn that was started stays started; it waits for begin_turn only after
\* it got a lease.
LEMMA StartOrigin ==
  ASSUME TypeOK, [Next]_vars, NEW u \in Turn, pc'[u] \in {"idle", "acquired"}
  PROVE  pc'[u] = pc[u] \/ StartTurn(u)
<1>1. ASSUME TurnStep(u)
      PROVE  pc'[u] = pc[u] \/ StartTurn(u)
  <2> USE DEF TypeOK, CoordTypeOK, TaskTypeOK, Goto, taskVars, At, Continues
  <2>1. CASE AbandonStart(u) \/ BeginTurn(u) \/ RejectLaunch(u) \/ Launch(u) \/ LaunchFails(u)
    BY <2>1 DEF AbandonStart, BeginTurn, RejectLaunch, Launch, LaunchFails
  <2>2. CASE Pause(u) \/ Reply(u) \/ InterruptWait(u) \/ Restore(u)
    BY <2>2 DEF Pause, Reply, InterruptWait, Restore
  <2>3. CASE Finish(u) \/ Settle(u) \/ Announce(u) \/ AfterDone(u)
    BY <2>3 DEF Finish, Settle, Announce, AfterDone
  <2>4. CASE Interrupt(u)
    BY <2>4 DEF Interrupt, UnwindTo
  <2>5. CASE CancelPublish(u) \/ CancelSettle(u) \/ CancelAnnounce(u)
    BY <2>5 DEF CancelPublish, CancelSettle, CancelAnnounce
  <2>6. CASE Fail(u) \/ FailPublish(u) \/ FailSettle(u)
    BY <2>6 DEF Fail, FailPublish, FailSettle
  <2>7. CASE Cleanup(u) \/ InterruptCleanup(u)
    BY <2>7 DEF Cleanup, InterruptCleanup, Exit
  <2>8. CASE ObserveCancel(u) \/ Heartbeat(u) \/ CoordinationFails(u) \/ LeaseExpires(u)
    BY <2>8 DEF ObserveCancel, Heartbeat, CoordinationFails, LeaseExpires
  <2>9. CASE RequestCancel(u) \/ LocalCancel(u) \/ AdminCancel(u)
    BY <2>9 DEF RequestCancel, LocalCancel, AdminCancel
  <2> QED
    BY <1>1, <2>1, <2>2, <2>3, <2>4, <2>5, <2>6, <2>7, <2>8, <2>9 DEF TurnStep
<1>2. ASSUME NEW t \in Turn, TurnStep(t), t # u
      PROVE  pc'[u] = pc[u]
  BY <1>2, OtherTurns
<1>3. ASSUME NEW w \in Worker, ProcessStep(w)
      PROVE  pc'[u] = pc[u]
  BY <1>3, ProcessStepPhases
<1>4. CASE \E s \in Session : RemoveSession(s)
  BY <1>4 DEF RemoveSession, taskVars
<1>5. CASE UNCHANGED vars
  BY <1>5 DEF vars, taskVars
<1> QED
  BY <1>1, <1>2, <1>3, <1>4, <1>5 DEF Next

\* What starting a turn gives it.
LEMMA StartGives ==
  ASSUME CoordTypeOK, NEW u \in Turn, StartTurn(u)
  PROVE  pc[u] = "idle" /\ claim'[u] # 0 /\ u \in known'
BY DEF StartTurn, At, Acquire, HandOut, CoordTypeOK

(***************************************************************************)
(* Every row carries the token its turn was started with, whether its task *)
(* still runs or not; a turn about to write its row has such a token.      *)
(***************************************************************************)
RowsAreFenced ==
  \A t \in Turn : /\ HasRow(t) => claim[t] # 0 /\ rowToken[t] = claim[t]
                  /\ pc[t] = "acquired" => claim[t] # 0

LEMMA RowsStayFenced == Spec => []RowsAreFenced
<1>1. Init => RowsAreFenced
  <2> SUFFICES ASSUME Init, NEW t \in Turn
               PROVE  ~HasRow(t) /\ pc[t] = "idle"
    BY DEF RowsAreFenced
  <2> QED
    BY DEF Init, StoreInit, HasRow
<1>2. RuntimeInv /\ RowsAreFenced /\ [Next]_vars => RowsAreFenced'
  <2> SUFFICES ASSUME RuntimeInv, RowsAreFenced, [Next]_vars, NEW u \in Turn
               PROVE  /\ HasRow(u)' => claim'[u] # 0 /\ rowToken'[u] = claim'[u]
                      /\ pc'[u] = "acquired" => claim'[u] # 0
    BY DEF RowsAreFenced, HasRow
  <2>1. TypeOK /\ CoordInv /\ [CoordNext]_coordVars
    BY CoordStep DEF RuntimeInv
  <2>2. claim[u] # 0 => claim'[u] = claim[u]
    BY <2>1, ClaimedOnce
  <2>3. ASSUME HasRow(u)'
        PROVE  claim'[u] # 0 /\ rowToken'[u] = claim'[u]
    BY <2>1, <2>2, <2>3, RowOrigin DEF RowsAreFenced
  <2>4. ASSUME pc'[u] = "acquired"
        PROVE  claim'[u] # 0
    BY <2>1, <2>2, <2>4, StartOrigin, StartGives DEF RowsAreFenced, CoordInv
  <2> QED
    BY <2>3, <2>4
<1> QED
  BY <1>1, <1>2, RuntimeInvariant, PTL DEF Spec

-----------------------------------------------------------------------------
(* Lost turns are found again *)

(***************************************************************************)
(* The deployments in which recovery finds every turn that lost its task:  *)
(* turns do not pause, and either Redis keeps the leases, its calls        *)
(* succeed and nobody asks tasks to stop, or the only process lives on.    *)
(* Workers may stall, and with Redis crash.                                *)
(***************************************************************************)
Recoverable ==
  /\ ~MayPause
  /\ Redis => ~MayCancel /\ MaxShutdowns = 0 /\ MaxFaults = 0
  /\ ~Redis => MaxCrashes = 0

\* Without pauses a row is running until it has its outcome.
Unpaused == \A t \in Turn : status[t] \in {"none", "running"} \cup TerminalStatus

\* A call of transition_turn that decides the outcome, if it is admitted.
SomeOutcome ==
  \E t \in Turn, to \in TerminalStatus, expected \in Status \cup {"any"}, token \in Nat :
    Transition(t, to, expected, token)

LEMMA TurnStepOutcomes ==
  ASSUME TypeOK, ~MayPause, Unpaused, NEW t \in Turn, TurnStep(t)
  PROVE  BeginTurn(t) \/ SomeOutcome \/ UNCHANGED storeVars
<1>0. /\ claim[t] \in Nat /\ 0 \in Nat /\ outcome[t] \in TerminalStatus
      /\ {"failed", "cancelled"} \subseteq TerminalStatus
      /\ {"running", "any"} \subseteq Status \cup {"any"}
  BY DEF TypeOK, CoordTypeOK, TaskTypeOK, TerminalStatus, Status, NonterminalStatus
<1>1. CASE RejectLaunch(t) \/ LaunchFails(t)
  <2>1. Transition(t, "failed", "any", 0)
    BY <1>1 DEF RejectLaunch, LaunchFails
  <2> QED
    BY <1>0, <2>1 DEF SomeOutcome
<1>2. CASE AdminCancel(t)
  <2>1. Transition(t, "cancelled", "any", 0)
    BY <1>2 DEF AdminCancel
  <2> QED
    BY <1>0, <2>1 DEF SomeOutcome
<1>3. CASE Pause(t)
  BY <1>3 DEF Pause
<1>4. CASE Restore(t)
  <2>1. Transition(t, "running", "waiting_input", claim[t])
    BY <1>4 DEF Restore
  <2> QED
    BY <2>1 DEF Transition, Admits, Unpaused, TerminalStatus, storeVars
<1>5. CASE Settle(t) \/ CancelSettle(t)
  <2>1. Transition(t, outcome[t], "running", claim[t])
    BY <1>5 DEF Settle, CancelSettle
  <2> QED
    BY <1>0, <2>1 DEF SomeOutcome
<1>6. CASE FailSettle(t)
  <2>1. Transition(t, "failed", "running", claim[t])
    BY <1>6 DEF FailSettle
  <2> QED
    BY <1>0, <2>1 DEF SomeOutcome
<1>7. CASE Interrupt(t)
  <2>1. UNCHANGED storeVars \/ Transition(t, outcome[t], "running", claim[t])
    BY <1>7 DEF Interrupt, InFlight
  <2> QED
    BY <1>0, <2>1 DEF SomeOutcome
<1>8. CASE BeginTurn(t) \/ StartTurn(t) \/ AbandonStart(t) \/ Launch(t)
  BY <1>8 DEF StartTurn, AbandonStart, Launch
<1>9. CASE Reply(t) \/ InterruptWait(t) \/ Finish(t) \/ Announce(t) \/ AfterDone(t)
  BY <1>9 DEF Reply, InterruptWait, Finish, Announce, AfterDone
<1>10. CASE CancelPublish(t) \/ CancelAnnounce(t) \/ Fail(t) \/ FailPublish(t)
  BY <1>10 DEF CancelPublish, CancelAnnounce, Fail, FailPublish
<1>11. CASE Cleanup(t) \/ InterruptCleanup(t)
  BY <1>11 DEF Cleanup, InterruptCleanup
<1>12. CASE ObserveCancel(t) \/ Heartbeat(t) \/ CoordinationFails(t)
  BY <1>12 DEF ObserveCancel, Heartbeat, CoordinationFails
<1>13. CASE RequestCancel(t) \/ LocalCancel(t) \/ LeaseExpires(t)
  BY <1>13 DEF RequestCancel, LocalCancel, LeaseExpires
<1> QED
  BY <1>1, <1>2, <1>3, <1>4, <1>5, <1>6, <1>7, <1>8, <1>9, <1>10, <1>11, <1>12, <1>13
     DEF TurnStep

LEMMA ProcessStepOutcomes ==
  ASSUME TypeOK, NEW w \in Worker, ProcessStep(w)
  PROVE  SomeOutcome \/ UNCHANGED storeVars
<1>1. CASE RecSettle(w)
  <2>1. /\ rec[w].turn \in Turn /\ rec[w].token \in Nat
        /\ rec[w].seen \in Status
    BY <1>1 DEF RecSettle, TypeOK, RecTypeOK, Recovery, Status
  <2>2. Transition(rec[w].turn, "failed", rec[w].seen, rec[w].token)
    BY <1>1 DEF RecSettle
  <2> QED
    BY <2>1, <2>2 DEF SomeOutcome, TerminalStatus
<1>2. CASE Shutdown(w) \/ Crash(w)
  BY <1>2 DEF Shutdown, Crash
<1>3. CASE RecList(w) \/ RecRead(w) \/ RecPublish(w) \/ RecAppend(w) \/ RecAck(w) \/ RecFails(w)
  BY <1>3 DEF RecList, RecRead, RecPublish, RecAppend, RecAck, RecFails
<1> QED
  BY <1>1, <1>2, <1>3 DEF ProcessStep

\* A row begins, stays, gets its outcome or is deleted.
LEMMA RowStep ==
  ASSUME TypeOK, ~MayPause, Unpaused, [Next]_vars, NEW u \in Turn
  PROVE  /\ status'[u] \in {"none", "running"} \cup TerminalStatus
         /\ Nonterminal(u)' =>
              \/ Nonterminal(u) /\ UNCHANGED <<status[u], rowToken[u]>>
              \/ pc[u] = "acquired" /\ pc'[u] = "launch" /\ UNCHANGED coordVars
<1> DEFINE Plain(s) == s \in {"none", "running"} \cup TerminalStatus
           Goal == /\ Plain(status'[u])
                   /\ Nonterminal(u)' =>
                        \/ Nonterminal(u) /\ UNCHANGED <<status[u], rowToken[u]>>
                        \/ pc[u] = "acquired" /\ pc'[u] = "launch" /\ UNCHANGED coordVars
<1>1. CASE SomeOutcome
  <2>1. PICK t \in Turn, to \in TerminalStatus, expected \in Status \cup {"any"}, token \in Nat :
          Transition(t, to, expected, token)
    BY <1>1 DEF SomeOutcome
  <2>2. UNCHANGED rowToken /\ (status'[u] = status[u] \/ status'[u] \in TerminalStatus)
    BY <2>1 DEF Transition, TypeOK, StoreTypeOK
  <2> QED
    BY <2>2 DEF Unpaused, Nonterminal, NonterminalStatus, TerminalStatus
<1>2. CASE UNCHANGED storeVars
  BY <1>2 DEF storeVars, Unpaused, Nonterminal
<1>3. ASSUME NEW t \in Turn, BeginTurn(t)
      PROVE  Goal
  <2>1. CASE CanBegin(t) /\ u = t
    BY <1>3, <2>1 DEF BeginTurn, Begin, At, Goto, TypeOK, StoreTypeOK, TaskTypeOK
  <2>2. CASE CanBegin(t) /\ u # t
    BY <1>3, <2>2 DEF BeginTurn, Begin, Unpaused, Nonterminal, TypeOK, StoreTypeOK
  <2>3. CASE ~CanBegin(t)
    BY <1>2, <1>3, <2>3 DEF BeginTurn
  <2> QED
    BY <2>1, <2>2, <2>3
<1>4. CASE \E t \in Turn : TurnStep(t)
  BY <1>1, <1>2, <1>3, <1>4, TurnStepOutcomes
<1>5. CASE \E w \in Worker : ProcessStep(w)
  BY <1>1, <1>2, <1>5, ProcessStepOutcomes
<1>6. ASSUME NEW s \in Session, RemoveSession(s)
      PROVE  Goal
  BY <1>6 DEF RemoveSession, DeleteSession, Unpaused, Nonterminal, NonterminalStatus
<1>7. CASE UNCHANGED vars
  BY <1>2, <1>7 DEF vars
<1> QED
  BY <1>4, <1>5, <1>6, <1>7 DEF Next

\* Redis keeps the record of a lease no longer than the lease.
RecordsLive == Redis => \A t \in Turn : lease[t] # 0 => Active(t)

LEMMA RecordsStep ==
  ASSUME CoordInv, RecordsLive, [CoordNext]_coordVars
  PROVE  RecordsLive'
<1> SUFFICES ASSUME Redis, NEW u \in Turn, lease'[u] # 0
             PROVE  u \in live'
  BY DEF RecordsLive, Active
<1> USE DEF RecordsLive, Active, CoordInv, CoordTypeOK
<1>1. CASE UNCHANGED <<lease, live>>
  BY <1>1
<1>2. ASSUME NEW t \in Turn, Acquire(t)
      PROVE  u \in live'
  BY <1>2 DEF Acquire, HandOut
<1>3. ASSUME NEW t \in Turn, Drop(t)
      PROVE  u \in live'
  BY <1>3 DEF Drop
<1>4. ASSUME NEW t \in Turn, Renew(t)
      PROVE  u \in live'
  BY <1>4 DEF Renew
<1>5. ASSUME NEW t \in Turn, Release(t) \/ Expire(t) \/ Acknowledge(t)
      PROVE  u \in live'
  BY <1>1, <1>3, <1>5 DEF Release, Expire, Acknowledge, coordVars
<1> QED
  BY <1>1, <1>2, <1>4, <1>5 DEF CoordNext, Forget, coordVars

\* A turn is taken out of the registry after recovery dealt with it, or by the
\* owner that gives a lease back which it still holds.
LEMMA KnownStep ==
  ASSUME TypeOK, CoordInv, RecordsLive, Recoverable, [Next]_vars,
         NEW u \in Turn, u \in known, u \notin known'
  PROVE  \/ \E w \in Worker : rec[w].pc = "ack" /\ rec[w].turn = u
         \/ Redis /\ Active(u) /\ pc[u] = "cleanup"
         \/ pc[u] = "acquired" /\ pc'[u] = "ended" /\ UNCHANGED storeVars
<1> DEFINE Goal == \/ \E w \in Worker : rec[w].pc = "ack" /\ rec[w].turn = u
                   \/ Redis /\ Active(u) /\ pc[u] = "cleanup"
                   \/ pc[u] = "acquired" /\ pc'[u] = "ended" /\ UNCHANGED storeVars
<1>1. UNCHANGED coordVars => FALSE
  BY DEF coordVars
<1>2. \A t \in Turn : Release(t) => t = u /\ Redis /\ Active(u)
  BY <1>1 DEF Release, Matches, RecordsLive
<1>3. ~Fault
  BY DEF Fault, Recoverable, TypeOK, BudgetTypeOK
<1>4. ASSUME NEW t \in Turn, TurnStep(t)
      PROVE  Goal
  <2>1. Release(t)
    BY <1>1, <1>4, TurnStepCoord DEF Acquire, Renew, Expire
  <2>2. t = u /\ Redis /\ Active(u)
    BY <1>2, <2>1
  <2>3. BeginTurn(t) \/ Cleanup(t) \/ InterruptCleanup(t)
    <3>1. CASE StartTurn(t)
      BY <3>1 DEF StartTurn, Acquire
    <3>2. CASE AbandonStart(t) \/ RejectLaunch(t) \/ Launch(t) \/ LaunchFails(t)
      BY <1>1, <1>3, <3>2 DEF AbandonStart, RejectLaunch, Launch, LaunchFails
    <3>3. CASE Pause(t) \/ Reply(t) \/ InterruptWait(t) \/ Restore(t) \/ Finish(t) \/ Settle(t)
      BY <1>1, <3>3 DEF Pause, Reply, InterruptWait, Restore, Finish, Settle
    <3>4. CASE Announce(t) \/ AfterDone(t) \/ Interrupt(t) \/ CancelPublish(t) \/ CancelSettle(t)
      BY <1>1, <3>4 DEF Announce, AfterDone, Interrupt, CancelPublish, CancelSettle
    <3>5. CASE CancelAnnounce(t) \/ Fail(t) \/ FailPublish(t) \/ FailSettle(t)
      BY <1>1, <3>5 DEF CancelAnnounce, Fail, FailPublish, FailSettle
    <3>6. CASE ObserveCancel(t) \/ Heartbeat(t) \/ CoordinationFails(t) \/ LeaseExpires(t)
      BY <1>1, <3>6 DEF ObserveCancel, Heartbeat, Renew, CoordinationFails, LeaseExpires, Expire
    <3>7. CASE RequestCancel(t) \/ LocalCancel(t) \/ AdminCancel(t)
      BY <1>1, <3>7 DEF RequestCancel, LocalCancel, AdminCancel
    <3> QED
      BY <1>4, <3>1, <3>2, <3>3, <3>4, <3>5, <3>6, <3>7 DEF TurnStep
  <2>4. CASE BeginTurn(t)
    BY <1>1, <2>2, <2>4 DEF BeginTurn, At, Goto, TypeOK, TaskTypeOK
  <2>5. CASE Cleanup(t) \/ InterruptCleanup(t)
    BY <2>2, <2>5 DEF Cleanup, InterruptCleanup, Continues, At
  <2> QED
    BY <2>3, <2>4, <2>5
<1>5. ASSUME NEW w \in Worker, ProcessStep(w)
      PROVE  Goal
  <2>1. ~Crash(w)
    BY <1>1, <1>5 DEF Crash, Recoverable, TypeOK, BudgetTypeOK
  <2>2. RecAck(w)
    BY <1>1, <1>5, <2>1 DEF ProcessStep, Shutdown, RecList, RecRead, RecPublish, RecAppend,
                            RecSettle, RecFails
  <2>3. rec[w].pc = "ack" /\ rec[w].turn = u
    BY <2>2 DEF RecAck, Acknowledge
  <2> QED
    BY <2>3
<1>6. CASE \E s \in Session : RemoveSession(s)
  BY <1>1, <1>6 DEF RemoveSession
<1>7. CASE UNCHANGED vars
  BY <1>1, <1>7 DEF vars
<1> QED
  BY <1>4, <1>5, <1>6, <1>7 DEF Next

-----------------------------------------------------------------------------
(* What the tasks and their coordination know *)

LEMMA OtherFlags ==
  ASSUME TypeOK, NEW t \in Turn, TurnStep(t), NEW u \in Turn, u # t
  PROVE  UNCHANGED <<coord[u], lost[u], stop[u], cmd[u]>>
<1> USE DEF TypeOK, TaskTypeOK, CancelTask, taskVars
<1>1. CASE StartTurn(t) \/ AbandonStart(t) \/ BeginTurn(t) \/ RejectLaunch(t)
  BY <1>1 DEF StartTurn, AbandonStart, BeginTurn, RejectLaunch
<1>2. CASE Launch(t) \/ LaunchFails(t) \/ Pause(t)
  BY <1>2 DEF Launch, LaunchFails, Pause
<1>3. CASE Reply(t) \/ InterruptWait(t) \/ Restore(t) \/ Finish(t) \/ Announce(t) \/ AfterDone(t)
  BY <1>3 DEF Reply, InterruptWait, Restore, Finish, Announce, AfterDone
<1>4. CASE Settle(t) \/ Interrupt(t)
  BY <1>4 DEF Settle, Interrupt
<1>5. CASE CancelPublish(t) \/ CancelSettle(t) \/ CancelAnnounce(t)
  BY <1>5 DEF CancelPublish, CancelSettle, CancelAnnounce
<1>6. CASE Fail(t) \/ FailPublish(t) \/ FailSettle(t)
  BY <1>6 DEF Fail, FailPublish, FailSettle
<1>7. CASE Cleanup(t) \/ InterruptCleanup(t)
  BY <1>7 DEF Cleanup, InterruptCleanup, Exit
<1>8. CASE ObserveCancel(t) \/ Heartbeat(t) \/ CoordinationFails(t)
  BY <1>8 DEF ObserveCancel, Heartbeat, CoordinationFails
<1>9. CASE RequestCancel(t) \/ LocalCancel(t) \/ AdminCancel(t) \/ LeaseExpires(t)
  BY <1>9 DEF RequestCancel, LocalCancel, AdminCancel, LeaseExpires
<1> QED
  BY <1>1, <1>2, <1>3, <1>4, <1>5, <1>6, <1>7, <1>8, <1>9 DEF TurnStep

\* Only a task has a coordination task, or can know its lease lost.
LEMMA FlagsNeedTask ==
  ASSUME TypeOK, NEW u \in Turn, TurnStep(u), coord[u] \/ lost[u] => pc[u] \in TaskPhase,
         coord'[u] \/ lost'[u]
  PROVE  pc'[u] \in TaskPhase
<1> USE DEF TypeOK, TaskTypeOK, CancelTask, taskVars, Goto, At, Continues, TaskPhase, Running,
            Unwinding
<1>1. CASE StartTurn(u) \/ AbandonStart(u) \/ BeginTurn(u) \/ RejectLaunch(u)
  BY <1>1 DEF StartTurn, AbandonStart, BeginTurn, RejectLaunch
<1>2. CASE Launch(u) \/ LaunchFails(u) \/ Pause(u)
  BY <1>2 DEF Launch, LaunchFails, Pause
<1>3. CASE Reply(u) \/ InterruptWait(u) \/ Restore(u) \/ Finish(u) \/ Announce(u) \/ AfterDone(u)
  BY <1>3 DEF Reply, InterruptWait, Restore, Finish, Announce, AfterDone
<1>4. CASE Settle(u) \/ Interrupt(u)
  BY <1>4 DEF Settle, Interrupt, UnwindTo
<1>5. CASE CancelPublish(u) \/ CancelSettle(u) \/ CancelAnnounce(u)
  BY <1>5 DEF CancelPublish, CancelSettle, CancelAnnounce
<1>6. CASE Fail(u) \/ FailPublish(u) \/ FailSettle(u)
  BY <1>6 DEF Fail, FailPublish, FailSettle
<1>7. CASE Cleanup(u) \/ InterruptCleanup(u)
  BY <1>7 DEF Cleanup, InterruptCleanup, Exit
<1>8. CASE ObserveCancel(u) \/ Heartbeat(u) \/ CoordinationFails(u)
  BY <1>8 DEF ObserveCancel, Heartbeat, CoordinationFails
<1>9. CASE RequestCancel(u) \/ LocalCancel(u) \/ AdminCancel(u) \/ LeaseExpires(u)
  BY <1>9 DEF RequestCancel, LocalCancel, AdminCancel, LeaseExpires
<1> QED
  BY <1>1, <1>2, <1>3, <1>4, <1>5, <1>6, <1>7, <1>8, <1>9 DEF TurnStep

\* A task is refused only when its turn is decided or deleted.
LEMMA OwnerIsAdmitted ==
  ASSUME Unpaused, RowsAreFenced, NEW u \in Turn, Nonterminal(u), NEW to
  PROVE  Admits(u, to, "running", claim[u])
BY DEF Unpaused, RowsAreFenced, Nonterminal, NonterminalStatus, TerminalStatus, Admits,
       HasRow, Terminal

\* Where nobody asks a task to stop and no call fails, it stops for a lost
\* lease only, and comes to its end unsettled only after that.
LEMMA TaskLeaves ==
  ASSUME Redis, Recoverable, TypeOK, Unpaused, RowsAreFenced, DoneMatchesRow,
         NEW u \in Turn, TurnStep(u), ~cmd[u], stop[u] # "none" => lost[u]
  PROVE  /\ ~cmd'[u]
         /\ stop'[u] # "none" => lost'[u]
         /\ lost'[u] /\ ~lost[u] => ~CanRenew(u) \/ ~Nonterminal(u)'
         /\ pc'[u] = "cleanup" /\ pc[u] # "cleanup" => lost[u] \/ ~Nonterminal(u)'
<1> USE DEF TypeOK, TaskTypeOK, taskVars, Goto, At, Continues
<1>1. ~Fault /\ ~MayCancel /\ ~MayPause
  BY DEF Fault, Recoverable, BudgetTypeOK
<1>2. CASE StartTurn(u) \/ AbandonStart(u) \/ BeginTurn(u) \/ RejectLaunch(u) \/ Launch(u)
  BY <1>2 DEF StartTurn, AbandonStart, BeginTurn, RejectLaunch, Launch
<1>3. CASE LaunchFails(u) \/ Pause(u) \/ Reply(u) \/ InterruptWait(u) \/ Restore(u)
  BY <1>1, <1>3 DEF LaunchFails, Pause, Reply, InterruptWait, Restore
<1>4. CASE Finish(u) \/ Announce(u) \/ CancelPublish(u)
  BY <1>1, <1>4 DEF Finish, Announce, CancelPublish
<1>5. CASE Settle(u)
  <2>1. CASE Admits(u, outcome[u], "running", claim[u])
    BY <1>5, <2>1 DEF Settle
  <2>2. CASE ~Admits(u, outcome[u], "running", claim[u])
    <3>1. ~Nonterminal(u)
      BY <2>2, OwnerIsAdmitted
    <3>2. ~Nonterminal(u)'
      BY <1>5, <2>2, <3>1 DEF Settle, Transition, Nonterminal
    <3> QED
      BY <1>5, <2>2, <3>2 DEF Settle
  <2> QED
    BY <2>1, <2>2
<1>6. CASE CancelSettle(u)
  <2>1. CASE Admits(u, outcome[u], "running", claim[u])
    BY <1>6, <2>1 DEF CancelSettle
  <2>2. CASE ~Admits(u, outcome[u], "running", claim[u])
    <3>1. ~Nonterminal(u)
      BY <2>2, OwnerIsAdmitted
    <3>2. ~Nonterminal(u)'
      BY <1>6, <2>2, <3>1 DEF CancelSettle, Transition, Nonterminal
    <3> QED
      BY <1>6, <3>2 DEF CancelSettle
  <2> QED
    BY <2>1, <2>2
<1>7. CASE AfterDone(u) \/ CancelAnnounce(u)
  <2>1. status[u] \in {outcome[u], "none"} /\ outcome[u] \in TerminalStatus
    BY <1>7 DEF AfterDone, CancelAnnounce, DoneMatchesRow
  <2>2. ~Nonterminal(u)'
    BY <1>7, <2>1 DEF AfterDone, CancelAnnounce, storeVars, Nonterminal, NonterminalStatus,
                      TerminalStatus
  <2> QED
    BY <1>7, <2>2 DEF AfterDone, CancelAnnounce
<1>8. CASE FailSettle(u)
  <2>1. ~Nonterminal(u)'
    <3>1. CASE Nonterminal(u)
      <4>1. Admits(u, "failed", "running", claim[u])
        BY <3>1, OwnerIsAdmitted
      <4> QED
        BY <1>8, <4>1 DEF FailSettle, Transition, Nonterminal, NonterminalStatus, StoreTypeOK
    <3>2. CASE ~Nonterminal(u)
      BY <1>8, <3>2 DEF FailSettle, Transition, Nonterminal, NonterminalStatus, StoreTypeOK
    <3> QED
      BY <3>1, <3>2
  <2> QED
    BY <1>8, <2>1 DEF FailSettle
<1>9. CASE Interrupt(u)
  BY <1>9 DEF Interrupt
<1>10. CASE Fail(u) \/ FailPublish(u)
  BY <1>1, <1>10 DEF Fail, FailPublish
<1>11. CASE Cleanup(u) \/ InterruptCleanup(u)
  BY <1>11 DEF Cleanup, InterruptCleanup, Exit
<1>12. CASE ObserveCancel(u) \/ CoordinationFails(u) \/ RequestCancel(u) \/ LocalCancel(u)
  BY <1>1, <1>12 DEF ObserveCancel, CoordinationFails, RequestCancel, LocalCancel
<1>13. CASE Heartbeat(u)
  BY <1>13 DEF Heartbeat, CancelTask
<1>14. CASE AdminCancel(u) \/ LeaseExpires(u)
  BY <1>1, <1>14 DEF AdminCancel, LeaseExpires
<1> QED
  BY <1>2, <1>3, <1>4, <1>5, <1>6, <1>7, <1>8, <1>9, <1>10, <1>11, <1>12, <1>13, <1>14
     DEF TurnStep

\* Processes end tasks and, unless they are shut down, ask none to stop.
LEMMA ProcessStepFlags ==
  ASSUME TypeOK, NEW w \in Worker, ProcessStep(w), NEW u \in Turn
  PROVE  /\ UNCHANGED cmd
         /\ coord'[u] \/ lost'[u] =>
              pc'[u] = pc[u] /\ coord'[u] = coord[u] /\ lost'[u] = lost[u]
         /\ stop'[u] # "none" /\ MaxShutdowns = 0 =>
              stop'[u] = stop[u] /\ lost'[u] = lost[u]
<1> USE DEF TypeOK, TaskTypeOK, taskVars
<1>1. CASE Shutdown(w)
  BY <1>1 DEF Shutdown, BudgetTypeOK
<1>2. CASE Crash(w)
  BY <1>2 DEF Crash, Exit
<1>3. CASE RecList(w) \/ RecRead(w) \/ RecPublish(w) \/ RecAppend(w)
  BY <1>3 DEF RecList, RecRead, RecPublish, RecAppend
<1>4. CASE RecSettle(w) \/ RecAck(w) \/ RecFails(w)
  BY <1>4 DEF RecSettle, RecAck, RecFails
<1> QED
  BY <1>1, <1>2, <1>3, <1>4 DEF ProcessStep

-----------------------------------------------------------------------------
(* What the recovery loops know *)

LEMMA RecMoves ==
  ASSUME TypeOK, [Next]_vars, NEW w \in Worker, rec'[w].pc # "scan"
  PROVE  /\ rec'[w].turn \in Turn
         /\ \/ /\ rec'[w].pc = "ack"
               /\ Terminal(rec'[w].turn) /\ UNCHANGED <<pc, storeVars>>
            \/ /\ rec'[w].pc = "publish"
               /\ Nonterminal(rec'[w].turn) /\ rec'[w].seen = status[rec'[w].turn]
               /\ rec'[w].token = rowToken[rec'[w].turn] /\ UNCHANGED <<pc, storeVars>>
            \/ RecSettle(w) /\ rec'[w].turn = rec[w].turn
            \/ /\ rec[w].pc # "scan" /\ (rec'[w].pc = "ack" <=> rec[w].pc = "ack")
               /\ rec'[w].turn = rec[w].turn
               /\ rec'[w].seen = rec[w].seen /\ rec'[w].token = rec[w].token
<1> DEFINE Goal ==
      /\ rec'[w].turn \in Turn
      /\ \/ /\ rec'[w].pc = "ack"
            /\ Terminal(rec'[w].turn) /\ UNCHANGED <<pc, storeVars>>
         \/ /\ rec'[w].pc = "publish"
            /\ Nonterminal(rec'[w].turn) /\ rec'[w].seen = status[rec'[w].turn]
            /\ rec'[w].token = rowToken[rec'[w].turn] /\ UNCHANGED <<pc, storeVars>>
         \/ RecSettle(w) /\ rec'[w].turn = rec[w].turn
         \/ /\ rec[w].pc # "scan" /\ (rec'[w].pc = "ack" <=> rec[w].pc = "ack")
            /\ rec'[w].turn = rec[w].turn
            /\ rec'[w].seen = rec[w].seen /\ rec'[w].token = rec[w].token
<1> USE DEF TypeOK, RecTypeOK, Recovery
<1>0. rec'[w].turn \in Turn
  BY NextTypes, NoTurnIsNoTurn
<1>1. CASE rec'[w] = rec[w]
  BY <1>0, <1>1
<1>2. ASSUME NEW t \in Turn, TurnStep(t)
      PROVE  Goal
  BY <1>1, <1>2, TurnStepTypes
<1>3. ASSUME NEW v \in Worker, ProcessStep(v)
      PROVE  Goal
  <2>1. CASE Shutdown(v)
    BY <1>1, <2>1 DEF Shutdown
  <2>2. CASE Crash(v)
    BY <1>1, <2>2 DEF Crash, RecIdle
  <2>3. CASE RecList(v)
    BY <1>1, <2>3 DEF RecList
  <2>4. CASE RecRead(v)
    <3>1. CASE v # w
      BY <1>1, <2>4, <3>1 DEF RecRead
    <3>2. CASE v = w
      <4>0. PICK t \in rec[w].todo :
              \/ rec' = [rec EXCEPT ![w].todo = rec[w].todo \ {t}]
              \/ /\ Terminal(t)
                 /\ rec' = [rec EXCEPT ![w] =
                      [RecIdle EXCEPT !.pc = "ack", !.todo = rec[w].todo \ {t}, !.turn = t]]
              \/ /\ Nonterminal(t)
                 /\ rec' = [rec EXCEPT ![w] =
                      [pc |-> "publish", todo |-> rec[w].todo \ {t}, turn |-> t,
                       seen |-> status[t], token |-> rowToken[t]]]
        BY <2>4, <3>2 DEF RecRead
      <4>1. UNCHANGED <<pc, storeVars>> /\ rec[w].pc = "scan"
        BY <2>4, <3>2 DEF RecRead, taskVars
      <4>2. CASE rec' = [rec EXCEPT ![w].todo = rec[w].todo \ {t}]
        BY <4>1, <4>2
      <4>3. CASE Terminal(t) /\ rec' = [rec EXCEPT ![w] =
                      [RecIdle EXCEPT !.pc = "ack", !.todo = rec[w].todo \ {t}, !.turn = t]]
        BY <1>0, <4>1, <4>3 DEF RecIdle
      <4>4. CASE Nonterminal(t) /\ rec' = [rec EXCEPT ![w] =
                      [pc |-> "publish", todo |-> rec[w].todo \ {t}, turn |-> t,
                       seen |-> status[t], token |-> rowToken[t]]]
        BY <1>0, <4>1, <4>4
      <4> QED
        BY <4>0, <4>2, <4>3, <4>4
    <3> QED
      BY <3>1, <3>2
  <2>5. CASE RecPublish(v)
    BY <1>0, <2>5 DEF RecPublish, RecGoto
  <2>6. CASE RecAppend(v)
    BY <1>0, <2>6 DEF RecAppend, RecGoto, RecNext, RecIdle
  <2>7. CASE RecSettle(v)
    BY <1>0, <2>7 DEF RecSettle, RecGoto
  <2>8. CASE RecAck(v) \/ RecFails(v)
    BY <1>1, <2>8 DEF RecAck, RecFails, RecNext, RecIdle
  <2> QED
    BY <1>3, <2>1, <2>2, <2>3, <2>4, <2>5, <2>6, <2>7, <2>8 DEF ProcessStep
<1>4. CASE \E s \in Session : RemoveSession(s)
  BY <1>1, <1>4 DEF RemoveSession
<1>5. CASE UNCHANGED vars
  BY <1>1, <1>5 DEF vars
<1> QED
  BY <1>2, <1>3, <1>4, <1>5 DEF Next

-----------------------------------------------------------------------------
\* A turn that begins, or is unfinished, is in the registry of the scan.
Registered ==
  \A t \in Turn : /\ Nonterminal(t) \/ pc[t] = "acquired" => t \in known
                  /\ pc[t] \in {"idle", "acquired"} => ~HasRow(t)

\* A loop that will settle a turn knows its row; one that forgets it settled it.
LoopsKnow ==
  \A w \in Worker : \A t \in Turn : rec[w].turn = t /\ rec[w].pc # "scan" =>
    /\ pc[t] \notin {"idle", "acquired"}
    /\ Nonterminal(t) => /\ rec[w].pc # "ack"
                         /\ rec[w].seen = status[t] /\ rec[w].token = rowToken[t]

\* With Redis a task gives up an unfinished turn only when its lease is gone.
TasksKnow ==
  \A t \in Turn : /\ coord[t] \/ lost[t] => pc[t] \in TaskPhase
                  /\ Redis => /\ ~cmd[t]
                              /\ stop[t] # "none" => lost[t]
                              /\ Nonterminal(t) /\ (lost[t] \/ pc[t] = "cleanup") => ~Active(t)

FoundInv == Unpaused /\ RecordsLive /\ Registered /\ LoopsKnow /\ TasksKnow

\* What earlier theorems say of every state.
Established == RuntimeInv /\ RowsAreFenced /\ DoneMatchesRow

LEMMA RegisteredStep ==
  ASSUME Established, FoundInv, Recoverable, [Next]_vars
  PROVE  Registered'
<1>0. TypeOK /\ CoordInv /\ CoordTypeOK /\ RecordsLive /\ Unpaused /\ ~MayPause
  BY DEF Established, RuntimeInv, TypeOK, FoundInv, Recoverable
<1> SUFFICES ASSUME NEW u \in Turn
             PROVE  /\ Nonterminal(u)' \/ pc'[u] = "acquired" => u \in known'
                    /\ pc'[u] \in {"idle", "acquired"} => ~HasRow(u)'
  BY DEF Registered
<1>1. ASSUME pc'[u] \in {"idle", "acquired"}
      PROVE  ~HasRow(u)'
  <2>1. pc[u] \in {"idle", "acquired"}
    BY <1>0, <1>1, StartOrigin, StartGives
  <2> QED
    BY <1>0, <1>1, <2>1, RowOrigin DEF FoundInv, Registered
<1>2. ASSUME Nonterminal(u)' \/ pc'[u] = "acquired"
      PROVE  u \in known'
  <2>1. CASE u \in known
    <3> SUFFICES ASSUME u \notin known'
                 PROVE  FALSE
      OBVIOUS
    <3>1. CASE \E w \in Worker : rec[w].pc = "ack" /\ rec[w].turn = u
      <4>1. ~Nonterminal(u) /\ pc[u] \notin {"idle", "acquired"}
        BY <3>1 DEF FoundInv, LoopsKnow
      <4>2. ~Nonterminal(u)'
        BY <1>0, <4>1, RowStep
      <4> QED
        BY <1>0, <1>2, <4>1, <4>2, StartOrigin, StartGives
    <3>2. CASE Redis /\ Active(u) /\ pc[u] = "cleanup"
      <4>1. ~Nonterminal(u)
        BY <3>2 DEF FoundInv, TasksKnow
      <4>2. ~Nonterminal(u)'
        BY <1>0, <3>2, <4>1, RowStep
      <4> QED
        BY <1>0, <1>2, <3>2, <4>2, StartOrigin, StartGives
    <3>3. CASE pc[u] = "acquired" /\ pc'[u] = "ended" /\ UNCHANGED storeVars
      <4>1. ~HasRow(u)
        BY <3>3 DEF FoundInv, Registered
      <4> QED
        BY <1>2, <3>3, <4>1 DEF HasRow, Nonterminal, NonterminalStatus, storeVars
    <3> QED
      BY <1>0, <2>1, <3>1, <3>2, <3>3, KnownStep
  <2>2. CASE u \notin known
    <3>1. ~Nonterminal(u) /\ pc[u] # "acquired"
      BY <2>2 DEF FoundInv, Registered
    <3>2. ~Nonterminal(u)'
      BY <1>0, <3>1, RowStep
    <3> QED
      BY <1>0, <1>2, <3>1, <3>2, StartOrigin, StartGives
  <2> QED
    BY <2>1, <2>2
<1> QED
  BY <1>1, <1>2

LEMMA LoopsStep ==
  ASSUME Established, FoundInv, Recoverable, [Next]_vars
  PROVE  LoopsKnow'
<1>0. TypeOK /\ CoordTypeOK /\ Unpaused /\ ~MayPause /\ StoreTypeOK
  BY DEF Established, RuntimeInv, TypeOK, FoundInv, Recoverable
<1> SUFFICES ASSUME NEW w \in Worker, NEW t \in Turn, rec'[w].turn = t, rec'[w].pc # "scan"
             PROVE  /\ pc'[t] \notin {"idle", "acquired"}
                    /\ Nonterminal(t)' => /\ rec'[w].pc # "ack"
                                          /\ rec'[w].seen = status'[t]
                                          /\ rec'[w].token = rowToken'[t]
  BY DEF LoopsKnow
<1>1. ASSUME pc[t] \notin {"idle", "acquired"}
      PROVE  /\ pc'[t] \notin {"idle", "acquired"}
             /\ Nonterminal(t)' => Nonterminal(t) /\ UNCHANGED <<status[t], rowToken[t]>>
  BY <1>0, <1>1, StartOrigin, StartGives, RowStep
<1>2. CASE /\ rec'[w].pc = "ack"
           /\ Terminal(rec'[w].turn) /\ UNCHANGED <<pc, storeVars>>
  BY <1>2 DEF FoundInv, Registered, HasRow, Terminal, TerminalStatus, Nonterminal,
              NonterminalStatus, storeVars
<1>3. CASE /\ rec'[w].pc = "publish"
           /\ Nonterminal(rec'[w].turn) /\ rec'[w].seen = status[rec'[w].turn]
           /\ rec'[w].token = rowToken[rec'[w].turn] /\ UNCHANGED <<pc, storeVars>>
  BY <1>3 DEF FoundInv, Registered, HasRow, Nonterminal, NonterminalStatus, storeVars
<1>4. CASE RecSettle(w) /\ rec'[w].turn = rec[w].turn
  <2>1. rec[w].pc = "settle" /\ rec[w].turn = t
    BY <1>4 DEF RecSettle
  <2>2. pc[t] \notin {"idle", "acquired"}
    BY <2>1 DEF FoundInv, LoopsKnow
  <2>3. ~Nonterminal(t)'
    <3> SUFFICES ASSUME Nonterminal(t)'
                 PROVE  FALSE
      OBVIOUS
    <3>1. Nonterminal(t) /\ status'[t] = status[t]
      BY <1>1, <2>2
    <3>2. Admits(t, "failed", rec[w].seen, rec[w].token)
      BY <2>1, <3>1 DEF FoundInv, LoopsKnow, Admits, HasRow, Terminal, TerminalStatus,
                        Nonterminal, NonterminalStatus
    <3>3. status'[t] = "failed"
      BY <1>0, <1>4, <2>1, <3>2 DEF RecSettle, Transition, StoreTypeOK
    <3> QED
      BY <3>1, <3>3 DEF Nonterminal, NonterminalStatus
  <2> QED
    BY <1>1, <2>2, <2>3
<1>5. CASE /\ rec[w].pc # "scan" /\ (rec'[w].pc = "ack" <=> rec[w].pc = "ack")
           /\ rec'[w].turn = rec[w].turn
           /\ rec'[w].seen = rec[w].seen /\ rec'[w].token = rec[w].token
  <2>1. /\ pc[t] \notin {"idle", "acquired"}
        /\ Nonterminal(t) => /\ rec[w].pc # "ack"
                             /\ rec[w].seen = status[t] /\ rec[w].token = rowToken[t]
    BY <1>5 DEF FoundInv, LoopsKnow
  <2>2. pc'[t] \notin {"idle", "acquired"}
    BY <1>1, <2>1
  <2>3. ASSUME Nonterminal(t)'
        PROVE  /\ rec'[w].pc # "ack"
               /\ rec'[w].seen = status'[t] /\ rec'[w].token = rowToken'[t]
    BY <1>1, <1>5, <2>1, <2>3
  <2> QED
    BY <2>2, <2>3
<1> QED
  BY <1>0, <1>2, <1>3, <1>4, <1>5, RecMoves

LEMMA TasksStep ==
  ASSUME Established, FoundInv, Recoverable, [Next]_vars
  PROVE  TasksKnow'
<1>0. /\ TypeOK /\ CoordInv /\ Unpaused /\ ~MayPause /\ RowsAreFenced /\ DoneMatchesRow
      /\ [CoordNext]_coordVars
  BY CoordStep DEF Established, RuntimeInv, FoundInv, Recoverable
<1> SUFFICES ASSUME NEW u \in Turn
             PROVE  /\ coord'[u] \/ lost'[u] => pc'[u] \in TaskPhase
                    /\ Redis => /\ ~cmd'[u]
                                /\ stop'[u] # "none" => lost'[u]
                                /\ Nonterminal(u)' /\ (lost'[u] \/ pc'[u] = "cleanup")
                                     => ~Active(u)'
  BY DEF TasksKnow
<1> DEFINE Knows == /\ coord[u] \/ lost[u] => pc[u] \in TaskPhase
                    /\ Redis => ~cmd[u] /\ (stop[u] # "none" => lost[u])
           Gone == lost[u] \/ pc[u] = "cleanup"
           Shown == /\ Knows'
                    /\ Redis /\ Nonterminal(u)' /\ Gone' => Gone \/ ~CanRenew(u)
<1>1. Knows /\ (Redis /\ Nonterminal(u) /\ Gone => ~Active(u))
  BY DEF FoundInv, TasksKnow
<1>2. ASSUME UNCHANGED <<pc, stop, lost, coord, cmd>>
      PROVE  Shown
  BY <1>1, <1>2
<1>3. ASSUME TurnStep(u)
      PROVE  Shown
  <2>1. coord'[u] \/ lost'[u] => pc'[u] \in TaskPhase
    BY <1>0, <1>1, <1>3, FlagsNeedTask
  <2>2. ASSUME Redis
        PROVE  /\ ~cmd'[u]
               /\ stop'[u] # "none" => lost'[u]
               /\ lost'[u] /\ ~lost[u] => ~CanRenew(u) \/ ~Nonterminal(u)'
               /\ pc'[u] = "cleanup" /\ pc[u] # "cleanup" => lost[u] \/ ~Nonterminal(u)'
    BY <1>0, <1>1, <1>3, <2>2, TaskLeaves
  <2> QED
    BY <2>1, <2>2
<1>4. ASSUME NEW t \in Turn, TurnStep(t), t # u
      PROVE  Shown
  <2>1. UNCHANGED <<pc[u], coord[u], lost[u], stop[u], cmd[u]>>
    BY <1>0, <1>4, OtherTurns, OtherFlags
  <2> QED
    BY <1>1, <2>1
<1>5. ASSUME NEW w \in Worker, ProcessStep(w)
      PROVE  Shown
  <2>1. pc'[u] = "ended" \/ pc'[u] = pc[u]
    BY <1>0, <1>5, ProcessStepPhases
  <2> QED
    BY <1>0, <1>1, <1>5, <2>1, ProcessStepFlags DEF Recoverable
<1>6. Shown
  <2>1. CASE \E s \in Session : RemoveSession(s)
    BY <1>2, <2>1 DEF RemoveSession, taskVars
  <2>2. CASE UNCHANGED vars
    BY <1>2, <2>2 DEF vars, taskVars
  <2> QED
    BY <1>3, <1>4, <1>5, <2>1, <2>2 DEF Next
<1>7. ASSUME Redis, Nonterminal(u)', Gone'
      PROVE  ~Active(u)'
  <2>1. pc'[u] \in TaskPhase
    BY <1>6, <1>7 DEF TaskPhase, Unwinding
  <2>2. Nonterminal(u)
    BY <1>0, <1>7, <2>1, RowStep DEF TaskPhase, Running, Unwinding
  <2>3. claim[u] # 0
    BY <1>0, <2>2 DEF RowsAreFenced, HasRow, Nonterminal, NonterminalStatus
  <2>4. ~Active(u)
    <3>1. CASE Gone
      BY <1>1, <1>7, <2>2, <3>1
    <3>2. CASE ~CanRenew(u)
      BY <1>0, <2>3, <3>2 DEF CanRenew, Matches, CoordInv, LeaseReachable, Active
    <3> QED
      BY <1>6, <1>7, <3>1, <3>2
  <2> QED
    BY <1>0, <2>3, <2>4, ClaimedOnce
<1> QED
  BY <1>6, <1>7

(***************************************************************************)
(* In a recoverable deployment every unfinished turn whose task is gone    *)
(* has a live lease that will expire or is in the registry of the recovery *)
(* scan, for any number of turns and workers, however long they stall and, *)
(* with Redis, however often they crash (redis.py 303, recovery.py 60-115, *)
(* lifecycle.py 244-262).                                                  *)
(***************************************************************************)
THEOREM LostTurnsAreFound ==
  ASSUME Recoverable
  PROVE  Spec => []NoStrandedTurn
<1>1. Init => FoundInv
  <2> SUFFICES ASSUME Init
               PROVE  FoundInv
    OBVIOUS
  <2>1. Unpaused /\ RecordsLive
    BY DEF Init, StoreInit, CoordInit, Unpaused, RecordsLive
  <2>2. Registered
    BY DEF Init, StoreInit, Registered, HasRow, Nonterminal, NonterminalStatus
  <2>3. LoopsKnow
    BY DEF Init, RecIdle, LoopsKnow
  <2>4. TasksKnow
    BY DEF Init, TasksKnow, StoreInit, Nonterminal, NonterminalStatus
  <2> QED
    BY <2>1, <2>2, <2>3, <2>4 DEF FoundInv
<1>2. Established /\ FoundInv /\ [Next]_vars => FoundInv'
  <2> SUFFICES ASSUME Established, FoundInv, [Next]_vars
               PROVE  FoundInv'
    OBVIOUS
  <2>1. TypeOK /\ CoordInv /\ [CoordNext]_coordVars /\ ~MayPause
    BY CoordStep DEF Established, RuntimeInv, Recoverable
  <2>2. Unpaused'
    BY <2>1, RowStep DEF FoundInv, Unpaused
  <2>3. RecordsLive'
    BY <2>1, RecordsStep DEF FoundInv
  <2> QED
    BY <2>2, <2>3, RegisteredStep, LoopsStep, TasksStep DEF FoundInv
<1>3. FoundInv => NoStrandedTurn
  BY DEF FoundInv, Registered, NoStrandedTurn
<1>4. RuntimeInv /\ RowsAreFenced /\ DoneMatchesRow => Established
  BY DEF Established
<1> QED
  BY <1>1, <1>2, <1>3, <1>4, RuntimeInvariant, RowsStayFenced, AnnouncedIsStored, PTL DEF Spec
-----------------------------------------------------------------------------
(* What holds while workers are prompt *)

(***************************************************************************)
(* Workers renew their leases in time, calls of the coordinator succeed    *)
(* and nobody cancels; workers may crash and shut down.                    *)
(***************************************************************************)
Prompt == ~MayStall /\ ~MayCancel /\ MaxFaults = 0

\* A turn is owned, by its start or its task, until it has ended.
Leased ==
  \A t \in Turn : /\ pc[t] \notin {"idle", "ended"} => t \in live
                  /\ coord[t] \/ lost[t] => pc[t] \in TaskPhase

\* Only a shutdown asks a task to stop.
Unasked ==
  \A t \in Turn : ~cmd[t] /\ stop[t] \in {"none", "shutdown"}
                  /\ (stop[t] = "shutdown" => MaxShutdowns # 0)

\* Phases in which the owner has not decided, or has failed without a row.
Undecided == {"idle", "acquired", "launch", "run", "wait", "restore", "failPublish", "failSettle"}
\* Phases that follow the failure of a task.
Undone == {"failPublish", "failSettle", "cleanup", "ended"}

OwnRow ==
  \A t \in Turn : /\ pc[t] \in {"idle", "acquired"} => ~HasRow(t)
                  /\ pc[t] \in Undecided => ~Terminal(t)
                  /\ pc[t] \in {"failPublish", "failSettle"} => outcome[t] = "failed"

\* Recovery works on turns that have ended, and on none with another outcome.
RecoveryIsLate ==
  \A w \in Worker : rec[w].pc \in {"publish", "append", "settle"} =>
    /\ pc[rec[w].turn] = "ended"
    /\ status[rec[w].turn] \in NonterminalStatus \cup {"failed", "none"}

PromptInv == Leased /\ Unasked /\ OwnRow /\ RecoveryIsLate

\* A lease goes with its release or, where nobody stalls, after the task.
LEMMA TurnStepLive ==
  ASSUME TypeOK, ~MayStall, NEW t \in Turn, TurnStep(t)
  PROVE  /\ \A u \in live : u # t => u \in live'
         /\ t \in live \/ pc[t] = "idle" => t \in live' \/ pc'[t] \in {"idle", "ended"}
<1> USE DEF TypeOK, TaskTypeOK, CoordTypeOK, At, Goto, taskVars
<1>1. UNCHANGED coordVars => UNCHANGED live
  BY DEF coordVars
<1>2. Release(t) => live' = live \/ live' = live \ {t}
  BY DEF Release, Drop, coordVars
<1>3. CASE StartTurn(t)
  BY <1>3 DEF StartTurn, Acquire, HandOut
<1>4. CASE AbandonStart(t) \/ RejectLaunch(t) \/ Launch(t)
  BY <1>1, <1>4 DEF AbandonStart, RejectLaunch, Launch
<1>5. CASE BeginTurn(t) \/ LaunchFails(t)
  BY <1>1, <1>2, <1>5 DEF BeginTurn, TryRelease, LaunchFails
<1>6. CASE Pause(t) \/ Reply(t) \/ InterruptWait(t) \/ Restore(t) \/ Finish(t)
  BY <1>1, <1>6 DEF Pause, Reply, InterruptWait, Restore, Finish, Continues
<1>7. CASE Settle(t) \/ Announce(t) \/ AfterDone(t) \/ Interrupt(t)
  BY <1>1, <1>7 DEF Settle, Announce, AfterDone, Interrupt, Continues, TaskPhase, Running, Unwinding
<1>8. CASE CancelPublish(t) \/ CancelSettle(t) \/ CancelAnnounce(t)
  BY <1>1, <1>8 DEF CancelPublish, CancelSettle, CancelAnnounce, Continues
<1>9. CASE Fail(t) \/ FailPublish(t) \/ FailSettle(t)
  BY <1>1, <1>9 DEF Fail, FailPublish, FailSettle, Continues
<1>10. CASE Cleanup(t) \/ InterruptCleanup(t)
  BY <1>1, <1>2, <1>10 DEF Cleanup, InterruptCleanup, TryRelease, Exit
<1>11. CASE Heartbeat(t)
  BY <1>1, <1>11 DEF Heartbeat, Renew
<1>12. CASE ObserveCancel(t) \/ CoordinationFails(t) \/ RequestCancel(t) \/ LocalCancel(t)
         \/ AdminCancel(t)
  BY <1>1, <1>12 DEF ObserveCancel, CoordinationFails, RequestCancel, LocalCancel, AdminCancel
<1>13. CASE LeaseExpires(t)
  BY <1>13 DEF LeaseExpires, Expire, Drop
<1> QED
  BY <1>3, <1>4, <1>5, <1>6, <1>7, <1>8, <1>9, <1>10, <1>11, <1>12, <1>13 DEF TurnStep

\* Processes take leases only from turns that have none, or with themselves.
LEMMA ProcessStepLive ==
  ASSUME TypeOK, NEW w \in Worker, ProcessStep(w), NEW u \in live
  PROVE  u \in live' \/ pc'[u] \in {"idle", "ended"}
<1> USE DEF TypeOK, CoordTypeOK
<1>1. UNCHANGED coordVars => UNCHANGED live
  BY DEF coordVars
<1>2. CASE Crash(w)
  <2>1. CASE Redis
    BY <1>1, <1>2, <2>1 DEF Crash
  <2>2. CASE ~Redis
    <3>1. worker[u] = w
      BY <2>2, MemoryIsOneProcess DEF TaskTypeOK
    <3> QED
      BY <1>2, <3>1 DEF Crash, Exit
  <2> QED
    BY <2>1, <2>2
<1>3. CASE RecAck(w)
  BY <1>3 DEF RecAck, Acknowledge, Drop, Active
<1>4. CASE Shutdown(w) \/ RecList(w) \/ RecRead(w) \/ RecPublish(w)
  BY <1>1, <1>4 DEF Shutdown, RecList, RecRead, RecPublish
<1>5. CASE RecAppend(w) \/ RecSettle(w) \/ RecFails(w)
  BY <1>1, <1>5 DEF RecAppend, RecSettle, RecFails
<1> QED
  BY <1>2, <1>3, <1>4, <1>5 DEF ProcessStep

LEMMA LeasedStep ==
  ASSUME RuntimeInv, Leased, ~MayStall, [Next]_vars
  PROVE  Leased'
<1>0. TypeOK
  BY DEF RuntimeInv
<1> SUFFICES ASSUME NEW u \in Turn
             PROVE  /\ pc'[u] \notin {"idle", "ended"} => u \in live'
                    /\ coord'[u] \/ lost'[u] => pc'[u] \in TaskPhase
  BY DEF Leased
<1>1. /\ pc[u] \notin {"idle", "ended"} => u \in live
      /\ coord[u] \/ lost[u] => pc[u] \in TaskPhase
  BY DEF Leased
<1>2. CASE UNCHANGED <<pc, live, coord, lost>>
  BY <1>1, <1>2
<1>3. CASE TurnStep(u)
  <2>1. coord'[u] \/ lost'[u] => pc'[u] \in TaskPhase
    BY <1>0, <1>1, <1>3, FlagsNeedTask
  <2>2. pc[u] = "ended" => pc'[u] = "ended"
    BY <1>0, <1>3, EndedStays
  <2> QED
    BY <1>0, <1>1, <1>3, <2>1, <2>2, TurnStepLive
<1>4. ASSUME NEW t \in Turn, t # u, TurnStep(t)
      PROVE  /\ pc'[u] \notin {"idle", "ended"} => u \in live'
             /\ coord'[u] \/ lost'[u] => pc'[u] \in TaskPhase
  BY <1>0, <1>1, <1>4, OtherTurns, OtherFlags, TurnStepLive
<1>5. ASSUME NEW w \in Worker, ProcessStep(w)
      PROVE  /\ pc'[u] \notin {"idle", "ended"} => u \in live'
             /\ coord'[u] \/ lost'[u] => pc'[u] \in TaskPhase
  BY <1>0, <1>1, <1>5, ProcessStepPhases, ProcessStepFlags, ProcessStepLive
<1>6. CASE \E s \in Session : RemoveSession(s)
  BY <1>2, <1>6 DEF RemoveSession, coordVars, taskVars
<1>7. CASE UNCHANGED vars
  BY <1>2, <1>7 DEF vars, coordVars, taskVars
<1> QED
  BY <1>3, <1>4, <1>5, <1>6, <1>7 DEF Next

LEMMA UnaskedStep ==
  ASSUME RuntimeInv, Leased, Unasked, Prompt, [Next]_vars
  PROVE  Unasked'
<1>0. TypeOK /\ CoordInv
  BY DEF RuntimeInv
<1> SUFFICES ASSUME NEW u \in Turn
             PROVE  ~cmd'[u] /\ stop'[u] \in {"none", "shutdown"}
                    /\ (stop'[u] = "shutdown" => MaxShutdowns # 0)
  BY DEF Unasked
<1> USE DEF Unasked
<1>1. ~Fault /\ ~MayCancel
  BY <1>0 DEF Fault, Prompt, TypeOK, BudgetTypeOK
<1>2. CASE UNCHANGED <<stop, cmd>>
  BY <1>2
<1>3. CASE TurnStep(u)
  <2> USE <1>0 DEF TypeOK, TaskTypeOK, taskVars
  <2>1. CASE StartTurn(u) \/ AbandonStart(u) \/ BeginTurn(u) \/ RejectLaunch(u) \/ Launch(u)
    BY <2>1 DEF StartTurn, AbandonStart, BeginTurn, RejectLaunch, Launch
  <2>2. CASE LaunchFails(u) \/ Pause(u) \/ Reply(u) \/ InterruptWait(u) \/ Restore(u)
    BY <2>2 DEF LaunchFails, Pause, Reply, InterruptWait, Restore
  <2>3. CASE Finish(u) \/ Settle(u) \/ Announce(u) \/ AfterDone(u) \/ Interrupt(u)
    BY <2>3 DEF Finish, Settle, Announce, AfterDone, Interrupt
  <2>4. CASE CancelPublish(u) \/ CancelSettle(u) \/ CancelAnnounce(u)
    BY <2>4 DEF CancelPublish, CancelSettle, CancelAnnounce
  <2>5. CASE Fail(u) \/ FailPublish(u) \/ FailSettle(u)
    BY <2>5 DEF Fail, FailPublish, FailSettle
  <2>6. CASE Cleanup(u) \/ InterruptCleanup(u)
    BY <2>6 DEF Cleanup, InterruptCleanup, Exit
  <2>7. CASE Heartbeat(u)
    <3>1. u \in live
      BY <2>7 DEF Heartbeat, Leased, TaskPhase, Running, Unwinding
    <3>2. CanRenew(u)
      BY <3>1 DEF CanRenew, Matches, Active, CoordInv, LeaseReachable
    <3> QED
      BY <2>7, <3>2 DEF Heartbeat
  <2>8. CASE ObserveCancel(u) \/ CoordinationFails(u) \/ RequestCancel(u) \/ LocalCancel(u)
    BY <1>1, <2>8 DEF ObserveCancel, CoordinationFails, RequestCancel, LocalCancel
  <2>9. CASE AdminCancel(u) \/ LeaseExpires(u)
    BY <2>9 DEF AdminCancel, LeaseExpires
  <2> QED
    BY <1>3, <2>1, <2>2, <2>3, <2>4, <2>5, <2>6, <2>7, <2>8, <2>9 DEF TurnStep
<1>4. ASSUME NEW t \in Turn, t # u, TurnStep(t)
      PROVE  UNCHANGED <<stop[u], cmd[u]>>
  BY <1>0, <1>4, OtherFlags
<1>5. ASSUME NEW w \in Worker, ProcessStep(w)
      PROVE  ~cmd'[u] /\ stop'[u] \in {"none", "shutdown"}
             /\ (stop'[u] = "shutdown" => MaxShutdowns # 0)
  <2>1. UNCHANGED cmd
    BY <1>0, <1>5, ProcessStepFlags
  <2>2. CASE Shutdown(w)
    BY <1>0, <2>1, <2>2 DEF Shutdown, TypeOK, TaskTypeOK, BudgetTypeOK
  <2>3. CASE Crash(w)
    BY <2>1, <2>3 DEF Crash, Exit
  <2>4. CASE UNCHANGED taskVars
    BY <2>1, <2>4 DEF taskVars
  <2> QED
    BY <1>5, <2>2, <2>3, <2>4
       DEF ProcessStep, RecList, RecRead, RecPublish, RecAppend, RecSettle, RecAck, RecFails
<1>6. CASE \E s \in Session : RemoveSession(s)
  BY <1>2, <1>6 DEF RemoveSession, taskVars
<1>7. CASE UNCHANGED vars
  BY <1>2, <1>7 DEF vars, taskVars
<1> QED
  BY <1>3, <1>4, <1>5, <1>6, <1>7 DEF Next

\* What the owner of a turn does to its row, once it has failed and before.
LEMMA OwnerSteps ==
  ASSUME TypeOK, Prompt, OwnRow, NEW t \in Turn, TurnStep(t)
  PROVE  /\ pc[t] \in Undone =>
              /\ pc'[t] \in Undone
              /\ status'[t] = status[t] \/ status'[t] = "failed"
         /\ pc'[t] \in Undecided => pc[t] \in Undecided /\ ~Terminal(t)'
         /\ pc'[t] \in {"failPublish", "failSettle"} => outcome'[t] = "failed"
         /\ pc[t] = "ended" => status'[t] = status[t]
<1> USE DEF TypeOK, TaskTypeOK, StoreTypeOK, Goto, At, Continues, Undone, Undecided, OwnRow,
            Terminal, TerminalStatus, taskVars
<1>1. ~Fault /\ ~MayCancel
  BY DEF Fault, Prompt, BudgetTypeOK
<1>2. CASE StartTurn(t) \/ AbandonStart(t) \/ Launch(t)
  BY <1>2 DEF StartTurn, AbandonStart, Launch, storeVars
<1>3. CASE BeginTurn(t)
  BY <1>3 DEF BeginTurn, Begin, storeVars
<1>4. CASE RejectLaunch(t)
  BY <1>4 DEF RejectLaunch
<1>5. CASE Pause(t) \/ Restore(t)
  BY <1>5 DEF Pause, Restore, Transition
<1>6. CASE Reply(t) \/ InterruptWait(t) \/ Finish(t) \/ Announce(t) \/ AfterDone(t)
  BY <1>6 DEF Reply, InterruptWait, Finish, Announce, AfterDone, storeVars
<1>7. CASE Settle(t) \/ CancelSettle(t)
  BY <1>7 DEF Settle, CancelSettle
<1>8. CASE Interrupt(t)
  <2>1. pc'[t] = UnwindTo(t) /\ UnwindTo(t) \in {"cleanup", "cancelSettle", "cancelPublish"}
    BY <1>8 DEF Interrupt, UnwindTo
  <2>2. pc[t] \in Undone => pc'[t] = "cleanup"
    BY <1>8, <2>1 DEF UnwindTo, Unwinding, Interrupt, TaskPhase, Running
  <2>3. ASSUME pc[t] \in Undone
        PROVE  status'[t] = status[t] \/ status'[t] = "failed"
    <3>1. UNCHANGED status \/ (outcome[t] = "failed" /\ Transition(t, outcome[t], "running", claim[t]))
      BY <1>8, <2>3 DEF Interrupt, InFlight, storeVars
    <3> QED
      BY <3>1 DEF Transition
  <2>4. pc[t] # "ended"
    BY <1>8 DEF Interrupt, TaskPhase, Running, Unwinding
  <2> QED
    BY <2>1, <2>2, <2>3, <2>4
<1>9. CASE CancelPublish(t) \/ CancelAnnounce(t)
  BY <1>9 DEF CancelPublish, CancelAnnounce
<1>10. CASE Fail(t) \/ FailPublish(t)
  BY <1>1, <1>10 DEF Fail, FailPublish, storeVars
<1>11. CASE FailSettle(t)
  BY <1>11 DEF FailSettle, Transition
<1>12. CASE Cleanup(t) \/ InterruptCleanup(t)
  BY <1>12 DEF Cleanup, InterruptCleanup, Exit, storeVars
<1>13. CASE ObserveCancel(t) \/ Heartbeat(t) \/ LeaseExpires(t)
  BY <1>13 DEF ObserveCancel, Heartbeat, LeaseExpires, storeVars
<1>14. CASE LaunchFails(t) \/ CoordinationFails(t) \/ RequestCancel(t) \/ LocalCancel(t)
         \/ AdminCancel(t)
  BY <1>1, <1>14 DEF LaunchFails, CoordinationFails, RequestCancel, LocalCancel, AdminCancel
<1> QED
  BY <1>2, <1>3, <1>4, <1>5, <1>6, <1>7, <1>8, <1>9, <1>10, <1>11, <1>12, <1>13, <1>14
     DEF TurnStep

\* Processes write the rows of ended turns only, and only that they failed.
LEMMA ProcessStepRows ==
  ASSUME TypeOK, RecoveryIsLate, NEW w \in Worker, ProcessStep(w), NEW u \in Turn
  PROVE  status'[u] = status[u] \/ (pc[u] = "ended" /\ pc'[u] = "ended" /\ status'[u] = "failed")
<1>1. CASE RecSettle(w)
  <2>1. CASE rec[w].turn = u
    BY <1>1, <2>1 DEF RecSettle, Transition, RecoveryIsLate, TypeOK, StoreTypeOK, taskVars
  <2>2. CASE rec[w].turn # u
    BY <1>1, <2>2 DEF RecSettle, Transition, TypeOK, StoreTypeOK
  <2> QED
    BY <2>1, <2>2
<1>2. CASE Shutdown(w) \/ Crash(w)
  BY <1>2 DEF Shutdown, Crash, storeVars
<1>3. CASE RecList(w) \/ RecRead(w) \/ RecPublish(w) \/ RecAppend(w) \/ RecAck(w) \/ RecFails(w)
  BY <1>3 DEF RecList, RecRead, RecPublish, RecAppend, RecAck, RecFails, storeVars
<1> QED
  BY <1>1, <1>2, <1>3 DEF ProcessStep

LEMMA OwnRowStep ==
  ASSUME RuntimeInv, Prompt, OwnRow, RecoveryIsLate, [Next]_vars
  PROVE  OwnRow'
<1>0. TypeOK /\ ~MayCancel
  BY DEF RuntimeInv, Prompt
<1> SUFFICES ASSUME NEW u \in Turn
             PROVE  /\ pc'[u] \in {"idle", "acquired"} => ~HasRow(u)'
                    /\ pc'[u] \in Undecided => ~Terminal(u)'
                    /\ pc'[u] \in {"failPublish", "failSettle"} => outcome'[u] = "failed"
  BY DEF OwnRow
<1> DEFINE Goal == /\ pc'[u] \in Undecided => ~Terminal(u)'
                   /\ pc'[u] \in {"failPublish", "failSettle"} => outcome'[u] = "failed"
<1>1. ASSUME pc'[u] \in {"idle", "acquired"}
      PROVE  ~HasRow(u)'
  <2>1. pc[u] \in {"idle", "acquired"}
    BY <1>0, <1>1, StartOrigin DEF StartTurn, At
  <2> QED
    BY <1>0, <1>1, <2>1, RowOrigin DEF OwnRow
<1>2. ASSUME UNCHANGED <<pc[u], status[u], outcome[u]>>
      PROVE  Goal
  BY <1>2 DEF OwnRow, Terminal
<1>3. ASSUME TurnStep(u)
      PROVE  Goal
  BY <1>0, <1>3, OwnerSteps
<1>4. ASSUME NEW t \in Turn, t # u, TurnStep(t)
      PROVE  Goal
  BY <1>0, <1>2, <1>4, OtherTurns, OtherRows
<1>5. ASSUME NEW w \in Worker, ProcessStep(w)
      PROVE  Goal
  <2>1. CASE pc'[u] = "ended"
    BY <2>1 DEF Undecided
  <2>2. CASE pc'[u] # "ended"
    BY <1>0, <1>2, <1>5, <2>2, ProcessStepPhases, ProcessStepRows
  <2> QED
    BY <2>1, <2>2
<1>6. Goal
  <2>1. CASE UNCHANGED vars
    BY <1>2, <2>1 DEF vars, taskVars, storeVars
  <2> QED
    BY <1>0, <1>3, <1>4, <1>5, <2>1 DEF Next, RemoveSession
<1> QED
  BY <1>1, <1>6

LEMMA RecoveryIsLateStep ==
  ASSUME RuntimeInv, Prompt, OwnRow, RecoveryIsLate, [Next]_vars, Leased', RecoverySparesOwners'
  PROVE  RecoveryIsLate'
<1>0. TypeOK /\ ~MayCancel
  BY DEF RuntimeInv, Prompt
<1> SUFFICES ASSUME NEW w \in Worker, rec'[w].pc \in {"publish", "append", "settle"}
             PROVE  /\ pc'[rec'[w].turn] = "ended"
                    /\ status'[rec'[w].turn] \in NonterminalStatus \cup {"failed", "none"}
  BY DEF RecoveryIsLate
<1>1. PICK t \in Turn : t = rec'[w].turn
  BY <1>0, RecMoves
<1>2. CASE UNCHANGED <<pc, storeVars>> /\ Nonterminal(t)
  <2>1. pc[t] # "idle"
    BY <1>2 DEF OwnRow, HasRow, Nonterminal, NonterminalStatus
  <2>2. t \notin live'
    BY <1>1 DEF RecoverySparesOwners
  <2> QED
    BY <1>1, <1>2, <2>1, <2>2 DEF Leased, Nonterminal, storeVars
<1>3. CASE rec[w].pc \in {"publish", "append", "settle"} /\ rec[w].turn = t
  <2>1. pc[t] = "ended" /\ status[t] \in NonterminalStatus \cup {"failed", "none"}
    BY <1>3 DEF RecoveryIsLate
  <2>2. CASE TurnStep(t)
    BY <1>0, <1>1, <2>1, <2>2, OwnerSteps, EndedStays
  <2>3. ASSUME NEW u \in Turn, u # t, TurnStep(u)
        PROVE  UNCHANGED <<pc[t], status[t]>>
    BY <1>0, <2>3, OtherTurns, OtherRows
  <2>4. ASSUME NEW v \in Worker, ProcessStep(v)
        PROVE  pc'[t] = "ended" /\ status'[t] \in {status[t], "failed"}
    BY <1>0, <2>1, <2>4, ProcessStepPhases, ProcessStepRows
  <2>5. CASE UNCHANGED vars
    BY <1>1, <2>1, <2>5 DEF vars, taskVars, storeVars
  <2> QED
    BY <1>0, <1>1, <2>1, <2>2, <2>3, <2>4, <2>5 DEF Next, RemoveSession
<1>4. rec'[w].pc # "ack" /\ ~RecSettle(w)
  BY <1>0 DEF RecSettle, RecGoto, TypeOK, RecTypeOK, Recovery
<1>5. rec[w].pc # "scan" => rec[w].pc \in {"publish", "append", "settle", "ack"}
  BY <1>0 DEF TypeOK, RecTypeOK, Recovery
<1> QED
  BY <1>0, <1>1, <1>2, <1>3, <1>4, <1>5, RecMoves

\* Where workers are prompt, recovery and the owner of a turn never meet.
LEMMA PromptOwners ==
  ASSUME Prompt
  PROVE  Spec => []PromptInv
<1>1. Init => PromptInv
  <2> SUFFICES ASSUME Init
               PROVE  PromptInv
    OBVIOUS
  <2>1. Leased /\ Unasked
    BY DEF Init, Leased, Unasked
  <2>2. OwnRow
    BY DEF Init, StoreInit, OwnRow, HasRow, Terminal, TerminalStatus
  <2>3. RecoveryIsLate
    BY DEF Init, RecIdle, RecoveryIsLate
  <2> QED
    BY <2>1, <2>2, <2>3 DEF PromptInv
<1>2. RuntimeInv /\ PromptInv /\ [Next]_vars /\ RecoverySparesOwners' => PromptInv'
  BY LeasedStep, UnaskedStep, OwnRowStep, RecoveryIsLateStep DEF PromptInv, Prompt
<1> QED
  BY <1>1, <1>2, RuntimeInvariant, RecoveryNeverMeetsOwner, PTL DEF Spec

-----------------------------------------------------------------------------
(* What holds while nobody stalls, whoever cancels *)

NoRowYet == \A t \in Turn : pc[t] \in {"idle", "acquired"} => ~HasRow(t)

\* Recovery works on turns whose start or task has ended.
RecoversEnded ==
  \A w \in Worker : rec[w].pc \in {"publish", "append", "settle"} => pc[rec[w].turn] = "ended"

LEMMA NoRowYetStep ==
  ASSUME TypeOK, NoRowYet, [Next]_vars
  PROVE  NoRowYet'
<1> SUFFICES ASSUME NEW u \in Turn, pc'[u] \in {"idle", "acquired"}, HasRow(u)'
             PROVE  FALSE
  BY DEF NoRowYet
<1>1. pc[u] \in {"idle", "acquired"}
  BY StartOrigin DEF StartTurn, At
<1> QED
  BY <1>1, RowOrigin DEF NoRowYet

LEMMA RecoversEndedStep ==
  ASSUME TypeOK, NoRowYet, RecoversEnded, [Next]_vars, Leased', RecoverySparesOwners'
  PROVE  RecoversEnded'
<1> SUFFICES ASSUME NEW w \in Worker, rec'[w].pc \in {"publish", "append", "settle"}
             PROVE  pc'[rec'[w].turn] = "ended"
  BY DEF RecoversEnded
<1>1. PICK t \in Turn : t = rec'[w].turn
  BY RecMoves
<1>2. CASE UNCHANGED <<pc, storeVars>> /\ Nonterminal(t)
  <2>1. pc[t] # "idle"
    BY <1>2 DEF NoRowYet, HasRow, Nonterminal, NonterminalStatus
  <2>2. t \notin live'
    BY <1>1 DEF RecoverySparesOwners
  <2> QED
    BY <1>1, <1>2, <2>1, <2>2 DEF Leased
<1>3. CASE rec[w].pc \in {"publish", "append", "settle"} /\ rec[w].turn = t
  <2>1. pc[t] = "ended"
    BY <1>3 DEF RecoversEnded
  <2>2. CASE TurnStep(t)
    BY <1>1, <2>1, <2>2, EndedStays
  <2>3. ASSUME NEW u \in Turn, u # t, TurnStep(u)
        PROVE  pc'[t] = pc[t]
    BY <2>3, OtherTurns
  <2>4. ASSUME NEW v \in Worker, ProcessStep(v)
        PROVE  pc'[t] = "ended"
    BY <2>1, <2>4, ProcessStepPhases
  <2>5. CASE UNCHANGED vars \/ \E s \in Session : RemoveSession(s)
    BY <1>1, <2>1, <2>5 DEF vars, taskVars, RemoveSession
  <2> QED
    BY <1>1, <2>1, <2>2, <2>3, <2>4, <2>5 DEF Next
<1>4. rec'[w].pc # "ack" /\ ~RecSettle(w)
  BY DEF RecSettle, RecGoto, TypeOK, RecTypeOK, Recovery
<1>5. rec[w].pc # "scan" => rec[w].pc \in {"publish", "append", "settle", "ack"}
  BY DEF TypeOK, RecTypeOK, Recovery
<1> QED
  BY <1>1, <1>2, <1>3, <1>4, <1>5, RecMoves

\* Where leases are renewed in time, recovery comes after the owner.
LEMMA RecoveryFollows ==
  ASSUME ~MayStall
  PROVE  Spec => []RecoversEnded
<1>1. Init => Leased /\ NoRowYet /\ RecoversEnded
  BY DEF Init, StoreInit, RecIdle, Leased, NoRowYet, HasRow, RecoversEnded
<1>2. /\ RuntimeInv /\ Leased /\ NoRowYet /\ RecoversEnded /\ [Next]_vars
      /\ RecoverySparesOwners'
      => Leased' /\ NoRowYet' /\ RecoversEnded'
  BY LeasedStep, NoRowYetStep, RecoversEndedStep DEF RuntimeInv
<1> QED
  BY <1>1, <1>2, RuntimeInvariant, RecoveryNeverMeetsOwner, PTL DEF Spec

-----------------------------------------------------------------------------
(* Tasks can be stopped, and do stop *)

\* The task of a turn in its try block or its failure handler is listening to
\* the coordinator or was asked to stop; once it knows its lease lost, it was
\* asked to stop and that is not delivered yet, or it is in its finally block.
Attended(t) ==
  /\ pc[t] \in Running \cup {"failPublish", "failSettle"} => coord[t] \/ stop[t] # "none"
  /\ pc[t] = "unwind" => stop[t] # "none"
  /\ lost[t] => stop[t] # "none" \/ pc[t] = "cleanup"

LEMMA TurnStepAttended ==
  ASSUME TypeOK, NEW t \in Turn, Attended(t), TurnStep(t)
  PROVE  Attended(t)'
<1> USE DEF TypeOK, TaskTypeOK, Attended, CancelTask, taskVars, Goto, At, Continues, Running
<1>1. CASE StartTurn(t) \/ AbandonStart(t) \/ BeginTurn(t) \/ RejectLaunch(t)
  BY <1>1 DEF StartTurn, AbandonStart, BeginTurn, RejectLaunch
<1>2. CASE Launch(t) \/ LaunchFails(t)
  BY <1>2 DEF Launch, LaunchFails
<1>3. CASE Pause(t) \/ Settle(t)
  BY <1>3 DEF Pause, Settle
<1>4. CASE Reply(t) \/ InterruptWait(t) \/ Restore(t)
  BY <1>4 DEF Reply, InterruptWait, Restore
<1>5. CASE Finish(t) \/ Announce(t) \/ AfterDone(t)
  BY <1>5 DEF Finish, Announce, AfterDone
<1>6. CASE Interrupt(t)
  BY <1>6 DEF Interrupt, UnwindTo
<1>7. CASE CancelPublish(t) \/ CancelSettle(t) \/ CancelAnnounce(t)
  BY <1>7 DEF CancelPublish, CancelSettle, CancelAnnounce
<1>8. CASE Fail(t) \/ FailPublish(t) \/ FailSettle(t)
  BY <1>8 DEF Fail, FailPublish, FailSettle
<1>9. CASE Cleanup(t) \/ InterruptCleanup(t)
  BY <1>9 DEF Cleanup, InterruptCleanup, Exit
<1>10. CASE ObserveCancel(t) \/ Heartbeat(t) \/ CoordinationFails(t)
  BY <1>10 DEF ObserveCancel, Heartbeat, CoordinationFails
<1>11. CASE RequestCancel(t) \/ LocalCancel(t) \/ AdminCancel(t) \/ LeaseExpires(t)
  BY <1>11 DEF RequestCancel, LocalCancel, AdminCancel, LeaseExpires
<1> QED
  BY <1>1, <1>2, <1>3, <1>4, <1>5, <1>6, <1>7, <1>8, <1>9, <1>10, <1>11 DEF TurnStep

LEMMA ProcessStepAttended ==
  ASSUME TypeOK, NEW t \in Turn, Attended(t), NEW w \in Worker, ProcessStep(w)
  PROVE  Attended(t)'
<1> USE DEF TypeOK, TaskTypeOK, Attended, taskVars
<1>1. CASE Shutdown(w)
  BY <1>1 DEF Shutdown
<1>2. CASE Crash(w)
  BY <1>2 DEF Crash, Exit, Running
<1>3. CASE RecList(w) \/ RecRead(w) \/ RecPublish(w) \/ RecAppend(w)
  BY <1>3 DEF RecList, RecRead, RecPublish, RecAppend
<1>4. CASE RecSettle(w) \/ RecAck(w) \/ RecFails(w)
  BY <1>4 DEF RecSettle, RecAck, RecFails
<1> QED
  BY <1>1, <1>2, <1>3, <1>4 DEF ProcessStep

LEMMA TasksAreAttended == Spec => [](\A t \in Turn : Attended(t))
<1>1. Init => \A t \in Turn : Attended(t)
  BY DEF Init, Attended, Running
<1>2. TypeOK /\ (\A t \in Turn : Attended(t)) /\ [Next]_vars => (\A t \in Turn : Attended(t))'
  <2> SUFFICES ASSUME TypeOK, \A t \in Turn : Attended(t), [Next]_vars, NEW u \in Turn
               PROVE  Attended(u)'
    OBVIOUS
  <2>1. ASSUME NEW t \in Turn, TurnStep(t)
        PROVE  Attended(u)'
    <3>1. CASE t = u
      BY <2>1, <3>1, TurnStepAttended
    <3>2. CASE t # u
      BY <2>1, <3>2, OtherTurns, OtherFlags DEF Attended
    <3> QED
      BY <3>1, <3>2
  <2>2. ASSUME NEW w \in Worker, ProcessStep(w)
        PROVE  Attended(u)'
    BY <2>2, ProcessStepAttended
  <2>3. CASE UNCHANGED vars \/ \E s \in Session : RemoveSession(s)
    BY <2>3 DEF vars, taskVars, RemoveSession, Attended
  <2> QED
    BY <2>1, <2>2, <2>3 DEF Next
<1> QED
  BY <1>1, <1>2, RuntimeTypeCorrect, PTL DEF Spec

(***************************************************************************)
(* A cancel command always finds somebody who reads it: while a task is in *)
(* its try block or in its failure handler, its coordination task runs, or *)
(* the task has been asked to stop already.  It holds whatever fails,      *)
(* stalls, pauses or is interrupted (lifecycle.py _coordinate_execution;   *)
(* what CancelTakesEffect needs of safety).                                *)
(***************************************************************************)
THEOREM TasksCanBeStopped ==
  Spec => [](\A t \in Turn :
               pc[t] \in Running \cup {"failPublish", "failSettle"}
                 => coord[t] \/ stop[t] # "none")
<1>1. (\A t \in Turn : Attended(t))
      => \A t \in Turn :
           pc[t] \in Running \cup {"failPublish", "failSettle"}
             => coord[t] \/ stop[t] # "none"
  BY DEF Attended
<1> QED
  BY <1>1, TasksAreAttended, PTL

(***************************************************************************)
(* A task that knows its lease lost does not go on: a cancellation waits   *)
(* at its next await, and after that only its finally block is left.  It   *)
(* starts no publication and writes no outcome any more; only a call that  *)
(* is under way and the shielded write of ask_user still happen            *)
(* (lifecycle.py 256-262, executor.py 953-957).                            *)
(***************************************************************************)
THEOREM LosersStop ==
  Spec => [](\A t \in Turn : lost[t] => stop[t] # "none" \/ pc[t] = "cleanup")
<1>1. (\A t \in Turn : Attended(t))
      => \A t \in Turn : lost[t] => stop[t] # "none" \/ pc[t] = "cleanup"
  BY DEF Attended
<1> QED
  BY <1>1, TasksAreAttended, PTL
=============================================================================
