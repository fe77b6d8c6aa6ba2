-------------------------------- MODULE Turns --------------------------------
(***************************************************************************)
(* Turn and session identities shared by the coordinator and the store.    *)
(* A turn id is a fresh uuid minted for one session (start_turn), so the   *)
(* session of a turn is a constant.                                        *)
(***************************************************************************)
EXTENDS Naturals

CONSTANTS
  Turn,        \* turn ids
  Session,     \* session ids, qualified with the user scope
  SessionOf    \* the session a turn belongs to

ASSUME SessionOfType == SessionOf \in [Turn -> Session]
=============================================================================
