-------------------------------- MODULE Workers --------------------------------
(***************************************************************************)
(* The worker processes of a deployment (settings.backend_workers).        *)
(***************************************************************************)
CONSTANT Worker
=============================================================================
