------------------------------- MODULE MCSetLock -------------------------------
(***************************************************************************)
(* SetLock on small instances: three cores with one  *)
(* operation each and the network thread: safety, refinement and liveness. *)
(***************************************************************************)
EXTENDS SetLock
=============================================================================
