----------------------------- MODULE MCCacheSetLRU -----------------------------
(***************************************************************************)
(* The instance of CacheSetLRU: more ways than cores that wait.            *)
(***************************************************************************)
EXTENDS CacheSetLRU
=============================================================================
