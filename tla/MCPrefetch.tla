------------------------------ MODULE MCPrefetch ------------------------------
(***************************************************************************)
(* Prefetch for TLC: one host thread races the worker and a thread that    *)
(* moves the provider between two themes.  Two sessions share a cache of   *)
(* one entry, so that entries are evicted.                                 *)
(***************************************************************************)
EXTENDS Prefetch
=============================================================================
