----------------------------- MODULE MCManagedTui -----------------------------
(* Two releases, two threads, one call and the hooks. *)
EXTENDS ManagedTui, TLC
=============================================================================
