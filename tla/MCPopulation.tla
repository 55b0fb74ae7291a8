----------------------------- MODULE MCPopulation -----------------------------
(* Rollouts 2 and 3 claim session 2; the names of 1 and 2 carry other IDs, that *)
(* of 2 the ID of the session which 1 claims.                                   *)
EXTENDS Population, TLC

MCIdentity == (1 :> 1) @@ (2 :> 2) @@ (3 :> 2)
MCNamed == (1 :> 3) @@ (2 :> 1) @@ (3 :> 2)
=============================================================================
