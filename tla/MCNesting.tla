------------------------------ MODULE MCNesting ------------------------------
(* Two nested launches, two accounts, two threads of one and one of the other. *)
EXTENDS Nesting, TLC

CONSTANTS a, b, t, u, w

MCOwner == (t :> a) @@ (u :> a) @@ (w :> b)
=============================================================================
