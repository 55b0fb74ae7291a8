------------------------------ MODULE MCResident ------------------------------
(* Three processes and two templates: preparations overlap. *)
EXTENDS Resident, TLC

Symmetric == Permutations(Processes) \cup Permutations(Templates)
=============================================================================
