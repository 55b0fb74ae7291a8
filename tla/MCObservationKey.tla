-------------------------- MODULE MCObservationKey --------------------------
(* Small instances of ObservationKey. *)
EXTENDS ObservationKey, TLC
Symmetric == Permutations(Processes) \cup Permutations(Candidates)
=============================================================================
