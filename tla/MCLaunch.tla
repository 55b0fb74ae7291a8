-------------------------------- MODULE MCLaunch --------------------------------
(* Instances of Launch: symmetric providers, requests, roots and threads.   *)
EXTENDS Launch, TLC

Symmetric ==
  Permutations(Providers) \cup Permutations(Requests) \cup Permutations(Roots)
    \cup Permutations(Threads)
=============================================================================
