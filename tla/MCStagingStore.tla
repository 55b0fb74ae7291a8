--------------------------- MODULE MCStagingStore ---------------------------
(* A small store: two packs, two prefixes, room for some of the cursors.   *)
EXTENDS StagingStore, TLC

CONSTANTS c0, c1, c2, c3, x, y, d, e

MCBucket == c0 :> x @@ c1 :> x @@ c2 :> x @@ c3 :> y
MCNeeds == c0 :> d @@ c1 :> NoPrefix @@ c2 :> e @@ c3 :> e
MCPrefixLength == d :> 1 @@ e :> 3
=============================================================================
