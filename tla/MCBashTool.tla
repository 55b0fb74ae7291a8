----------------------------- MODULE MCBashTool -----------------------------
(* Two calls that may name each other's workload, and two Codex threads.   *)
EXTENDS BashTool

CONSTANTS c1, c2, t1, t2
=============================================================================
