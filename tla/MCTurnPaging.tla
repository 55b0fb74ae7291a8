---------------------------- MODULE MCTurnPaging ----------------------------
(* Budgets that end pages in every way the code knows.                     *)
EXTENDS TurnPaging, TLC

B(source, turns, response) == [source |-> source, turns |-> turns, response |-> response]

\* No source left after the identity record; one cell and one turn at a time,
\* with room for its body; up to three cells and two turns to a page, with room
\* for one turn without its body.
MCBudgets == {B(0, 1, 2), B(1, 1, 3), B(3, 2, 1)}
=============================================================================
