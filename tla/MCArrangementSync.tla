-------------------------- MODULE MCArrangementSync --------------------------
(* Symmetry for ArrangementSync: the values of clips are interchangeable. *)
EXTENDS ArrangementSync, TLC

CONSTANTS x, y, c1, c2

Symmetry == Permutations({x, y}) \union Permutations({c1, c2})
=============================================================================
