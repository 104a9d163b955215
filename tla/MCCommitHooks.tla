--------------------------- MODULE MCCommitHooks ------------------------------
(* Three commits, two budgets that one expense falls under, one goal.      *)
EXTENDS CommitHooks, TLC

Symmetry == Permutations(Commits)
Everything == {"overall", "food"}
Labelled == {{"overall", "food"}}
=============================================================================
