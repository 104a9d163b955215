--------------------------- MODULE MCTransactions ----------------------------
(* A transaction while and after it is recorded, in three parts: the commits *)
(* of expenses with their budget hook, those of contributions with their     *)
(* goal hook (the two hooks share no row), the use cases that change a       *)
(* recorded one.  A behaviour exercises one of them, and the others keep     *)
(* their initial state.                                                      *)
EXTENDS TransactionUseCases, CommitHooks, TLC

VARIABLE part

Everything == {"overall", "food"}
Labelled == {{"overall", "food"}}

TransactionsInit ==
  /\ part \in {"budgets", "goals", "use cases"}
  /\ Init /\ HooksInit

TransactionsNext ==
  /\ UNCHANGED part
  /\ \/ part = "use cases" /\ Next /\ UNCHANGED hookVars
     \/ part = "budgets" /\ HooksNext /\ UNCHANGED vars /\ \A c \in Commits : IsExpense(c)'
     \/ /\ part = "goals" /\ HooksNext /\ UNCHANGED vars
        /\ \A c \in Commits : created'[c].status = "none" \/ created'[c].of \in Goals
        /\ UNCHANGED budget

TransactionsSpec == TransactionsInit /\ [][TransactionsNext]_<<part, vars, hookVars>>

Symmetry == Permutations(Commits)
=============================================================================
