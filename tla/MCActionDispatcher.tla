-------------------------- MODULE MCActionDispatcher --------------------------
(* Model-checking instance of ActionDispatcher. *)
EXTENDS ActionDispatcher, TLC

Symmetry == Permutations(ActionIds) \cup Permutations(Users) \cup Permutations(Requests)
===============================================================================
