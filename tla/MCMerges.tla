----------------------------- MODULE MCMerges ------------------------------
(* Finite instances of Merges for TLC. *)
EXTENDS Merges, TLC

Alike == Permutations(Tickets) \cup Permutations(Workers)

EveryCommand == AllCommands
=============================================================================
