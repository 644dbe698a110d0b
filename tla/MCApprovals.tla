---------------------------- MODULE MCApprovals -----------------------------
(* Finite instances of Approvals for TLC. *)
EXTENDS Approvals, TLC

Symmetry == Permutations(Workers) \cup Permutations(Tickets) \cup Permutations(Approvals)

EveryCommand == AllCommands
EveryType == ActionTypes

\* The commands that ask for approvals, decide them and walk over them.
DecidingCommands == {"ask", "approve", "reject", "list"}
\* ... and two that write the same columns without an approval.
OverlappingCommands == DecidingCommands \cup {"state", "collab_close"}
=============================================================================
