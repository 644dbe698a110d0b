-------------------------- MODULE MCTicketRequests --------------------------
(* Finite instances of TicketRequests for TLC. *)
EXTENDS TicketRequests, TLC

Symmetry == Permutations(Workers) \cup Permutations(Tickets)

\* Every command that ends in a different sequence of calls.
EveryCommand == AllCommands

\* The commands that write the columns a closed or resolved ticket is judged
\* by, one of each kind: plain, transition, status update, two-call close.
ContendingCommands == {"create", "update", "claim", "close", "intake_handoff"}
=============================================================================
