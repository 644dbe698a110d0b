----------------------------- MODULE MCInbound -----------------------------
(* Instances of Inbound: a greeting, a repair request in the same session, *)
(* and another message, in the same session or in one of its own: one more *)
(* repair request, or a question the router is not sure about.             *)
EXTENDS Inbound, TLC

CONSTANTS hello, broken, other, s1, s2

MCMessages == {hello, broken, other}
OneSession == [m \in Messages |-> s1]
TwoSessions == [m \in MCMessages |-> IF m = other THEN s2 ELSE s1]

\* Ticket ids are drawn at random, and one worker is like another.
Alike == Permutations(Tickets) \cup Permutations(Workers)

\* And so is one repair request.
AlikeRepairs == Alike \cup Permutations({broken, other})

=============================================================================
