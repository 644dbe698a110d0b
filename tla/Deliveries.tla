---------------------------- MODULE Deliveries -----------------------------
(***************************************************************************)
(* What the replay guard promises about a customer's message, however      *)
(* often the channel delivers it: it is accepted at most once, opens at    *)
(* most one ticket while it is being worked on, and is served at most      *)
(* once.  It is not promised to be served: a message whose worker was      *)
(* stopped stays accepted.  Nothing is promised of the messages in         *)
(* `exempt', which may be there from the start.                            *)
(***************************************************************************)
CONSTANTS Messages, Tickets

VARIABLES stage,    \* [Messages -> {"new", "accepted", "served"}]
          opened,   \* [Messages -> SUBSET Tickets]
          exempt    \* messages the promise is not made for

vars == <<stage, opened, exempt>>

Init == /\ stage = [m \in Messages |-> "new"]
        /\ opened = [m \in Messages |-> {}]
        /\ exempt \in SUBSET Messages

Same(m) == stage'[m] = stage[m] /\ opened'[m] = opened[m]

Accept(m) == /\ stage[m] = "new"
             /\ stage'[m] = "accepted"
             /\ opened'[m] = opened[m]

Open(m, t) == /\ stage[m] = "accepted"
              /\ opened[m] = {}
              /\ \A n \in Messages : t \notin opened[n]
              /\ opened'[m] = {t}
              /\ stage'[m] = stage[m]

Serve(m) == /\ stage[m] = "accepted"
            /\ stage'[m] = "served"
            /\ opened'[m] = opened[m]

\* At most one message moves, but for those the promise is not made for.
Next == /\ exempt \subseteq exempt'
        /\ \E m \in Messages :
             /\ \/ Accept(m) \/ Serve(m) \/ \E t \in Tickets : Open(m, t)
                \/ Same(m) \/ m \in exempt'
             /\ \A n \in Messages \ ({m} \cup exempt') : Same(n)

Spec == Init /\ [][Next]_vars

=============================================================================
