-------------------------- MODULE TicketLifecycle --------------------------
(***************************************************************************)
(* What TicketAPI promises about a ticket's status, with nothing said of   *)
(* how a request is carried out.  A ticket is created open and then only   *)
(* follows the transition table, which leaves `closed' no way out.  The    *)
(* promise is made for a ticket as long as no two requests on it have been *)
(* in progress together; of a ticket in `contended' only its existence is  *)
(* promised.                                                               *)
(***************************************************************************)
EXTENDS TicketStates

CONSTANT Tickets

VARIABLES status,     \* [Tickets -> Status \cup {Absent}]
          contended   \* tickets two overlapping requests have worked on

vars == <<status, contended>>

TypeOK == /\ status \in [Tickets -> Status \cup {Absent}]
          /\ contended \in SUBSET Tickets

Init == /\ status = [t \in Tickets |-> Absent]
        /\ contended = {}

Create(t) == /\ status[t] = Absent
             /\ status' = [status EXCEPT ![t] = "open"]
             /\ UNCHANGED contended

Move(t, s) == /\ status[t] \in Status
              /\ t \in contended \/ s \in AllowedNext(status[t])
              /\ status' = [status EXCEPT ![t] = s]
              /\ UNCHANGED contended

Contend(t) == /\ status[t] \in Status
              /\ contended' = contended \cup {t}
              /\ UNCHANGED status

Next == \E t \in Tickets :
          \/ Create(t)
          \/ \E s \in Status : Move(t, s)
          \/ Contend(t)

Spec == Init /\ [][Next]_vars

=============================================================================
