---------------------------- MODULE TicketStates ----------------------------
(***************************************************************************)
(* The ticket status machine of core/ticket_api.py: the statuses, the      *)
(* transition table the API consults, and the lifecycle stages.  Every     *)
(* other module takes them from here.                                      *)
(***************************************************************************)

Status == {"open", "pending", "escalated", "handoff", "resolved", "closed"}

\* A ticket id for which no row has been inserted yet.
Absent == "absent"

\* The class attribute _ALLOWED_STATUS_TRANSITIONS.
AllowedNext(s) ==
  CASE s = "open"      -> {"pending", "escalated", "handoff", "resolved", "closed"}
    [] s = "pending"   -> {"open", "escalated", "handoff", "resolved", "closed"}
    [] s = "escalated" -> {"pending", "handoff", "resolved", "closed"}
    [] s = "handoff"   -> {"pending", "escalated", "resolved", "closed"}
    [] s = "resolved"  -> {"open", "pending", "closed"}
    [] OTHER           -> {}

\* What _transition_status lets through: the status the ticket has, which is
\* never looked up in the table, or one the table allows from it.
MayMove(s, n) == s = n \/ n \in AllowedNext(s)

Stage == {"intake", "classified", "drafted", "awaiting_human", "resolved", "closed"}

=============================================================================
