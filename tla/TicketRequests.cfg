\* Two workers that may meet on a ticket: every command, crashes anywhere.
SPECIFICATION Spec
CONSTANTS
  Tickets = {t1, t2}
  Workers = {w1, w2}
  NoTicket = none
  Commands <- EveryCommand
  MaxRequests = 4
INVARIANTS AuditChain FinishedWasResolved FinishedNeedsNobody
PROPERTIES ClosedFrozen LifecycleImplemented
\* The bound on requests ends every behaviour.
CHECK_DEADLOCK FALSE
SYMMETRY Symmetry
