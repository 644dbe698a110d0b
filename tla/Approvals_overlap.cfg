\* Two workers at once: asking, deciding and listing, and two commands that
\* write the same columns.
SPECIFICATION Spec
CONSTANTS
  Tickets = {t1, t2}
  Workers = {w1, w2}
  Approvals = {a1, a2}
  Commands <- OverlappingCommands
  Types = {"escalate"}
  Ttls = {1}
  MaxTime = 1
  MaxRequests = 4
  None = none
INVARIANTS ApprovedWasExecuted TimeoutWasDue  DecisionAudited
PROPERTIES DecidedOnce
\* The bound on requests ends every behaviour.
CHECK_DEADLOCK FALSE
SYMMETRY Symmetry
