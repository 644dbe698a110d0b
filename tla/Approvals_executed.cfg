\* One worker: is an approval still open when its action is executed?
SPECIFICATION Spec
CONSTANTS
  Tickets = {t1}
  Workers = {w1}
  Approvals = {a1}
  Commands <- DecidingCommands
  Types = {"escalate"}
  Ttls = {0, 1}
  MaxTime = 1
  MaxRequests = 3
  None = none
PROPERTIES ExecutedWhileOpen
\* The bound on requests ends every behaviour.
CHECK_DEADLOCK FALSE
