\* One worker, every command on every kind of action, cut off anywhere.
SPECIFICATION Spec
CONSTANTS
  Tickets = {t1, t2}
  Workers = {w1}
  Approvals = {a1, a2}
  Commands <- EveryCommand
  Types <- EveryType
  Ttls = {1}
  MaxTime = 1
  MaxRequests = 4
  None = none
PROPERTIES LifecycleImplemented
\* The bound on requests ends every behaviour.
CHECK_DEADLOCK FALSE
SYMMETRY Symmetry
