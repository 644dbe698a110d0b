\* Two workers on one session, cut off anywhere; a history that overflows.
SPECIFICATION Spec
CONSTANTS
  hello = hello
  broken = broken
  other = other
  s1 = s1
  s2 = s2
  Sessions = {s1}
  Messages <- MCMessages
  Tickets = {t1, t2}
  Workers = {w1, w2}
  SessionOf <- OneSession
  Numbered = {hello, broken, other}
  Consulting = {hello}
  Confident = {hello, broken, other}
  HistoryLimit = 2
  MaxTime = 0
  MaxDeliveries = 3
  None = None
INVARIANTS TypeOK ReplaysCounted OneTicketPerSession IgnoredWasAccepted
PROPERTIES BindingKept DeliveriesImplemented
\* The bound on deliveries ends every behaviour.
CHECK_DEADLOCK FALSE
SYMMETRY AlikeRepairs
