\* Two workers, the same message at once.
SPECIFICATION Spec
CONSTANTS
  hello = hello
  broken = broken
  other = other
  s1 = s1
  s2 = s2
  Sessions = {s1, s2}
  Messages <- MCMessages
  Tickets = {t1, t2, t3}
  Workers = {w1, w2}
  SessionOf <- TwoSessions
  Numbered = {hello, broken, other}
  Consulting = {hello, other}
  Confident = {hello, broken}
  HistoryLimit = 3
  MaxTime = 0
  MaxDeliveries = 2
  None = None
INVARIANT OneTicketPerMessage
\* The bound on deliveries ends every behaviour.
CHECK_DEADLOCK FALSE
