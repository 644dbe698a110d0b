SPECIFICATION Spec
CONSTANTS
  d1 = d1
  d2 = d2
  Docs = {d1, d2}
  Texts = {0, 1, 2}
  Blank = 0
  Length <- Characters
  Seeds <- OneSeed
  Workers = {w1, w2, w3}
  None = none
  MaxRequests = 4
  MaxKills = 1
INVARIANTS ReadableOrCause ToldIsKept
\* The requests are bounded.
CHECK_DEADLOCK FALSE
