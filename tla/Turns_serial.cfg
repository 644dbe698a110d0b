SPECIFICATION Spec
CONSTANTS
  Sessions = {s1}
  Tickets = {t1, t2}
  Workers = {w1}
  Kinds <- SomeKinds
  ChannelOf <- Wecom
  Retries <- TwoProviders
  EventLimit = 12
  TickLength = 31
  MaxTime = 62
  MaxTurns = 3
  MaxActs = 2
  SlaPayload <- ShippedSla
  HandoffPayload <- ShippedHandoff
  None = none
INVARIANTS PromiseKept OnlySettledFail ClaimCounts
\* The messages, the commands and the clock are bounded.
CHECK_DEADLOCK FALSE
