SPECIFICATION Spec
CONSTANTS
  Sessions = {s1}
  Tickets = {t1, t2}
  Workers = {w1, w2}
  Kinds <- OneKind
  ChannelOf <- Wecom
  Retries <- TwoProviders
  EventLimit = 12
  TickLength = 31
  MaxTime = 0
  MaxTurns = 2
  MaxActs = 1
  SlaPayload <- OldSla
  HandoffPayload <- NoHandoff
  None = none
INVARIANTS TraceOwnAlone 
PROPERTIES TurnEnds
\* The messages, the commands and the clock are bounded.
CHECK_DEADLOCK FALSE
