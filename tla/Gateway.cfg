SPECIFICATION Spec
CONSTANTS
  Payloads <- SomePayloads
  Outcomes <- EveryOutcome
  MaxAttempts = 3
  MaxDeliveries = 2
  MaxFaults = 1
  None = none
INVARIANTS EgressChain OkWasTraced StatusAgrees
PROPERTIES Answered
\* Every delivery ends, and there are finitely many.
CHECK_DEADLOCK FALSE
