\* Two workers, three tickets, three requests: merges that cross, chain or meet.
SPECIFICATION Spec
CONSTANTS
  Tickets = {t1, t2, t3}
  Workers = {w1, w2}
  Commands <- EveryCommand
  HistoryLimit = 2
  MaxRequests = 3
  None = none
INVARIANTS LinksMirrored NoCircle ListedWasMerged MergeAudited
PROPERTIES MergeFinal
\* The bound on requests ends every behaviour.
CHECK_DEADLOCK FALSE
SYMMETRY Alike
