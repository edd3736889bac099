SPECIFICATION LiveRunSpec
CONSTANTS
  Final = 3
  Commands <- MCCommands
  Reviews <- MCReviews
  Flaky <- MCFlaky
  None = None
INVARIANTS RunTypeOK ClosedStaysClosed NeverStale BeginsInOrder WithinBudget Whole
PROPERTIES DrainEnds ListIsCleared
CHECK_DEADLOCK FALSE
