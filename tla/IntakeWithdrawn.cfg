CONSTANTS
  d1 = d1
  r1 = r1
  Direct = {d1}
  Resumes = {r1}
  Limit = 1
  MaxAttempts = 2
  MaxInputs = 3
SPECIFICATION Spec
INVARIANTS WithdrawnNeverRuns
CHECK_DEADLOCK FALSE
