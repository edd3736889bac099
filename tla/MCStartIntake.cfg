CONSTANTS
  d1 = d1
  r1 = r1
  Direct = {d1}
  Resumes = {r1}
  Limit = 1
  MaxAttempts = 2
  MaxInputs = 3
SPECIFICATION LiveSpec
INVARIANTS IntakeTypeOK LeaseCount ClaimsAreTasks RecordIsTrue ExhaustedIsOver
PROPERTIES ImplementsPromise AskedEnds
CHECK_DEADLOCK FALSE
