SPECIFICATION LiveSpec
CONSTANTS
  t1 = t1
  h1 = h1
  h2 = h2
  h3 = h3
  h4 = h4
  h5 = h5
  e1 = e1
  e2 = e2
  e3 = e3
  p1 = p1
  NoPr = NoPr
  Rules = {t1}
  Presentations = {h1, h2, h3, h4, h5}
  Event <- MCEvent
  Delivery <- MCDelivery
  Pr <- MCPr
  Met <- MCMet
  MaxAttempts = 1
  MaxUpsets = 2
INVARIANTS FiringTypeOK OneLive WithinAttempts FiresOnce GuardLetsGo
PROPERTIES FiredWhileActive IngestEnds
ACTION_CONSTRAINTS InOrder Awaited
CHECK_DEADLOCK FALSE
