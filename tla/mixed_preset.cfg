SPECIFICATION Spec
CONSTANTS
  Creates <- Same
  Askable <- TwoAskable
  Jobs <- OneJob
  Number <- MCNumber
  Deletable = {n1}
  Crashing = TRUE
  Refused = Refused
  Panic = Panic
  None = None
  r1 = r1
  r2 = r2
  n1 = n1
  n2 = n2
CHECK_DEADLOCK FALSE
INVARIANT AsCreated
