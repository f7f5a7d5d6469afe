SPECIFICATION Spec
CONSTANTS
  Presets <- MCPresets
  Jobs <- MCJobs
  Deletable = {}
  Crashing = FALSE
  None = None
  Refused = Refused
  f1 = f1
  f2 = f2
CHECK_DEADLOCK FALSE
INVARIANT EveryOutputProduced
