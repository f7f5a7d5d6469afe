SPECIFICATION FairSpec
CONSTANTS
  Presets <- MCPresets
  Jobs <- MCJobs
  Deletable = {"hdr"}
  Crashing = TRUE
  None = None
  Refused = Refused
  f1 = f1
  f2 = f2
CHECK_DEADLOCK FALSE
INVARIANTS
  TypeOK
  RequestSound
  OutputsKept
  TargetsFaithful
  PackagedLast
  ReportWhole
PROPERTIES
  PromiseKept
  JobEnds
