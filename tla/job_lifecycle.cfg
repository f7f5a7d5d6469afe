SPECIFICATION Spec
CONSTANTS
  Creates = {c1, c2}
  Uses = {u1, u2}
  Faults <- AllFaults
  Unread <- UnreadSecond
  Canceled = "canceled"
  Zero = Zero
  None = None
  c1 = c1
  c2 = c2
SYMMETRY Symmetry
CHECK_DEADLOCK FALSE
INVARIANTS
  TypeOK
  AcknowledgedJobs
  ListedLoads
  RecordNamesJob
  OneEnd
PROPERTY
  PromiseUsed
