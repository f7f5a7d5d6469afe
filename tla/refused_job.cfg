SPECIFICATION Spec
CONSTANTS
  Creates = {c2}
  Uses = {u1}
  Faults = {}
  Unread <- UnreadSecond
  Canceled = "canceled"
  Zero = Zero
  None = None
  c1 = c1
  c2 = c2
SYMMETRY Symmetry
CHECK_DEADLOCK FALSE
INVARIANT
  ProviderJobIDOfJob
