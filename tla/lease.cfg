CONSTANTS
  Procs = {p1, p2}
  None = None
  Lease = 7
  ClaimMargin = 5
  SpawnWithin = 1
  StartWindow = 2
  ChildLimit = 2
  Horizon = 18
SPECIFICATION Spec
CHECK_DEADLOCK FALSE
INVARIANT ChildUnderLease
PROPERTY ImplementsFence
