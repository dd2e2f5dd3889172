CONSTANTS
  Orders = {o1, o2}
  Buys = {o1, o2}
  Workers = {w1, w2}
  Gates = {g}
  Mortal = {}
  OwnerRows = {}
  OwnerEnds = {}
  None = None
SPECIFICATION RaceSpec
CHECK_DEADLOCK FALSE
SYMMETRY Symmetry
INVARIANT OneLiveDispatch
PROPERTIES NoBuyAfterBreach LedgerSteps
