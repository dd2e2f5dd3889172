CONSTANTS
  Orders = {o1}
  Buys = {}
  Workers = {w1, w2}
  Gates = {}
  Mortal = {w1}
  OwnerRows = {}
  OwnerEnds = {}
  None = None
SPECIFICATION FairSpec
CHECK_DEADLOCK FALSE
PROPERTY OrderSettles
