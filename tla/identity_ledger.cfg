SPECIFICATION Spec
CONSTANTS
  w1 = w1
  w2 = w2
  None = None
  Agents = {1}
  Procs = {w1, w2}
  Target <- Workers
  Instance <- SameFee
  Limit <- SameGas
  Daily = 4
  Costs = {1}
  Funds = {2}
  Outcomes = {"success", "reverted"}
  Ids = {i1, i2}
  Mortal = {w2}
  Lossy = {w1}
  Day = 2
  Horizon = 1
  Foreign = 0
  Reorgs = 2
INVARIANTS TypeOK PublishedIsRecorded RegisteredIsFinal
PROPERTIES ImplementsRegistrations
SYMMETRY IdSymmetry
