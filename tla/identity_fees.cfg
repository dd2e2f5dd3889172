SPECIFICATION Spec
CONSTANTS
  w1 = w1
  w2 = w2
  None = None
  Agents = {1, 2}
  Procs = {w1, w2}
  Target <- OneRun
  Instance <- LowerFee
  Limit <- LowerGas
  Daily = 4
  Costs = {1, 2}
  Funds = {1, 4}
  Outcomes = {"success"}
  Ids = {101, 102}
  Mortal = {}
  Lossy = {}
  Day = 2
  Horizon = 3
  Foreign = 1
  Reorgs = 0
INVARIANTS DailyFees ApprovedFees
