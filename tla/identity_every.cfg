SPECIFICATION FairSpec
CONSTANTS
  w1 = w1
  w2 = w2
  None = None
  Agents = {1}
  Procs = {w2}
  Target <- Workers
  Instance <- SameFee
  Limit <- SameGas
  Daily = 4
  Costs = {1}
  Funds = {2}
  Outcomes = {"success"}
  Ids = {101}
  Mortal = {}
  Lossy = {}
  Day = 2
  Horizon = 1
  Foreign = 0
  Reorgs = 0
PROPERTIES EveryAgentRegistered
