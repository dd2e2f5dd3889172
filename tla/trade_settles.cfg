SPECIFICATION FairSpec
CONSTANTS
  Buys = {b}
  Sells = {s}
  Worker = worker
  Others = {}
  Modes = {TRUE, FALSE}
  Hashless = FALSE
  Moves = {"withdraw"}
  None = None
PROPERTIES DecidedSettles SellsSettle ExitsBooked RevokedConverges

