SPECIFICATION SettlesSpec
CONSTANTS
  Pairings = {p}
  Wallets = {w}
  Routes = {r}
  Sweepers = {s}
  Workers = {k}
  Traders = {g}
  Slots = 1
  Attempts = 1
  Flakes = 0
  Touches = 0
  Crashes = 1
  Slow = FALSE
  Gone = Gone
  None = None
PROPERTIES PairingsDecided HiresEnd
CHECK_DEADLOCK FALSE
