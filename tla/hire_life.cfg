SPECIFICATION LifeSpec
CONSTANTS
  Pairings = {p, q}
  Wallets = {w}
  Routes = {r1, r2}
  Sweepers = {s}
  Workers = {k}
  Traders = {g}
  Slots = 2
  Attempts = 1
  Flakes = 1
  Touches = 1
  Crashes = 1
  Slow = TRUE
  Gone = Gone
  None = None
INVARIANTS TypeOK ArmedIsHired OneHirePerWallet EndedIsSignedOut DrainedBeforeTermEnd
PROPERTIES SignOutIsSafe ImplementsHires
SYMMETRY Symmetry
CHECK_DEADLOCK FALSE
