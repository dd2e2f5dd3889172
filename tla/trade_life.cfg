SPECIFICATION Spec
CONSTANTS
  Buys = {b}
  Sells = {s1, s2}
  Worker = worker
  Others = {api}
  Modes = {TRUE, FALSE}
  Hashless = TRUE
  Moves = {"deposit", "withdraw"}
  None = None
SYMMETRY Symmetry
INVARIANTS TypeOK JournalTruth SettledTruth BooksTruth OneSale
PROPERTIES DisposedIsOver ImplementsLots
