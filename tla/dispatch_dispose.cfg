CONSTANTS
  Orders = {o1}
  Buys = {}
  Workers = {w1, w2}
  Gates = {g}
  Mortal = {w1}
  OwnerRows = {h}
  OwnerEnds = {"finished", "refused"}
  None = None
SPECIFICATION DisposalSpec
CHECK_DEADLOCK FALSE
INVARIANTS TypeOK RolledBackNeverTraded JournalAgreement CommittedIsOwnSwap
PROPERTIES DecidedIsFinal ImplementsLedger
