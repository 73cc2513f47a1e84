SPECIFICATION LedgerSpec
CONSTANTS
  Null = Null
  escrow = escrow seller = seller
  Accounts = {escrow, seller}
  Txns = {x1, x2}
  Connections = {t1, t2}
  Amounts <- Paisa
  MaxLines = 2
  MaxRows = 4
  InFlight = 2
SYMMETRY Symmetric
PROPERTIES PostedAtMostOnce
CHECK_DEADLOCK FALSE
