SPECIFICATION TablesSpec
CONSTANTS
  Null = Null
  escrow = escrow seller = seller
  Accounts = {escrow, seller}
  Txns = {x1, x2}
  Connections = {t1, t2}
  Amounts <- Paisa
  MaxLines = 2
  MaxRows = 4
  InFlight = 2
  Ids <- Three
  None = None
  room = room teacher = teacher
  Rooms = {room}
  Teachers = {teacher}
  Weekdays = {1, 2}
  Open = 0
  Close = 3
SYMMETRY Symmetric
INVARIANTS LedgerInv StretchesInv PagesAgree ConflictsAreDoubleBookings
PROPERTIES BooksSpec
CHECK_DEADLOCK FALSE
