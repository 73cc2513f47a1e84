SPECIFICATION Spec
CONSTANTS
  Scheduler = Scheduler NoTx = NoTx Absent = Absent Nothing = Nothing
  ann = ann bob = bob
  Users = {ann, bob, cat}
  Moderators = {ann, bob, cat}
  Verified = {ann, bob, cat}
  Blocked <- NoBlocks
  Rides = {r1}
  Reqs = {q1, q2, q3}
  Tx = {t1, t2, t3}
  MaxSeats = 2
  CompleteAfter = 1
  InFlight <- BothTwice
  MaxTime = 0
  SpawnReserve = 0
  Recurrence = {FALSE}
  Ops <- SeatOps
  IdOrder <- AnyOrder
SYMMETRY Symmetric
INVARIANTS NoOversell LedgerOK OneLiveRequest
PROPERTIES AcceptedRidersTold EndedStaysEnded RequestLifecycle BookingSpec
CHECK_DEADLOCK FALSE
