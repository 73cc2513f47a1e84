SPECIFICATION SweptSpec
CONSTANTS
  Scheduler = Scheduler NoTx = NoTx Absent = Absent Nothing = Nothing
  ann = ann bob = bob
  Users = {ann, bob}
  Moderators = {ann}
  Verified = {ann, bob}
  Blocked <- NoBlocks
  Rides = {1, 2, 3}
  Reqs = {q1}
  Tx = {t1, t2}
  MaxSeats = 1
  CompleteAfter = 1
  InFlight <- SweepTwice
  MaxTime = 2
  SpawnReserve = 2
  Recurrence = {TRUE}
  Ops <- SweepOps
  IdOrder <- Ascending
INVARIANTS OneLiveOccurrence
PROPERTIES EndsOnlyWhenDue EveryCallEnds DueRidesEnd BookingSpec
CHECK_DEADLOCK FALSE
