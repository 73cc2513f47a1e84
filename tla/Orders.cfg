SPECIFICATION Spec
CONSTANTS
  NoTx = NoTx Absent = Absent Nothing = Nothing
  Users = {ann, bob}
  Orders = {o1}
  Reviews = {v1, v2}
  Tx = {t1, t2}
  MaxRevisions = 1
  Window = 1
  ModesAsked = {"cash", "online", Nothing}
  Days = {2}
  Autos = 1
SYMMETRY Symmetric
INVARIANTS HistoryInv PaidBeforeWork ReviewsEarned
PROPERTIES CompletedByBuyerOrTime ContractSpec
CHECK_DEADLOCK FALSE
