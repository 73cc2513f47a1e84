SPECIFICATION Spec
CONSTANTS
  NoTx = NoTx Nobody = Nobody
  Users = {ann, bob}
  Slots = {1, 2}
  Tx = {t1, t2}
  Bar = 1 Life = 1 Grace = 0 Window = 1 MaxTime = 1
SYMMETRY Symmetric
INVARIANTS RequestsWait
PROPERTIES ContractSpec DeletedStaysEmpty
CHECK_DEADLOCK FALSE
