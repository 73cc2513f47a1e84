SPECIFICATION Spec
CONSTANTS
  NoTx = NoTx Nothing = Nothing
  Claimants = {ann, bob}
  Claims = {1, 2}
  Tx = {t1, t2, t3}
  Window = 1 MaxTime = 1
SYMMETRY Symmetric
INVARIANTS GivenInv DecidedAreTold
PROPERTIES DecisionsStand
CHECK_DEADLOCK FALSE
