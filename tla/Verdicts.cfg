SPECIFICATION FairSpec
CONSTANTS
  NoTx = NoTx Nothing = Nothing Absent = Absent
  Users = {ann}
  Approvers = {ann, cat}
  OnDomain = {ann}
  Requests = {1, 2, 3}
  PerWindow = 2
  Tx = {t1, t2}
INVARIANTS VerificationInv
PROPERTIES VerdictsStand EveryCallEnds
CHECK_DEADLOCK FALSE
