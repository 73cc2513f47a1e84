SPECIFICATION Spec
CONSTANTS
  NoTx = NoTx Nothing = Nothing
  root = root ann = ann n1 = n1
  Admins = {root}
  Members = {root, ann, bob}
  Founders = {ann, bob}
  Tenants = {n1}
  Sessions = {s1}
  OwnerOf <- OneOwner
  Grants = {g1}
  Tx = {t1}
  Lifetime = 1
  MaxTime = 0
  Written <- AllOfThem
  Ops = {"openGrant", "setRole", "standing"}
INVARIANTS AdministratorLeft
CHECK_DEADLOCK FALSE
