SPECIFICATION Spec
CONSTANTS
  NoTx = NoTx Nothing = Nothing
  root = root ann = ann n1 = n1
  Admins = {root}
  Members = {root, ann, bob}
  Founders = {ann, bob}
  Tenants = {n1, n2}
  Sessions = {s1}
  OwnerOf <- OneOwner
  Grants = {g1, g2}
  Tx = {t1, t2}
  Lifetime = 1
  MaxTime = 1
  Written <- AnnAndRoot
  Ops = {"openGrant", "setRole", "closeGrant", "signOut", "standing"}
SYMMETRY Symmetric
INVARIANTS RolesByVisitors AuditInv
PROPERTIES GrantsEndOnce
CHECK_DEADLOCK FALSE
