SPECIFICATION Spec
CONSTANTS
  NoTx = NoTx Nothing = Nothing
  ann = ann bob = bob cat = cat signed = signed hidden = hidden
  Users = {ann, bob, cat}
  Items = {signed, hidden}
  Author <- AnnWrote
  Anonymous = {hidden}
  MayVote <- Voters
  Options = {yes}
  Electors = {ann}
  Tx = {t1, t2}
  Cap = 1
  MaxDay = 1
  Reach = 1
SYMMETRY Symmetric
INVARIANTS CountersTell KarmaEarned
PROPERTIES PublicMovesBySigned
CHECK_DEADLOCK FALSE
